------------------------- MODULE CommunicatorProofs -------------------------
(***************************************************************************)
(* Proofs about Communicator, for any number of sessions, connections,     *)
(* clients and handler threads: no session is handled twice, a connection  *)
(* entry is freed when the last one who uses it lets it go, the idle list  *)
(* is sound, and replies are neither refused nor left without a timer.     *)
(*                                                                         *)
(* Two kinds of results are on their way for a connection.  One of them    *)
(* will end it: the poller holds its node, or the result is queued, or a   *)
(* handler has it (Life); there is at most one of these.  The others are   *)
(* replies, of which at most one is not handled yet (Pend).  What the      *)
(* state of the entry says about the two is the heart of the invariant.    *)
(***************************************************************************)
EXTENDS Communicator, FiniteSetTheorems, SequenceTheorems, WellFoundedInduction, TLAPS

IsReply(r) == r.op = "READ" /\ r.state = "SUCCESS"

(* Results in the queue for an entry.                                      *)
QLife(e)    == \E i \in DOMAIN queue : queue[i].entry = e /\ ~IsReply(queue[i])
QReply(e)   == \E i \in DOMAIN queue : queue[i].entry = e /\ IsReply(queue[i])
QConnect(e) == \E i \in DOMAIN queue : queue[i].entry = e /\ queue[i].op = "CONNECT"

(* What a handler does with a result for an entry.                         *)
HLife(h, e)    == hpc[h] \in {"send", "add", "abort", "final"} /\ hres[h].entry = e
HDone(h, e)    == hpc[h] \in {"end", "callback"} /\ hres[h].entry = e /\ ~IsReply(hres[h])
HReply(h, e)   == hpc[h] = "reply" /\ hres[h].entry = e
HReplied(h, e) == hpc[h] \in {"end", "callback"} /\ hres[h].entry = e /\ IsReply(hres[h])
HConnect(h, e) == hpc[h] # "stop?" /\ hres[h].entry = e /\ hres[h].op = "CONNECT"
HSend(h, e)    == hpc[h] = "send" /\ hres[h].entry = e

Life(e)    == node[e] # "none" \/ QLife(e) \/ \E h \in Handlers : HLife(h, e)
Done(e)    == \E h \in Handlers : HDone(h, e)
Pend(e)    == QReply(e) \/ \E h \in Handlers : HReply(h, e)
Replied(e) == {h \in Handlers : HReplied(h, e)}

(* There is one result, or one node to bring it, that ends a connection,   *)
(* and one reply at a time.                                                *)
OneLife(e) ==
    /\ node[e] # "none" => ~QLife(e) /\ \A h \in Handlers : ~HLife(h, e) /\ ~HDone(h, e)
    /\ QLife(e) => \A h \in Handlers : ~HLife(h, e) /\ ~HDone(h, e)
    /\ \A g, h \in Handlers :
           (HLife(g, e) \/ HDone(g, e)) /\ (HLife(h, e) \/ HDone(h, e)) => g = h

OneReply(e) ==
    /\ QReply(e) => \A h \in Handlers : ~HReply(h, e)
    /\ \A g, h \in Handlers : HReply(g, e) /\ HReply(h, e) => g = h

QueuedOnce ==
    \A i, j \in DOMAIN queue :
        queue[i].entry = queue[j].entry /\ (IsReply(queue[i]) <=> IsReply(queue[j])) => i = j

(* What the state of an entry says about its results.                      *)
StateRight(e) ==
    /\ state[e] = "NEW" => ~Life(e) /\ ~Done(e) /\ session[e] = NoSession
    /\ state[e] # "NEW" => session[e] \in Sessions
    /\ state[e] \in {"NEW", "CONNECTING"} => \A h \in Handlers : ~HReplied(h, e)
    /\ node[e] = "connect" \/ QConnect(e) => state[e] = "CONNECTING"
    /\ \A h \in Handlers : HSend(h, e) => state[e] = "CONNECTING"
    /\ \A h \in Handlers : HConnect(h, e) =>
           /\ state[e] \in {"CONNECTING", "RECEIVING"}
           /\ \A g \in Handlers : ~HReplied(g, e)
    /\ Pend(e) => \/ state[e] = "SUCCESS" /\ Life(e)
                  \/ state[e] = "CLOSING" /\ ~Life(e) /\ ~Done(e)
    /\ state[e] = "SUCCESS" => Pend(e)

(* A connection that was never used again: its first message was partly    *)
(* written.                                                                *)
Leaked(e) == state[e] = "CONNECTING" /\ session[e] \in stuck

(* Who accounts for the first reference; each reply that is being handled  *)
(* accounts for one more.                                                  *)
Holding(e) == Life(e) \/ Done(e) \/ (Pend(e) /\ state[e] = "CLOSING") \/ Leaked(e)

Counted(e) ==
    /\ Leaked(e) => ~Life(e) /\ ~Done(e)
    /\ ref[e] = Cardinality(Replied(e)) + (IF Holding(e) THEN 1 ELSE 0)
    /\ closed[e] = IF state[e] # "NEW" /\ ref[e] = 0 THEN 1 ELSE 0

(* A request holds the mutex of an idle connection that it took from the   *)
(* list.                                                                   *)
Locked(e) ==
    /\ OnIdleList(e) \/ mutex[e] # NoOne => state[e] = "IDLE" /\ Life(e)
    /\ ~(OnIdleList(e) /\ mutex[e] # NoOne)
    /\ mutex[e] # NoOne => centry[mutex[e]] = e /\ csession[mutex[e]] = session[e]
    /\ state[e] = "IDLE" /\ Life(e) =>
           OnIdleList(e) \/ mutex[e] # NoOne \/ session[e] \in stuck

(* The poller thread reads on connections that it has, and only replies to *)
(* requests that were written; until deinit a node is deleted only by who  *)
(* ends the use of the connection.                                         *)
Reading(e) ==
    /\ message[e] => state[e] = "RECEIVING"
    /\ written[e] => \/ state[e] = "RECEIVING"
                     \/ mutex[e] # NoOne /\ cpc[mutex[e]] = "all"
    /\ pentry = e => /\ node[e] \in {"read", "deleted"}
                     /\ ppc = "append" => message[e]
                     /\ psolicited => written[e]
                     /\ psolicited /\ ppc = "check" => state[e] = "RECEIVING"
    /\ node[e] = "deleted" /\ ~stopFlag =>
           \/ state[e] \in {"ERROR", "CLOSING"}
           \/ state[e] = "SUCCESS" /\ timeout[session[e]] = 0

EntryInv(e) ==
    OneLife(e) /\ OneReply(e) /\ StateRight(e) /\ Counted(e) /\ Locked(e) /\ Reading(e)

(* What the threads know in each of their states.                          *)
HandlerInv(h) ==
    /\ hpc[h] = "get" <=> hres[h] = NoResult
    /\ hpc[h] \in {"send", "add", "abort", "stop?"} => hres[h].op = "CONNECT"
    /\ hpc[h] = "reply" => IsReply(hres[h])
    /\ hpc[h] \in {"final", "end"} => hres[h].op = "READ"
    /\ hpc[h] = "final" => ~IsReply(hres[h])

CallerInv(c) ==
    /\ cpc[c] = "idle" <=> centry[c] = NoEntry
    /\ centry[c] # NoEntry => mutex[centry[c]] = c

PollerInv == ppc = "wait" <=> pentry = NoEntry

(* The session of an entry has not been handled and will be.               *)
Owes(e) ==
    \/ state[e] \in {"CONNECTING", "RECEIVING", "ERROR"} /\ Life(e)
    \/ Pend(e)
    \/ mutex[e] # NoOne

Ending(h, s) == hpc[h] = "end" /\ hsession[h] = s

(* A session is owed by one entry or is about to be handled by one         *)
(* handler.                                                                *)
SessionsOnce ==
    /\ \A e \in Entries : session[e] \in accepted \cup {NoSession}
    /\ \A e, f \in Entries : session[e] = session[f] /\ session[e] # NoSession => e = f
    /\ \A e \in Entries : Owes(e) => handled[session[e]] = 0
    /\ \A s \in Sessions : handled[s] <= 1 /\ (s \notin accepted => handled[s] = 0)
    /\ \A s \in Sessions : \A h \in Handlers : Ending(h, s) =>
           /\ s \in accepted /\ handled[s] = 0
           /\ \A e \in Entries : Owes(e) => session[e] # s
           /\ \A g \in Handlers : Ending(g, s) => g = h

IdleDistinct == \A i, j \in DOMAIN idle : i # j => idle[i] # idle[j]

NoAnomaly ==
    /\ "list_del twice" \in anomalies => stuck # {}
    /\ "reply rejected" \notin anomalies
    /\ "set_timeout failed" \in anomalies => stopFlag

IInv ==
    /\ TypeOK
    /\ \A e \in Entries : EntryInv(e)
    /\ QueuedOnce
    /\ \A h \in Handlers : HandlerInv(h)
    /\ \A c \in Callers : CallerInv(c)
    /\ PollerInv
    /\ SessionsOnce
    /\ IdleDistinct
    /\ NoAnomaly

-----------------------------------------------------------------------------
(* What a step leaves alone.                                               *)

SameQueued(e) ==
    /\ QLife(e)' <=> QLife(e)
    /\ QReply(e)' <=> QReply(e)
    /\ QConnect(e)' <=> QConnect(e)

SameHeld(h, e) ==
    /\ HLife(h, e)' <=> HLife(h, e)
    /\ HDone(h, e)' <=> HDone(h, e)
    /\ HReply(h, e)' <=> HReply(h, e)
    /\ HReplied(h, e)' <=> HReplied(h, e)
    /\ HConnect(h, e)' <=> HConnect(h, e)
    /\ HSend(h, e)' <=> HSend(h, e)

SameResults(e) == SameQueued(e) /\ \A h \in Handlers : SameHeld(h, e)

SameFields(e) ==
    /\ state'[e] = state[e] /\ ref'[e] = ref[e] /\ closed'[e] = closed[e]
    /\ session'[e] = session[e] /\ mutex'[e] = mutex[e] /\ node'[e] = node[e]
    /\ written'[e] = written[e] /\ message'[e] = message[e]
    /\ OnIdleList(e)' <=> OnIdleList(e)

(* The locals of the caller and of the poller that use the entry.          *)
SameUsers(e) ==
    /\ mutex[e] # NoOne => /\ centry'[mutex[e]] = centry[mutex[e]]
                           /\ csession'[mutex[e]] = csession[mutex[e]]
                           /\ cpc'[mutex[e]] = cpc[mutex[e]]
    /\ pentry' = e => pentry = e /\ ppc' = ppc /\ psolicited' = psolicited
    /\ stopFlag => stopFlag'
    /\ session[e] \in Sessions => timeout'[session[e]] = timeout[session[e]]
    /\ session[e] \in stuck' <=> session[e] \in stuck

LEMMA SameLife ==
    ASSUME NEW e, SameResults(e), node'[e] = node[e]
    PROVE  /\ Life(e)' <=> Life(e)
           /\ Done(e)' <=> Done(e)
           /\ Pend(e)' <=> Pend(e)
           /\ Replied(e)' = Replied(e)
<1>1. Replied(e)' = Replied(e)
    BY DEF Replied, SameResults, SameHeld
<1> QED
    BY <1>1 DEF Life, Done, Pend, SameResults, SameHeld, SameQueued

LEMMA Untouched ==
    ASSUME NEW e \in Entries, EntryInv(e), SameResults(e), SameFields(e), SameUsers(e)
    PROVE  EntryInv(e)'
<1>1. /\ Life(e)' <=> Life(e)
      /\ Done(e)' <=> Done(e)
      /\ Pend(e)' <=> Pend(e)
      /\ Replied(e)' = Replied(e)
    BY SameLife DEF SameFields
<1>2. OneLife(e)'
    BY DEF EntryInv, OneLife, SameResults, SameQueued, SameHeld, SameFields
<1>3. OneReply(e)'
    BY DEF EntryInv, OneReply, SameResults, SameQueued, SameHeld, SameFields
<1>4. StateRight(e)'
    BY <1>1 DEF EntryInv, StateRight, SameResults, SameQueued, SameHeld, SameFields
<1>5. Counted(e)'
    <2>1. Leaked(e)' <=> Leaked(e)
        BY DEF Leaked, SameFields, SameUsers
    <2>2. Holding(e)' <=> Holding(e)
        BY <1>1, <2>1 DEF Holding, SameFields
    <2> QED
        BY <1>1, <2>1, <2>2 DEF EntryInv, Counted, SameFields
<1>6. Locked(e)'
    BY <1>1 DEF EntryInv, Locked, SameFields, SameUsers
<1>7. Reading(e)'
    <2>1. state[e] = "SUCCESS" => session[e] \in Sessions
        BY DEF EntryInv, StateRight
    <2> QED
        BY <2>1 DEF EntryInv, Reading, SameFields, SameUsers
<1> QED
    BY <1>2, <1>3, <1>4, <1>5, <1>6, <1>7 DEF EntryInv

LEMMA QueueKept ==
    ASSUME queue' = queue
    PROVE  (\A e : SameQueued(e)) /\ (QueuedOnce => QueuedOnce')
BY DEF SameQueued, QLife, QReply, QConnect, QueuedOnce

LEMMA HandlerKept ==
    ASSUME NEW h, hpc'[h] = hpc[h], hres'[h] = hres[h]
    PROVE  (\A e : SameHeld(h, e)) /\ (HandlerInv(h) => HandlerInv(h)')
BY DEF SameHeld, HLife, HDone, HReply, HReplied, HConnect, HSend, HandlerInv

LEMMA ResultsKept ==
    ASSUME UNCHANGED <<queue, hpc, hres>>
    PROVE  (\A e : SameResults(e)) /\ (QueuedOnce => QueuedOnce')
           /\ \A h : HandlerInv(h) => HandlerInv(h)'
<1>1. \A h : hpc'[h] = hpc[h] /\ hres'[h] = hres[h]
    OBVIOUS
<1>2. \A h : (\A e : SameHeld(h, e)) /\ (HandlerInv(h) => HandlerInv(h)')
    BY <1>1, HandlerKept
<1> QED
    BY <1>2, QueueKept DEF SameResults

LEMMA SessionsKept ==
    ASSUME SessionsOnce, UNCHANGED <<session, accepted, handled>>,
           \A e \in Entries : Owes(e)' => Owes(e),
           \A h \in Handlers, s \in Sessions : Ending(h, s)' => Ending(h, s)
    PROVE  SessionsOnce'
BY DEF SessionsOnce

LEMMA SameOwes ==
    ASSUME NEW e, SameResults(e), state'[e] = state[e], node'[e] = node[e], mutex'[e] = mutex[e]
    PROVE  Owes(e)' <=> Owes(e)
BY SameLife DEF Owes

-----------------------------------------------------------------------------
(* The queue.                                                              *)

LEMMA Enqueued ==
    ASSUME queue \in Seq(Results), NEW r \in Results, queue' = Append(queue, r)
    PROVE  /\ queue' \in Seq(Results)
           /\ \A e : /\ QLife(e)' <=> QLife(e) \/ (r.entry = e /\ ~IsReply(r))
                     /\ QReply(e)' <=> QReply(e) \/ (r.entry = e /\ IsReply(r))
                     /\ QConnect(e)' <=> QConnect(e) \/ (r.entry = e /\ r.op = "CONNECT")
           /\ QueuedOnce /\ (IF IsReply(r) THEN ~QReply(r.entry) ELSE ~QLife(r.entry)) => QueuedOnce'
<1>1. /\ queue' \in Seq(Results) /\ Len(queue) \in Nat /\ Len(queue') = Len(queue) + 1
      /\ DOMAIN queue = 1 .. Len(queue) /\ DOMAIN queue' = 1 .. Len(queue) + 1
    OBVIOUS
<1>2. queue'[Len(queue) + 1] = r /\ \A i \in 1 .. Len(queue) : queue'[i] = queue[i]
    OBVIOUS
<1>3. \A i \in DOMAIN queue' : i = Len(queue) + 1 \/ i \in DOMAIN queue
    BY <1>1
<1>4. Len(queue) + 1 \in DOMAIN queue' /\ DOMAIN queue \subseteq DOMAIN queue'
      /\ \A i \in DOMAIN queue : queue'[i] = queue[i]
    BY <1>1, <1>2
<1>5. \A e : QLife(e)' <=> QLife(e) \/ (r.entry = e /\ ~IsReply(r))
    BY <1>2, <1>3, <1>4, Zenon DEF QLife
<1>6. \A e : QReply(e)' <=> QReply(e) \/ (r.entry = e /\ IsReply(r))
    BY <1>2, <1>3, <1>4, Zenon DEF QReply
<1>7. \A e : QConnect(e)' <=> QConnect(e) \/ (r.entry = e /\ r.op = "CONNECT")
    BY <1>2, <1>3, <1>4, Zenon DEF QConnect
<1>8. ASSUME QueuedOnce, IF IsReply(r) THEN ~QReply(r.entry) ELSE ~QLife(r.entry)
      PROVE  QueuedOnce'
    <2>1. \A i \in DOMAIN queue : ~(queue[i].entry = r.entry /\ (IsReply(queue[i]) <=> IsReply(r)))
        BY <1>8 DEF QReply, QLife
    <2> QED
        BY <1>2, <1>3, <1>4, <1>8, <2>1 DEF QueuedOnce
<1> QED
    BY <1>1, <1>5, <1>6, <1>7, <1>8

LEMMA Dequeued ==
    ASSUME queue \in Seq(Results), queue # <<>>, QueuedOnce, NEW r, r = Head(queue),
           queue' = Tail(queue)
    PROVE  /\ queue' \in Seq(Results) /\ r \in Results
           /\ \A e : /\ QLife(e)' <=> QLife(e) /\ ~(r.entry = e /\ ~IsReply(r))
                     /\ QReply(e)' <=> QReply(e) /\ ~(r.entry = e /\ IsReply(r))
                     /\ QConnect(e)' => QConnect(e)
           /\ IF IsReply(r) THEN QReply(r.entry) ELSE QLife(r.entry)
           /\ r.op = "CONNECT" => QConnect(r.entry)
           /\ QueuedOnce'
<1>1. /\ queue' \in Seq(Results) /\ r \in Results /\ Len(queue) \in Nat /\ Len(queue) >= 1
      /\ DOMAIN queue = 1 .. Len(queue) /\ DOMAIN queue' = 1 .. Len(queue) - 1 /\ r = queue[1]
    OBVIOUS
<1>2. \A i \in DOMAIN queue' : i + 1 \in DOMAIN queue /\ i + 1 # 1 /\ queue'[i] = queue[i + 1]
    BY <1>1
<1>3. \A i \in DOMAIN queue : i # 1 => i - 1 \in DOMAIN queue' /\ queue'[i - 1] = queue[i]
    BY <1>1
<1>4. 1 \in DOMAIN queue
    BY <1>1
<1>5. \A i \in DOMAIN queue : i # 1 =>
          ~(queue[i].entry = r.entry /\ (IsReply(queue[i]) <=> IsReply(r)))
    <2>1. r = queue[1]
        BY <1>1
    <2> QED
        BY <1>4, <2>1, Zenon DEF QueuedOnce
<1>6. \A e : QLife(e)' <=> QLife(e) /\ ~(r.entry = e /\ ~IsReply(r))
    <2> SUFFICES ASSUME NEW e PROVE QLife(e)' <=> QLife(e) /\ ~(r.entry = e /\ ~IsReply(r))
        OBVIOUS
    <2>1. QLife(e)' => QLife(e) /\ ~(r.entry = e /\ ~IsReply(r))
        BY <1>2, <1>5 DEF QLife
    <2>2. ASSUME NEW i \in DOMAIN queue, queue[i].entry = e, ~IsReply(queue[i]),
                 ~(r.entry = e /\ ~IsReply(r))
          PROVE  QLife(e)'
        <3>1. i # 1
            BY <1>1, <2>2
        <3> QED
            BY <1>3, <2>2, <3>1 DEF QLife
    <2> QED
        BY <2>1, <2>2 DEF QLife
<1>7. \A e : QReply(e)' <=> QReply(e) /\ ~(r.entry = e /\ IsReply(r))
    <2> SUFFICES ASSUME NEW e PROVE QReply(e)' <=> QReply(e) /\ ~(r.entry = e /\ IsReply(r))
        OBVIOUS
    <2>1. QReply(e)' => QReply(e) /\ ~(r.entry = e /\ IsReply(r))
        BY <1>2, <1>5 DEF QReply
    <2>2. ASSUME NEW i \in DOMAIN queue, queue[i].entry = e, IsReply(queue[i]),
                 ~(r.entry = e /\ IsReply(r))
          PROVE  QReply(e)'
        <3>1. i # 1
            BY <1>1, <2>2
        <3> QED
            BY <1>3, <2>2, <3>1 DEF QReply
    <2> QED
        BY <2>1, <2>2 DEF QReply
<1>8. \A e : QConnect(e)' => QConnect(e)
    BY <1>2 DEF QConnect
<1>9. QueuedOnce'
    <2> SUFFICES ASSUME NEW i \in DOMAIN queue', NEW j \in DOMAIN queue',
                        queue'[i].entry = queue'[j].entry,
                        IsReply(queue'[i]) <=> IsReply(queue'[j])
                 PROVE  i = j
        BY DEF QueuedOnce
    <2>1. i + 1 = j + 1
        BY <1>2 DEF QueuedOnce
    <2> QED
        BY <1>1, <2>1
<1>10. /\ IF IsReply(r) THEN QReply(r.entry) ELSE QLife(r.entry)
       /\ r.op = "CONNECT" => QConnect(r.entry)
    <2>1. r = queue[1]
        BY <1>1
    <2> QED
        BY <1>4, <2>1, Zenon DEF QLife, QReply, QConnect
<1> QED
    BY <1>1, <1>6, <1>7, <1>8, <1>9, <1>10, Zenon

-----------------------------------------------------------------------------
(* The idle list.                                                          *)

Cut(q, n) == [i \in 1 .. Len(q) - 1 |-> IF i < n THEN q[i] ELSE q[i + 1]]

LEMMA CutIdle ==
    ASSUME idle \in Seq(Entries), IdleDistinct, NEW n \in DOMAIN idle, idle' = Cut(idle, n)
    PROVE  /\ idle' \in Seq(Entries) /\ IdleDistinct'
           /\ \A f : OnIdleList(f)' <=> OnIdleList(f) /\ f # idle[n]
<1>1. /\ Len(idle) \in Nat /\ Len(idle) - 1 \in Nat /\ DOMAIN idle = 1 .. Len(idle)
      /\ \A i \in 1 .. Len(idle) : idle[i] \in Entries
    OBVIOUS
<1>2. \A i \in 1 .. Len(idle) - 1 :
          /\ idle'[i] = IF i < n THEN idle[i] ELSE idle[i + 1]
          /\ i \in 1 .. Len(idle) /\ i + 1 \in 1 .. Len(idle)
    BY <1>1 DEF Cut
<1>3. idle' \in Seq(Entries) /\ DOMAIN idle' = 1 .. Len(idle) - 1
    <2>1. idle' \in [1 .. Len(idle) - 1 -> Entries]
        BY <1>1 DEF Cut
    <2> QED
        BY <1>1, <2>1
<1>4. ASSUME NEW i \in DOMAIN idle'
      PROVE  \E a \in DOMAIN idle \ {n} : idle'[i] = idle[a] /\ a = IF i < n THEN i ELSE i + 1
    BY <1>1, <1>2, <1>3
<1>5. ASSUME NEW a \in DOMAIN idle \ {n} PROVE \E i \in DOMAIN idle' : idle'[i] = idle[a]
    <2>1. PICK i \in 1 .. Len(idle) - 1 : i = IF a < n THEN a ELSE a - 1
        BY <1>1
    <2>2. idle'[i] = idle[a]
        BY <1>1, <1>2, <2>1
    <2> QED
        BY <1>3, <2>2
<1>6. IdleDistinct'
    <2> SUFFICES ASSUME NEW i \in DOMAIN idle', NEW j \in DOMAIN idle', i # j
                 PROVE  idle'[i] # idle'[j]
        BY DEF IdleDistinct
    <2>1. PICK a \in DOMAIN idle : idle'[i] = idle[a] /\ a = IF i < n THEN i ELSE i + 1
        BY <1>4
    <2>2. PICK b \in DOMAIN idle : idle'[j] = idle[b] /\ b = IF j < n THEN j ELSE j + 1
        BY <1>4
    <2>3. a # b
        BY <1>1, <1>3, <2>1, <2>2
    <2> QED
        BY <2>1, <2>2, <2>3 DEF IdleDistinct
<1>7. ASSUME NEW f PROVE OnIdleList(f)' <=> OnIdleList(f) /\ f # idle[n]
    <2>1. OnIdleList(f)' => OnIdleList(f) /\ f # idle[n]
        BY <1>4 DEF OnIdleList, IdleDistinct
    <2>2. OnIdleList(f) /\ f # idle[n] => OnIdleList(f)'
        BY <1>5 DEF OnIdleList
    <2> QED
        BY <2>1, <2>2
<1> QED
    BY <1>3, <1>6, <1>7

LEMMA Unlisted ==
    ASSUME idle \in Seq(Entries), IdleDistinct, NEW e, idle' = Without(idle, e)
    PROVE  /\ idle' \in Seq(Entries) /\ IdleDistinct'
           /\ \A f : OnIdleList(f)' <=> OnIdleList(f) /\ f # e
<1>1. CASE OnIdleList(e)
    <2>1. PICK n \in DOMAIN idle : idle[n] = e /\ n = CHOOSE i \in DOMAIN idle : idle[i] = e
        BY <1>1 DEF OnIdleList
    <2>2. idle' = Cut(idle, n)
        BY <1>1, <2>1 DEF Without, Cut, OnIdleList
    <2> QED
        BY <2>1, <2>2, CutIdle
<1>2. CASE ~OnIdleList(e)
    <2>1. idle' = idle
        BY <1>2 DEF Without, OnIdleList
    <2> QED
        BY <1>2, <2>1 DEF OnIdleList, IdleDistinct
<1> QED
    BY <1>1, <1>2

LEMMA ListedFirst ==
    ASSUME idle \in Seq(Entries), IdleDistinct, NEW e \in Entries, ~OnIdleList(e),
           idle' = <<e>> \o idle
    PROVE  /\ idle' \in Seq(Entries) /\ IdleDistinct'
           /\ \A f : OnIdleList(f)' <=> OnIdleList(f) \/ f = e
<1>1. /\ Len(idle) \in Nat /\ DOMAIN idle = 1 .. Len(idle) /\ idle' \in Seq(Entries)
      /\ DOMAIN idle' = 1 .. Len(idle) + 1 /\ idle'[1] = e
      /\ \A i \in 1 .. Len(idle) : idle'[i + 1] = idle[i]
    OBVIOUS
<1>2. \A i \in DOMAIN idle' : i = 1 \/ (i - 1 \in DOMAIN idle /\ idle'[i] = idle[i - 1])
    <2> SUFFICES ASSUME NEW i \in DOMAIN idle', i # 1
                 PROVE  i - 1 \in DOMAIN idle /\ idle'[i] = idle[i - 1]
        OBVIOUS
    <2>1. PICK j \in 1 .. Len(idle) : j + 1 = i
        BY <1>1
    <2> QED
        BY <1>1, <2>1
<1>3. IdleDistinct'
    <2> SUFFICES ASSUME NEW i \in DOMAIN idle', NEW j \in DOMAIN idle', idle'[i] = idle'[j]
                 PROVE  i = j
        BY DEF IdleDistinct
    <2>1. CASE i = 1 \/ j = 1
        BY <1>1, <1>2, <2>1 DEF OnIdleList
    <2>2. CASE i # 1 /\ j # 1
        <3>1. i - 1 = j - 1
            BY <1>2, <2>2 DEF IdleDistinct
        <3> QED
            BY <1>1, <3>1
    <2> QED
        BY <2>1, <2>2
<1>4. ASSUME NEW f PROVE OnIdleList(f)' <=> OnIdleList(f) \/ f = e
    <2>1. OnIdleList(f)' => OnIdleList(f) \/ f = e
        BY <1>1, <1>2 DEF OnIdleList
    <2>2. \A i \in DOMAIN idle : i + 1 \in DOMAIN idle' /\ idle'[i + 1] = idle[i]
        BY <1>1
    <2>3. 1 \in DOMAIN idle' /\ idle'[1] = e
        BY <1>1
    <2> QED
        BY <2>1, <2>2, <2>3 DEF OnIdleList
<1> QED
    BY <1>1, <1>3, <1>4

LEMMA IdleKept ==
    ASSUME idle' = idle
    PROVE  (\A f : OnIdleList(f)' <=> OnIdleList(f)) /\ (IdleDistinct => IdleDistinct')
BY DEF OnIdleList, IdleDistinct

(* A set of natural numbers has a smallest element.                        *)
LEMMA SmallestOf ==
    ASSUME NEW T, T \subseteq Nat, T # {}
    PROVE  \E x \in T : \A y \in T : x <= y
<1> DEFINE R == {ss \in Nat \X Nat : ss[1] < ss[2]}
<1>1. IsWellFoundedOn(R, Nat)
    BY NatLessThanWellFounded DEF OpToRel
<1> HIDE DEF R
<1>2. PICK x \in T : \A y \in T : ~(<<y, x>> \in R)
    BY <1>1, WFMin
<1>3. ASSUME NEW y \in T PROVE x <= y
    <2>1. ~(<<y, x>> \in R) /\ x \in Nat /\ y \in Nat
        BY <1>2
    <2> QED
        BY <2>1 DEF R
<1> QED
    BY <1>3

(* get_idle_conn finds a connection if there is one.                       *)
LEMMA IdleFound ==
    ASSUME idle \in Seq(Entries), Reusable # {}
    PROVE  FirstReusable \in DOMAIN idle /\ node[idle[FirstReusable]] = "read"
<1>1. Reusable \subseteq Nat
    BY DEF Reusable
<1>2. \E i \in Reusable : \A j \in Reusable : i <= j
    BY <1>1, SmallestOf
<1> QED
    BY <1>2 DEF FirstReusable, Reusable

-----------------------------------------------------------------------------
(* Requests.                                                               *)

LEMMA RequestIdleIInv ==
    ASSUME IInv, NEW c \in Callers, NEW s \in Sessions, RequestIdle(c, s)
    PROVE  IInv'
<1>1. PICK e : e = idle[FirstReusable]
    OBVIOUS
<1>2. /\ cpc[c] = "idle" /\ s \notin accepted /\ Reusable # {} /\ mutex[e] = NoOne
      /\ idle' = Without(idle, e)
      /\ mutex' = [mutex EXCEPT ![e] = c]
      /\ session' = [session EXCEPT ![e] = s]
      /\ accepted' = accepted \cup {s}
      /\ cpc' = [cpc EXCEPT ![c] = "write"]
      /\ csession' = [csession EXCEPT ![c] = s]
      /\ centry' = [centry EXCEPT ![c] = e]
      /\ UNCHANGED <<state, ref, timeout, node, written, message, ppc, pentry, psolicited>>
      /\ UNCHANGED <<queue, hpc, hres, hsession, stopFlag, handled, closed, stuck, anomalies>>
    BY <1>1 DEF RequestIdle, MayRequest, pollVars, handVars
<1>3. e \in Entries /\ OnIdleList(e) /\ node[e] = "read"
    BY <1>1, <1>2, IdleFound DEF IInv, TypeOK, OnIdleList
<1>4. EntryInv(e) /\ state[e] = "IDLE" /\ Life(e) /\ ~written[e]
    BY <1>2, <1>3 DEF IInv, EntryInv, Locked, Reading
<1>5. /\ idle' \in Seq(Entries) /\ IdleDistinct'
      /\ \A f : OnIdleList(f)' <=> OnIdleList(f) /\ f # e
    BY <1>2, Unlisted DEF IInv, TypeOK
<1>6. /\ (\A f : SameResults(f)) /\ QueuedOnce' /\ \A h \in Handlers : HandlerInv(h)'
    BY <1>2, ResultsKept DEF IInv
<1>7. TypeOK'
    BY <1>2, <1>3, <1>5 DEF IInv, TypeOK
<1>8. c # NoOne /\ NoOne \notin Callers /\ NoEntry \notin Entries /\ NoSession \notin Sessions
    BY CommunicatorAssumption DEF Callers
<1>9. /\ mutex'[e] = c /\ session'[e] = s /\ cpc'[c] = "write" /\ csession'[c] = s /\ centry'[c] = e
      /\ \A f \in Entries \ {e} : mutex'[f] = mutex[f] /\ session'[f] = session[f]
      /\ \A d \in Callers \ {c} : /\ cpc'[d] = cpc[d] /\ csession'[d] = csession[d]
                                  /\ centry'[d] = centry[d]
    BY <1>2, <1>3 DEF IInv, TypeOK
<1>10. ASSUME NEW f \in Entries \ {e} PROVE EntryInv(f)'
    <2>1. EntryInv(f) /\ mutex[f] # c
        BY <1>2, <1>8 DEF IInv, EntryInv, Locked, CallerInv
    <2>2. SameFields(f)
        BY <1>2, <1>5, <1>9 DEF SameFields
    <2>3. mutex[f] # NoOne => mutex[f] \in Callers \ {c}
        BY <2>1 DEF IInv, TypeOK
    <2>4. SameUsers(f)
        BY <1>2, <1>9, <2>3 DEF SameUsers
    <2> QED
        BY <1>6, <2>1, <2>2, <2>4, Untouched
<1>11. EntryInv(e)'
    <2>1. /\ Life(e)' <=> Life(e)
          /\ Done(e)' <=> Done(e)
          /\ Pend(e)' <=> Pend(e)
          /\ Replied(e)' = Replied(e)
        BY <1>2, <1>6, SameLife
    <2>2. SameResults(e)
        BY <1>6
    <2>3. OneLife(e)' /\ OneReply(e)'
        BY <1>2, <1>4, <2>2 DEF EntryInv, OneLife, OneReply, SameResults, SameQueued, SameHeld
    <2>4. StateRight(e)'
        BY <1>2, <1>4, <1>9, <2>1, <2>2 DEF EntryInv, StateRight, SameResults, SameQueued, SameHeld
    <2>5. Counted(e)'
        <3>1. ~Leaked(e) /\ ~Leaked(e)'
            BY <1>2, <1>4 DEF Leaked
        <3>2. Holding(e)' <=> Holding(e)
            BY <1>2, <2>1, <3>1 DEF Holding
        <3> QED
            BY <1>2, <1>4, <2>1, <3>1, <3>2 DEF EntryInv, Counted
    <2>6. Locked(e)'
        BY <1>2, <1>4, <1>5, <1>8, <1>9, <2>1 DEF Locked
    <2>7. Reading(e)'
        BY <1>2, <1>3, <1>4 DEF EntryInv, Reading
    <2> QED
        BY <2>3, <2>4, <2>5, <2>6, <2>7 DEF EntryInv
<1>12. ASSUME NEW d \in Callers PROVE CallerInv(d)'
    <2>1. CASE d = c
        BY <1>3, <1>8, <1>9, <2>1 DEF CallerInv
    <2>2. CASE d # c
        <3>1. CallerInv(d) /\ cpc'[d] = cpc[d] /\ centry'[d] = centry[d]
              /\ centry[d] \in Entries \cup {NoEntry}
            BY <1>9, <2>2 DEF IInv, TypeOK
        <3>2. centry[d] # NoEntry => centry[d] \in Entries \ {e}
            BY <1>2, <1>8, <3>1, <2>2 DEF CallerInv
        <3> QED
            BY <1>9, <3>1, <3>2 DEF CallerInv
    <2> QED
        BY <2>1, <2>2
<1>13. SessionsOnce'
    <2>1. /\ \A f \in Entries : session[f] # s
          /\ handled[s] = 0
          /\ \A h \in Handlers : ~Ending(h, s)
        BY <1>2, <1>8 DEF IInv, SessionsOnce
    <2>2. \A f \in Entries \ {e} : Owes(f)' <=> Owes(f)
        BY <1>2, <1>6, <1>9, SameOwes
    <2>3. \A h \in Handlers, z \in Sessions : Ending(h, z)' <=> Ending(h, z)
        BY <1>2 DEF Ending
    <2>4. /\ \A f \in Entries : session'[f] \in accepted' \cup {NoSession}
          /\ \A f, g \in Entries : session'[f] = session'[g] /\ session'[f] # NoSession => f = g
        BY <1>2, <1>9, <2>1 DEF IInv, SessionsOnce
    <2>5. \A f \in Entries : Owes(f)' => handled'[session'[f]] = 0
        BY <1>2, <1>9, <2>1, <2>2 DEF IInv, SessionsOnce
    <2>6. \A z \in Sessions : handled'[z] <= 1 /\ (z \notin accepted' => handled'[z] = 0)
        BY <1>2 DEF IInv, SessionsOnce
    <2>7. ASSUME NEW z \in Sessions, NEW h \in Handlers, Ending(h, z)'
          PROVE  /\ z \in accepted' /\ handled'[z] = 0
                 /\ \A f \in Entries : Owes(f)' => session'[f] # z
                 /\ \A g \in Handlers : Ending(g, z)' => g = h
        BY <1>2, <1>9, <2>1, <2>2, <2>3, <2>7 DEF IInv, SessionsOnce
    <2> QED
        BY <2>4, <2>5, <2>6, <2>7 DEF SessionsOnce
<1>14. PollerInv' /\ NoAnomaly'
    BY <1>2 DEF IInv, PollerInv, NoAnomaly
<1> QED
    BY <1>5, <1>6, <1>7, <1>10, <1>11, <1>12, <1>13, <1>14 DEF IInv

(* A step that changes fields of an entry but none of its results.         *)
LEMMA LifeKept ==
    ASSUME NEW e, SameResults(e), node'[e] = "none" <=> node[e] = "none"
    PROVE  /\ Life(e)' <=> Life(e)
           /\ Done(e)' <=> Done(e)
           /\ Pend(e)' <=> Pend(e)
           /\ Replied(e)' = Replied(e)
           /\ OneLife(e) => OneLife(e)'
           /\ OneReply(e) => OneReply(e)'
<1>1. Replied(e)' = Replied(e)
    BY DEF Replied, SameResults, SameHeld
<1>2. /\ Life(e)' <=> Life(e)
      /\ Done(e)' <=> Done(e)
      /\ Pend(e)' <=> Pend(e)
    BY DEF Life, Done, Pend, SameResults, SameHeld, SameQueued
<1>3. (OneLife(e) => OneLife(e)') /\ (OneReply(e) => OneReply(e)')
    BY DEF OneLife, OneReply, SameResults, SameQueued, SameHeld
<1> QED
    BY <1>1, <1>2, <1>3

LEMMA CountedKept ==
    ASSUME NEW e \in Entries, Counted(e), Replied(e)' = Replied(e),
           Holding(e)' <=> Holding(e), Leaked(e)' => ~Life(e)' /\ ~Done(e)',
           ref'[e] = ref[e], closed'[e] = closed[e],
           state'[e] = "NEW" <=> state[e] = "NEW"
    PROVE  Counted(e)'
BY DEF Counted

(* A request that has taken a connection.                                  *)
LEMMA Taken ==
    ASSUME IInv, NEW c \in Callers, cpc[c] # "idle", NEW e, e = centry[c]
    PROVE  /\ e \in Entries /\ mutex[e] = c /\ c # NoOne /\ state[e] = "IDLE" /\ Life(e)
           /\ csession[c] = session[e] /\ session[e] \in Sessions /\ ~OnIdleList(e) /\ ~Pend(e)
           /\ EntryInv(e) /\ ~Leaked(e)
           /\ \A f \in Entries \ {e} : mutex[f] # NoOne => mutex[f] \in Callers \ {c}
<1>1. /\ e \in Entries /\ mutex[e] = c /\ c # NoOne
    BY CommunicatorAssumption DEF IInv, TypeOK, CallerInv, Callers
<1>2. EntryInv(e) /\ state[e] = "IDLE" /\ Life(e) /\ csession[c] = session[e]
      /\ session[e] \in Sessions /\ ~OnIdleList(e) /\ ~Pend(e) /\ ~Leaked(e)
    BY <1>1 DEF IInv, EntryInv, Locked, StateRight, Leaked
<1>3. \A f \in Entries \ {e} : mutex[f] # NoOne => mutex[f] \in Callers \ {c}
    BY <1>1 DEF IInv, TypeOK, EntryInv, Locked
<1> QED
    BY <1>1, <1>2, <1>3

LEMMA RequestWritesIInv ==
    ASSUME IInv, NEW c \in Callers, NEW how \in Writes, RequestWrites(c, how)
    PROVE  IInv'
<1>1. PICK e : e = centry[c]
    OBVIOUS
<1>2. /\ cpc[c] = "write" /\ how \in {"all", "error", "partial"}
      /\ written' = IF how = "all" THEN [written EXCEPT ![e] = TRUE] ELSE written
      /\ cpc' = [cpc EXCEPT ![c] = how]
      /\ UNCHANGED <<state, ref, session, mutex, idle, timeout, node, message, ppc, pentry>>
      /\ UNCHANGED <<psolicited, queue, hpc, hres, hsession, csession, centry, stopFlag>>
      /\ UNCHANGED <<accepted, handled, closed, stuck, anomalies>>
    BY <1>1, CommunicatorAssumption DEF RequestWrites, entryVars, handVars, histVars
<1>3. /\ e \in Entries /\ mutex[e] = c /\ c # NoOne /\ state[e] = "IDLE" /\ Life(e)
      /\ EntryInv(e)
      /\ \A f \in Entries \ {e} : mutex[f] # NoOne => mutex[f] \in Callers \ {c}
    BY <1>1, <1>2, Taken
<1>4. (\A f : SameResults(f)) /\ QueuedOnce' /\ \A h \in Handlers : HandlerInv(h)'
    BY <1>2, ResultsKept DEF IInv
<1>5. (\A f : OnIdleList(f)' <=> OnIdleList(f)) /\ IdleDistinct'
    BY <1>2, IdleKept DEF IInv
<1>6. TypeOK'
    BY <1>2, <1>3 DEF IInv, TypeOK
<1>7. /\ cpc'[c] = how /\ \A d \in Callers \ {c} : cpc'[d] = cpc[d]
      /\ \A f \in Entries \ {e} : written'[f] = written[f]
    BY <1>2, <1>3 DEF IInv, TypeOK
<1>8. ASSUME NEW f \in Entries \ {e} PROVE EntryInv(f)'
    <2>1. SameFields(f) /\ SameUsers(f)
        BY <1>2, <1>3, <1>5, <1>7 DEF SameFields, SameUsers
    <2> QED
        BY <1>4, <2>1, Untouched DEF IInv
<1>9. EntryInv(e)'
    <2>1. /\ Life(e)' <=> Life(e)
          /\ Done(e)' <=> Done(e)
          /\ Pend(e)' <=> Pend(e)
          /\ Replied(e)' = Replied(e)
          /\ OneLife(e)' /\ OneReply(e)'
        BY <1>2, <1>3, <1>4, LifeKept DEF EntryInv
    <2>2. StateRight(e)'
        BY <1>2, <1>3, <1>4, <2>1 DEF EntryInv, StateRight, SameResults, SameQueued, SameHeld
    <2>3. Counted(e)'
        BY <1>2, <1>3, <2>1, CountedKept DEF EntryInv, Counted, Holding, Leaked
    <2>4. Locked(e)'
        BY <1>2, <1>3, <1>5, <2>1 DEF EntryInv, Locked
    <2>5. ~written[e]
        BY <1>2, <1>3 DEF EntryInv, Reading
    <2>6. Reading(e)'
        BY <1>2, <1>3, <1>7, <2>5 DEF EntryInv, Reading, IInv, TypeOK
    <2> QED
        BY <2>1, <2>2, <2>3, <2>4, <2>6 DEF EntryInv
<1>10. ASSUME NEW d \in Callers PROVE CallerInv(d)'
    BY <1>2, <1>7 DEF IInv, CallerInv
<1>11. SessionsOnce'
    <2>1. \A f \in Entries : Owes(f)' => Owes(f)
        BY <1>2, <1>4, SameOwes
    <2> QED
        BY <1>2, <2>1, SessionsKept DEF IInv, Ending
<1>12. PollerInv' /\ NoAnomaly'
    BY <1>2 DEF IInv, PollerInv, NoAnomaly
<1> QED
    BY <1>4, <1>5, <1>6, <1>8, <1>9, <1>10, <1>11, <1>12 DEF IInv

(* What request does at its end, whatever came of it.                      *)
LEMMA Unlocking ==
    ASSUME IInv, NEW c \in Callers, cpc[c] # "idle", NEW e, e = centry[c], Unlocked(c)
    PROVE  /\ mutex' \in [Entries -> Callers \cup {NoOne}]
           /\ cpc' \in [Callers -> {"idle", "write", "all", "error", "partial"}]
           /\ csession' \in [Callers -> Sessions \cup {NoSession}]
           /\ centry' \in [Callers -> Entries \cup {NoEntry}]
           /\ mutex'[e] = NoOne
           /\ \A f \in Entries \ {e} :
                  /\ mutex'[f] = mutex[f]
                  /\ mutex[f] # NoOne => /\ centry'[mutex[f]] = centry[mutex[f]]
                                         /\ csession'[mutex[f]] = csession[mutex[f]]
                                         /\ cpc'[mutex[f]] = cpc[mutex[f]]
           /\ \A d \in Callers : CallerInv(d)'
<1>1. /\ e \in Entries /\ mutex[e] = c
      /\ \A f \in Entries \ {e} : mutex[f] # NoOne => mutex[f] \in Callers \ {c}
    BY Taken
<1>2. /\ mutex' = [mutex EXCEPT ![e] = NoOne] /\ cpc' = [cpc EXCEPT ![c] = "idle"]
      /\ csession' = [csession EXCEPT ![c] = NoSession]
      /\ centry' = [centry EXCEPT ![c] = NoEntry]
    BY DEF Unlocked
<1>3. /\ mutex' \in [Entries -> Callers \cup {NoOne}]
      /\ cpc' \in [Callers -> {"idle", "write", "all", "error", "partial"}]
      /\ csession' \in [Callers -> Sessions \cup {NoSession}]
      /\ centry' \in [Callers -> Entries \cup {NoEntry}]
    BY <1>2 DEF IInv, TypeOK
<1>4. /\ mutex'[e] = NoOne /\ cpc'[c] = "idle" /\ centry'[c] = NoEntry
      /\ \A f \in Entries \ {e} : mutex'[f] = mutex[f]
      /\ \A d \in Callers \ {c} : /\ cpc'[d] = cpc[d] /\ csession'[d] = csession[d]
                                  /\ centry'[d] = centry[d]
    BY <1>1, <1>2 DEF IInv, TypeOK
<1>5. ASSUME NEW d \in Callers PROVE CallerInv(d)'
    <2>1. CASE d = c
        BY <1>4, <2>1 DEF CallerInv
    <2>2. CASE d # c
        <3>1. CallerInv(d) /\ cpc'[d] = cpc[d] /\ centry'[d] = centry[d]
              /\ centry[d] \in Entries \cup {NoEntry}
            BY <1>4, <2>2 DEF IInv, TypeOK
        <3>2. centry[d] # NoEntry => centry[d] \in Entries \ {e}
            BY <1>1, <3>1, <2>2 DEF CallerInv
        <3> QED
            BY <1>4, <3>1, <3>2 DEF CallerInv
    <2> QED
        BY <2>1, <2>2
<1> QED
    BY <1>1, <1>3, <1>4, <1>5

LEMMA RequestSentIInv ==
    ASSUME IInv, NEW c \in Callers, RequestSent(c)
    PROVE  IInv'
<1>1. PICK e : e = centry[c]
    OBVIOUS
<1>2. /\ cpc[c] = "all" /\ Unlocked(c)
      /\ state' = [state EXCEPT ![e] = "RECEIVING"]
      /\ UNCHANGED <<ref, session, idle, timeout, node, written, message, ppc, pentry>>
      /\ UNCHANGED <<psolicited, queue, hpc, hres, hsession, stopFlag>>
      /\ UNCHANGED <<accepted, handled, closed, stuck, anomalies>>
    BY <1>1 DEF RequestSent, pollVars, handVars, histVars
<1>3. /\ e \in Entries /\ mutex[e] = c /\ c # NoOne /\ state[e] = "IDLE" /\ Life(e)
      /\ session[e] \in Sessions /\ EntryInv(e) /\ ~OnIdleList(e) /\ ~Pend(e) /\ ~Leaked(e)
    BY <1>1, <1>2, Taken
<1>4. /\ mutex' \in [Entries -> Callers \cup {NoOne}]
      /\ cpc' \in [Callers -> {"idle", "write", "all", "error", "partial"}]
      /\ csession' \in [Callers -> Sessions \cup {NoSession}]
      /\ centry' \in [Callers -> Entries \cup {NoEntry}]
      /\ mutex'[e] = NoOne
      /\ \A f \in Entries \ {e} :
             /\ mutex'[f] = mutex[f]
             /\ mutex[f] # NoOne => /\ centry'[mutex[f]] = centry[mutex[f]]
                                    /\ csession'[mutex[f]] = csession[mutex[f]]
                                    /\ cpc'[mutex[f]] = cpc[mutex[f]]
      /\ \A d \in Callers : CallerInv(d)'
    BY <1>1, <1>2, Unlocking
<1>5. (\A f : SameResults(f)) /\ QueuedOnce' /\ \A h \in Handlers : HandlerInv(h)'
    BY <1>2, ResultsKept DEF IInv
<1>6. (\A f : OnIdleList(f)' <=> OnIdleList(f)) /\ IdleDistinct'
    BY <1>2, IdleKept DEF IInv
<1>7. TypeOK'
    BY <1>2, <1>3, <1>4 DEF IInv, TypeOK
<1>8. state'[e] = "RECEIVING" /\ \A f \in Entries \ {e} : state'[f] = state[f]
    BY <1>2, <1>3 DEF IInv, TypeOK
<1>9. ASSUME NEW f \in Entries \ {e} PROVE EntryInv(f)'
    <2>1. SameFields(f) /\ SameUsers(f)
        BY <1>2, <1>4, <1>6, <1>8 DEF SameFields, SameUsers
    <2> QED
        BY <1>5, <2>1, Untouched DEF IInv
<1>10. EntryInv(e)'
    <2>1. /\ Life(e)' <=> Life(e)
          /\ Done(e)' <=> Done(e)
          /\ Pend(e)' <=> Pend(e)
          /\ Replied(e)' = Replied(e)
          /\ OneLife(e)' /\ OneReply(e)'
        BY <1>2, <1>3, <1>5, LifeKept DEF EntryInv
    <2>2. StateRight(e)'
        BY <1>2, <1>3, <1>5, <1>8, <2>1 DEF EntryInv, StateRight, SameResults, SameQueued, SameHeld
    <2>3. ~Leaked(e)' /\ (Holding(e)' <=> Holding(e))
        BY <1>3, <1>8, <2>1 DEF Holding, Leaked
    <2>4. Counted(e)'
        BY <1>2, <1>3, <1>8, <2>1, <2>3, CountedKept DEF EntryInv
    <2>5. Locked(e)'
        BY <1>3, <1>4, <1>6, <1>8 DEF Locked
    <2>6. Reading(e)'
        BY <1>2, <1>3, <1>8 DEF EntryInv, Reading
    <2> QED
        BY <2>1, <2>2, <2>4, <2>5, <2>6 DEF EntryInv
<1>11. SessionsOnce'
    <2>1. \A f \in Entries : Owes(f)' => Owes(f)
        <3>1. Owes(e)
            BY <1>3 DEF Owes
        <3> QED
            BY <1>2, <1>4, <1>5, <1>8, <3>1, SameOwes
    <2> QED
        BY <1>2, <2>1, SessionsKept DEF IInv, Ending
<1>12. PollerInv' /\ NoAnomaly'
    BY <1>2 DEF IInv, PollerInv, NoAnomaly
<1> QED
    BY <1>4, <1>5, <1>6, <1>7, <1>9, <1>10, <1>11, <1>12 DEF IInv

LEMMA RequestSendFailsIInv ==
    ASSUME IInv, NEW c \in Callers, RequestSendFails(c)
    PROVE  IInv'
<1>1. PICK e : e = centry[c]
    OBVIOUS
<1>2. /\ cpc[c] = "error" /\ Unlocked(c)
      /\ node' = [node EXCEPT ![e] = IF @ = "read" THEN "deleted" ELSE @]
      /\ state' = [state EXCEPT ![e] = "ERROR"]
      /\ UNCHANGED <<ref, session, idle, timeout, written, message, ppc, pentry>>
      /\ UNCHANGED <<psolicited, queue, hpc, hres, hsession, stopFlag>>
      /\ UNCHANGED <<accepted, handled, closed, stuck, anomalies>>
    BY <1>1 DEF RequestSendFails, handVars, histVars
<1>3. /\ e \in Entries /\ mutex[e] = c /\ c # NoOne /\ state[e] = "IDLE" /\ Life(e)
      /\ session[e] \in Sessions /\ EntryInv(e) /\ ~OnIdleList(e) /\ ~Pend(e) /\ ~Leaked(e)
    BY <1>1, <1>2, Taken
<1>4. /\ mutex' \in [Entries -> Callers \cup {NoOne}]
      /\ cpc' \in [Callers -> {"idle", "write", "all", "error", "partial"}]
      /\ csession' \in [Callers -> Sessions \cup {NoSession}]
      /\ centry' \in [Callers -> Entries \cup {NoEntry}]
      /\ mutex'[e] = NoOne
      /\ \A f \in Entries \ {e} :
             /\ mutex'[f] = mutex[f]
             /\ mutex[f] # NoOne => /\ centry'[mutex[f]] = centry[mutex[f]]
                                    /\ csession'[mutex[f]] = csession[mutex[f]]
                                    /\ cpc'[mutex[f]] = cpc[mutex[f]]
      /\ \A d \in Callers : CallerInv(d)'
    BY <1>1, <1>2, Unlocking
<1>5. (\A f : SameResults(f)) /\ QueuedOnce' /\ \A h \in Handlers : HandlerInv(h)'
    BY <1>2, ResultsKept DEF IInv
<1>6. (\A f : OnIdleList(f)' <=> OnIdleList(f)) /\ IdleDistinct'
    BY <1>2, IdleKept DEF IInv
<1>7. TypeOK'
    BY <1>2, <1>3, <1>4 DEF IInv, TypeOK
<1>8. /\ state'[e] = "ERROR" /\ \A f \in Entries \ {e} : state'[f] = state[f]
      /\ node'[e] = IF node[e] = "read" THEN "deleted" ELSE node[e]
      /\ \A f \in Entries \ {e} : node'[f] = node[f]
    BY <1>2, <1>3 DEF IInv, TypeOK
<1>9. ASSUME NEW f \in Entries \ {e} PROVE EntryInv(f)'
    <2>1. SameFields(f) /\ SameUsers(f)
        BY <1>2, <1>4, <1>6, <1>8 DEF SameFields, SameUsers
    <2> QED
        BY <1>5, <2>1, Untouched DEF IInv
<1>10. EntryInv(e)'
    <2>1. /\ Life(e)' <=> Life(e)
          /\ Done(e)' <=> Done(e)
          /\ Pend(e)' <=> Pend(e)
          /\ Replied(e)' = Replied(e)
          /\ OneLife(e)' /\ OneReply(e)'
        BY <1>3, <1>5, <1>8, LifeKept DEF EntryInv
    <2>2. StateRight(e)'
        BY <1>2, <1>3, <1>5, <1>8, <2>1 DEF EntryInv, StateRight, SameResults, SameQueued, SameHeld
    <2>3. ~Leaked(e)' /\ (Holding(e)' <=> Holding(e))
        BY <1>3, <1>8, <2>1 DEF Holding, Leaked
    <2>4. Counted(e)'
        BY <1>2, <1>3, <1>8, <2>1, <2>3, CountedKept DEF EntryInv
    <2>5. Locked(e)'
        BY <1>3, <1>4, <1>6, <1>8 DEF Locked
    <2>6. ~written[e] /\ ~message[e]
        BY <1>2, <1>3 DEF EntryInv, Reading
    <2>7. Reading(e)'
        BY <1>2, <1>3, <1>8, <2>6 DEF EntryInv, Reading
    <2> QED
        BY <2>1, <2>2, <2>4, <2>5, <2>7 DEF EntryInv
<1>11. SessionsOnce'
    <2>1. \A f \in Entries : Owes(f)' => Owes(f)
        <3>1. Owes(e)
            BY <1>3 DEF Owes
        <3> QED
            BY <1>2, <1>4, <1>5, <1>8, <3>1, SameOwes
    <2> QED
        BY <1>2, <2>1, SessionsKept DEF IInv, Ending
<1>12. PollerInv' /\ NoAnomaly'
    BY <1>2 DEF IInv, PollerInv, NoAnomaly
<1> QED
    BY <1>4, <1>5, <1>6, <1>7, <1>9, <1>10, <1>11, <1>12 DEF IInv

LEMMA RequestPartlySentIInv ==
    ASSUME IInv, NEW c \in Callers, RequestPartlySent(c)
    PROVE  IInv'
<1>1. PICK e : e = centry[c]
    OBVIOUS
<1>2. /\ cpc[c] = "partial" /\ Unlocked(c)
      /\ stuck' = stuck \cup {csession[c]}
      /\ UNCHANGED <<state, ref, session, idle, timeout, node, written, message, ppc, pentry>>
      /\ UNCHANGED <<psolicited, queue, hpc, hres, hsession, stopFlag>>
      /\ UNCHANGED <<accepted, handled, closed, anomalies>>
    BY <1>1 DEF RequestPartlySent, pollVars, handVars
<1>3. /\ e \in Entries /\ mutex[e] = c /\ c # NoOne /\ state[e] = "IDLE" /\ Life(e)
      /\ csession[c] = session[e]
      /\ session[e] \in Sessions /\ EntryInv(e) /\ ~OnIdleList(e) /\ ~Pend(e) /\ ~Leaked(e)
    BY <1>1, <1>2, Taken
<1>4. /\ mutex' \in [Entries -> Callers \cup {NoOne}]
      /\ cpc' \in [Callers -> {"idle", "write", "all", "error", "partial"}]
      /\ csession' \in [Callers -> Sessions \cup {NoSession}]
      /\ centry' \in [Callers -> Entries \cup {NoEntry}]
      /\ mutex'[e] = NoOne
      /\ \A f \in Entries \ {e} :
             /\ mutex'[f] = mutex[f]
             /\ mutex[f] # NoOne => /\ centry'[mutex[f]] = centry[mutex[f]]
                                    /\ csession'[mutex[f]] = csession[mutex[f]]
                                    /\ cpc'[mutex[f]] = cpc[mutex[f]]
      /\ \A d \in Callers : CallerInv(d)'
    BY <1>1, <1>2, Unlocking
<1>5. (\A f : SameResults(f)) /\ QueuedOnce' /\ \A h \in Handlers : HandlerInv(h)'
    BY <1>2, ResultsKept DEF IInv
<1>6. (\A f : OnIdleList(f)' <=> OnIdleList(f)) /\ IdleDistinct'
    BY <1>2, IdleKept DEF IInv
<1>7. session[e] \in accepted /\ \A f \in Entries \ {e} : session[f] # session[e]
    BY <1>3, CommunicatorAssumption DEF IInv, SessionsOnce
<1>8. TypeOK'
    BY <1>2, <1>3, <1>4, <1>7 DEF IInv, TypeOK
<1>9. ASSUME NEW f \in Entries \ {e} PROVE EntryInv(f)'
    <2>1. SameFields(f) /\ SameUsers(f)
        BY <1>2, <1>3, <1>4, <1>6, <1>7 DEF SameFields, SameUsers
    <2> QED
        BY <1>5, <2>1, Untouched DEF IInv
<1>10. EntryInv(e)'
    <2>1. /\ Life(e)' <=> Life(e)
          /\ Done(e)' <=> Done(e)
          /\ Pend(e)' <=> Pend(e)
          /\ Replied(e)' = Replied(e)
          /\ OneLife(e)' /\ OneReply(e)'
        BY <1>2, <1>3, <1>5, LifeKept DEF EntryInv
    <2>2. StateRight(e)'
        BY <1>2, <1>3, <1>5, <2>1 DEF EntryInv, StateRight, SameResults, SameQueued, SameHeld
    <2>3. ~Leaked(e)' /\ (Holding(e)' <=> Holding(e))
        BY <1>2, <1>3, <2>1 DEF Holding, Leaked
    <2>4. Counted(e)'
        BY <1>2, <1>3, <2>1, <2>3, CountedKept DEF EntryInv
    <2>5. Locked(e)'
        BY <1>2, <1>3, <1>4, <1>6 DEF Locked
    <2>6. ~written[e] /\ ~message[e]
        BY <1>2, <1>3 DEF EntryInv, Reading
    <2>7. Reading(e)'
        BY <1>2, <1>3, <2>6 DEF EntryInv, Reading
    <2> QED
        BY <2>1, <2>2, <2>4, <2>5, <2>7 DEF EntryInv
<1>11. SessionsOnce'
    <2>1. \A f \in Entries : Owes(f)' => Owes(f)
        <3>1. Owes(e)
            BY <1>3 DEF Owes
        <3> QED
            BY <1>2, <1>4, <1>5, <3>1, SameOwes
    <2> QED
        BY <1>2, <2>1, SessionsKept DEF IInv, Ending
<1>12. PollerInv' /\ NoAnomaly'
    BY <1>2 DEF IInv, PollerInv, NoAnomaly
<1> QED
    BY <1>4, <1>5, <1>6, <1>8, <1>9, <1>10, <1>11, <1>12 DEF IInv

LEMMA RequestConnectsIInv ==
    ASSUME IInv, NEW c \in Callers, NEW s \in Sessions, NEW e \in Entries,
           RequestConnects(c, s, e)
    PROVE  IInv'
<1>1. /\ s \notin accepted /\ state[e] = "NEW"
      /\ state' = [state EXCEPT ![e] = "CONNECTING"]
      /\ ref' = [ref EXCEPT ![e] = 1]
      /\ session' = [session EXCEPT ![e] = s]
      /\ node' = [node EXCEPT ![e] = "connect"]
      /\ accepted' = accepted \cup {s}
      /\ UNCHANGED <<mutex, idle, timeout, written, message, ppc, pentry, psolicited, queue>>
      /\ UNCHANGED <<hpc, hres, hsession, cpc, csession, centry, stopFlag, handled, closed>>
      /\ UNCHANGED <<stuck, anomalies>>
    BY DEF RequestConnects, handVars, callVars
<1>2. /\ EntryInv(e) /\ ~Life(e) /\ ~Done(e) /\ ~Pend(e) /\ session[e] = NoSession
      /\ ~OnIdleList(e) /\ mutex[e] = NoOne /\ ~written[e] /\ ~message[e] /\ pentry # e
      /\ node[e] = "none" /\ ~QLife(e) /\ ~QReply(e)
      /\ \A h \in Handlers : /\ ~HLife(h, e) /\ ~HDone(h, e) /\ ~HReply(h, e)
                             /\ ~HReplied(h, e)
    <2>1. EntryInv(e) /\ ~Life(e) /\ ~Done(e) /\ ~Pend(e) /\ session[e] = NoSession
          /\ \A h \in Handlers : ~HReplied(h, e)
        BY <1>1 DEF IInv, EntryInv, StateRight
    <2>2. ~OnIdleList(e) /\ mutex[e] = NoOne /\ ~written[e] /\ ~message[e]
        BY <1>1, <2>1 DEF EntryInv, Locked, Reading
    <2>3. node[e] = "none" /\ ~QLife(e) /\ ~QReply(e)
          /\ \A h \in Handlers : ~HLife(h, e) /\ ~HDone(h, e) /\ ~HReply(h, e)
        BY <2>1 DEF Life, Done, Pend
    <2> QED
        BY <2>1, <2>2, <2>3 DEF EntryInv, Reading
<1>3. (\A f : SameResults(f)) /\ QueuedOnce' /\ \A h \in Handlers : HandlerInv(h)'
    BY <1>1, ResultsKept DEF IInv
<1>4. (\A f : OnIdleList(f)' <=> OnIdleList(f)) /\ IdleDistinct'
    BY <1>1, IdleKept DEF IInv
<1>5. TypeOK'
    BY <1>1 DEF IInv, TypeOK
<1>6. /\ state'[e] = "CONNECTING" /\ ref'[e] = 1 /\ session'[e] = s /\ node'[e] = "connect"
      /\ \A f \in Entries \ {e} : /\ state'[f] = state[f] /\ ref'[f] = ref[f]
                                  /\ session'[f] = session[f] /\ node'[f] = node[f]
    BY <1>1 DEF IInv, TypeOK
<1>7. ASSUME NEW f \in Entries \ {e} PROVE EntryInv(f)'
    <2>1. SameFields(f) /\ SameUsers(f)
        BY <1>1, <1>4, <1>6 DEF SameFields, SameUsers
    <2> QED
        BY <1>3, <2>1, Untouched DEF IInv
<1>8. EntryInv(e)'
    <2>1. /\ ~QLife(e)' /\ ~QReply(e)' /\ ~Done(e)' /\ ~Pend(e)' /\ Life(e)'
          /\ \A h \in Handlers : /\ ~HLife(h, e)' /\ ~HDone(h, e)' /\ ~HReply(h, e)'
                                 /\ ~HReplied(h, e)'
        BY <1>2, <1>3, <1>6 DEF SameResults, SameQueued, SameHeld, Life, Done, Pend
    <2>2. OneLife(e)' /\ OneReply(e)'
        BY <2>1 DEF OneLife, OneReply
    <2>3. StateRight(e)'
        BY <1>6, <2>1 DEF StateRight
    <2>4. Replied(e)' = {} /\ Cardinality(Replied(e)') = 0
        BY <2>1, FS_EmptySet DEF Replied
    <2>5. closed'[e] = 0
        BY <1>1, <1>2 DEF EntryInv, Counted
    <2>6. s \notin stuck'
        BY <1>1 DEF IInv, TypeOK
    <2>7. Counted(e)'
        BY <1>6, <2>1, <2>4, <2>5, <2>6 DEF Counted, Holding, Leaked
    <2>8. Locked(e)' /\ Reading(e)'
        BY <1>1, <1>2, <1>4, <1>6 DEF Locked, Reading
    <2> QED
        BY <2>2, <2>3, <2>7, <2>8 DEF EntryInv
<1>9. \A d \in Callers : CallerInv(d)'
    BY <1>1 DEF IInv, CallerInv
<1>10. SessionsOnce'
    <2>0. NoSession \notin Sessions
        BY CommunicatorAssumption
    <2>1. /\ \A f \in Entries : session[f] # s
          /\ handled[s] = 0
          /\ \A h \in Handlers : ~Ending(h, s)
        BY <1>1, <2>0 DEF IInv, SessionsOnce
    <2>2. \A f \in Entries \ {e} : Owes(f)' <=> Owes(f)
        BY <1>1, <1>3, <1>6, SameOwes
    <2>3. \A h \in Handlers, z \in Sessions : Ending(h, z)' <=> Ending(h, z)
        BY <1>1 DEF Ending
    <2>4. /\ \A f \in Entries : session'[f] \in accepted' \cup {NoSession}
          /\ \A f, g \in Entries : session'[f] = session'[g] /\ session'[f] # NoSession => f = g
        BY <1>1, <1>6, <2>1 DEF IInv, SessionsOnce
    <2>5. \A f \in Entries : Owes(f)' => handled'[session'[f]] = 0
        BY <1>1, <1>6, <2>1, <2>2 DEF IInv, SessionsOnce
    <2>6. \A z \in Sessions : handled'[z] <= 1 /\ (z \notin accepted' => handled'[z] = 0)
        BY <1>1 DEF IInv, SessionsOnce
    <2>7. ASSUME NEW z \in Sessions, NEW h \in Handlers, Ending(h, z)'
          PROVE  /\ z \in accepted' /\ handled'[z] = 0
                 /\ \A f \in Entries : Owes(f)' => session'[f] # z
                 /\ \A g \in Handlers : Ending(g, z)' => g = h
        BY <1>1, <1>6, <2>1, <2>2, <2>3, <2>7 DEF IInv, SessionsOnce
    <2> QED
        BY <2>4, <2>5, <2>6, <2>7 DEF SessionsOnce
<1>11. PollerInv' /\ NoAnomaly'
    BY <1>1 DEF IInv, PollerInv, NoAnomaly
<1> QED
    BY <1>3, <1>4, <1>5, <1>7, <1>8, <1>9, <1>10, <1>11 DEF IInv

-----------------------------------------------------------------------------
(* The poller thread.                                                      *)

(* The node of an entry is handed out with the result that ends the        *)
(* connection.                                                             *)
LEMMA HandedOut ==
    ASSUME IInv, NEW e \in Entries, NEW r \in Results, r.entry = e, ~IsReply(r),
           r.op = "CONNECT" => node[e] = "connect", node[e] # "none",
           node' = [node EXCEPT ![e] = "none"], queue' = Append(queue, r), pentry' = NoEntry,
           UNCHANGED <<state, ref, session, mutex, idle, timeout, written, message>>,
           UNCHANGED <<hpc, hres, hsession, cpc, csession, centry, stopFlag>>,
           UNCHANGED <<accepted, handled, closed, stuck>>
    PROVE  /\ queue' \in Seq(Results) /\ QueuedOnce' /\ SessionsOnce' /\ IdleDistinct'
           /\ node' \in [Entries -> {"none", "connect", "read", "deleted"}]
           /\ \A f \in Entries : EntryInv(f)'
           /\ \A h \in Handlers : HandlerInv(h)'
           /\ \A c \in Callers : CallerInv(c)'
<1>1. /\ EntryInv(e) /\ ~QLife(e) /\ Life(e)
      /\ \A h \in Handlers : ~HLife(h, e) /\ ~HDone(h, e)
    BY DEF IInv, EntryInv, OneLife, Life
<1>2. /\ queue' \in Seq(Results) /\ QueuedOnce'
      /\ \A f : /\ QLife(f)' <=> QLife(f) \/ f = e
                /\ QReply(f)' <=> QReply(f)
                /\ QConnect(f)' <=> QConnect(f) \/ (f = e /\ r.op = "CONNECT")
    BY <1>1, Enqueued DEF IInv, TypeOK
<1>3. \A h \in Handlers : HandlerInv(h)' /\ \A f : SameHeld(h, f)
    BY HandlerKept DEF IInv
<1>4. (\A f : OnIdleList(f)' <=> OnIdleList(f)) /\ IdleDistinct'
    BY IdleKept DEF IInv
<1>5. /\ node'[e] = "none" /\ \A f \in Entries \ {e} : node'[f] = node[f]
      /\ node' \in [Entries -> {"none", "connect", "read", "deleted"}]
    BY DEF IInv, TypeOK
<1>6. NoEntry \notin Entries
    BY CommunicatorAssumption
<1>7. ASSUME NEW f \in Entries \ {e} PROVE EntryInv(f)' /\ SameResults(f)
    <2>1. SameResults(f)
        BY <1>2, <1>3 DEF SameResults, SameQueued
    <2>2. SameFields(f) /\ SameUsers(f)
        BY <1>4, <1>5, <1>6 DEF SameFields, SameUsers
    <2> QED
        BY <2>1, <2>2, Untouched DEF IInv
<1>8. /\ Life(e)' <=> Life(e)
      /\ Done(e)' <=> Done(e)
      /\ Pend(e)' <=> Pend(e)
      /\ Replied(e)' = Replied(e)
    <2>1. Life(e)'
        BY <1>2 DEF Life
    <2>2. Replied(e)' = Replied(e)
        BY <1>3 DEF Replied, SameHeld
    <2> QED
        BY <1>1, <1>2, <1>3, <2>1, <2>2 DEF Done, Pend, SameHeld
<1>9. EntryInv(e)'
    <2>1. OneLife(e)' /\ OneReply(e)'
        BY <1>1, <1>2, <1>3, <1>5 DEF EntryInv, OneLife, OneReply, SameHeld
    <2>2. StateRight(e)'
        BY <1>1, <1>2, <1>3, <1>5, <1>8 DEF EntryInv, StateRight, SameHeld
    <2>3. Counted(e)'
        BY <1>1, <1>8, CountedKept DEF EntryInv, Counted, Holding, Leaked
    <2>4. Locked(e)' /\ Reading(e)'
        BY <1>1, <1>4, <1>5, <1>6, <1>8 DEF EntryInv, Locked, Reading
    <2> QED
        BY <2>1, <2>2, <2>3, <2>4 DEF EntryInv
<1>10. SessionsOnce'
    <2>1. \A f \in Entries \ {e} : Owes(f)' => Owes(f)
        BY <1>5, <1>7, SameOwes
    <2>2. Owes(e)' => Owes(e)
        BY <1>8 DEF Owes
    <2> QED
        BY <2>1, <2>2, SessionsKept DEF IInv, Ending
<1>11. \A c \in Callers : CallerInv(c)'
    BY DEF IInv, CallerInv
<1> QED
    BY <1>2, <1>3, <1>4, <1>5, <1>7, <1>9, <1>10, <1>11

LEMMA PollerEventIInv ==
    ASSUME IInv, NEW e \in Entries, PollerEvent(e)
    PROVE  IInv'
<1>1. PICK r \in Results :
          /\ r.entry = e /\ ~IsReply(r) /\ (r.op = "CONNECT" => node[e] = "connect")
          /\ queue' = Append(queue, r)
    BY DEF PollerEvent, PollConnect, PollEnd, PollDeleted, Result, Results, IsReply
<1>2. /\ ppc = "wait" /\ node[e] # "none" /\ node' = [node EXCEPT ![e] = "none"]
      /\ UNCHANGED <<state, ref, session, mutex, idle, timeout, written, message>>
      /\ UNCHANGED <<hpc, hres, hsession, cpc, csession, centry, stopFlag>>
      /\ UNCHANGED <<accepted, handled, closed, stuck, anomalies, ppc, pentry, psolicited>>
    BY DEF PollerEvent, PollConnect, PollEnd, PollDeleted, entryVars, handVars, callVars, histVars
<1>3. pentry' = NoEntry
    BY <1>2 DEF IInv, PollerInv
<1>4. /\ queue' \in Seq(Results) /\ QueuedOnce' /\ SessionsOnce' /\ IdleDistinct'
      /\ node' \in [Entries -> {"none", "connect", "read", "deleted"}]
      /\ \A f \in Entries : EntryInv(f)'
      /\ \A h \in Handlers : HandlerInv(h)'
      /\ \A c \in Callers : CallerInv(c)'
    BY <1>1, <1>2, <1>3, HandedOut
<1>5. TypeOK'
    BY <1>2, <1>4 DEF IInv, TypeOK
<1>6. PollerInv' /\ NoAnomaly'
    BY <1>2 DEF IInv, PollerInv, NoAnomaly
<1> QED
    BY <1>4, <1>5, <1>6 DEF IInv

(* The poller thread moves on without a result.                            *)
LEMMA ThreadMoves ==
    ASSUME IInv, \A f \in Entries : Reading(f)',
           UNCHANGED <<state, ref, session, mutex, idle, timeout, node, queue>>,
           UNCHANGED <<hpc, hres, hsession, cpc, csession, centry, stopFlag>>,
           UNCHANGED <<accepted, handled, closed, stuck>>
    PROVE  /\ QueuedOnce' /\ SessionsOnce' /\ IdleDistinct'
           /\ \A f \in Entries : EntryInv(f)'
           /\ \A h \in Handlers : HandlerInv(h)'
           /\ \A c \in Callers : CallerInv(c)'
<1>1. (\A f : SameResults(f)) /\ QueuedOnce' /\ \A h \in Handlers : HandlerInv(h)'
    BY ResultsKept DEF IInv
<1>2. (\A f : OnIdleList(f)' <=> OnIdleList(f)) /\ IdleDistinct'
    BY IdleKept DEF IInv
<1>3. ASSUME NEW f \in Entries PROVE EntryInv(f)'
    <2>1. EntryInv(f)
        BY DEF IInv
    <2>2. /\ Life(f)' <=> Life(f)
          /\ Done(f)' <=> Done(f)
          /\ Pend(f)' <=> Pend(f)
          /\ Replied(f)' = Replied(f)
          /\ OneLife(f)' /\ OneReply(f)'
        BY <1>1, <2>1, LifeKept DEF EntryInv
    <2>3. StateRight(f)'
        BY <1>1, <2>1, <2>2 DEF EntryInv, StateRight, SameResults, SameQueued, SameHeld
    <2>4. Counted(f)'
        BY <2>1, <2>2, CountedKept DEF EntryInv, Counted, Holding, Leaked
    <2>5. Locked(f)'
        BY <1>2, <2>1, <2>2 DEF EntryInv, Locked
    <2> QED
        BY <2>2, <2>3, <2>4, <2>5 DEF EntryInv
<1>4. SessionsOnce'
    <2>1. \A f \in Entries : Owes(f)' => Owes(f)
        BY <1>1, SameOwes
    <2> QED
        BY <2>1, SessionsKept DEF IInv, Ending
<1>5. \A c \in Callers : CallerInv(c)'
    BY DEF IInv, CallerInv
<1> QED
    BY <1>1, <1>2, <1>3, <1>4, <1>5

LEMMA PollReadIInv ==
    ASSUME IInv, NEW e \in Entries, PollRead(e)
    PROVE  IInv'
<1>1. /\ ppc = "wait" /\ node[e] = "read" /\ pentry' = e
      /\ ppc' = IF message[e] THEN "append"
                ELSE IF state[e] = "IDLE" THEN "barrier" ELSE "check"
      /\ UNCHANGED <<state, ref, session, mutex, idle, timeout, node, queue, written, message>>
      /\ UNCHANGED <<hpc, hres, hsession, cpc, csession, centry, stopFlag>>
      /\ UNCHANGED <<accepted, handled, closed, stuck, anomalies>>
    BY DEF PollRead, entryVars, handVars, callVars, histVars
<1>2. psolicited' \in BOOLEAN /\ (psolicited' => written[e])
    BY Zenon DEF PollRead
<1>3. ASSUME NEW f \in Entries PROVE Reading(f)'
    <2>1. Reading(f)
        BY DEF IInv, EntryInv
    <2>2. ppc' = "append" => message[e]
        BY <1>1
    <2>3. psolicited' /\ ppc' = "check" => state[e] = "RECEIVING"
        <3>1. psolicited' /\ ppc' = "check" => written[e] /\ state[e] # "IDLE"
            BY <1>1, <1>2
        <3>2. Reading(e) /\ Locked(e)
            BY DEF IInv, EntryInv
        <3> QED
            BY <3>1, <3>2 DEF Reading, Locked
    <2> QED
        BY <1>1, <1>2, <2>1, <2>2, <2>3 DEF Reading
<1>4. /\ QueuedOnce' /\ SessionsOnce' /\ IdleDistinct'
      /\ \A f \in Entries : EntryInv(f)'
      /\ \A h \in Handlers : HandlerInv(h)'
      /\ \A c \in Callers : CallerInv(c)'
    BY <1>1, <1>3, ThreadMoves
<1>5. ppc' \in {"barrier", "check", "append"}
    BY <1>1
<1>6. TypeOK'
    BY <1>1, <1>2, <1>5 DEF IInv, TypeOK
<1>7. PollerInv' /\ NoAnomaly'
    BY <1>1, <1>5, CommunicatorAssumption DEF IInv, PollerInv, NoAnomaly
<1> QED
    BY <1>4, <1>6, <1>7 DEF IInv

LEMMA BarrierIInv == ASSUME IInv, Barrier PROVE IInv'
<1>1. /\ ppc = "barrier" /\ mutex[pentry] = NoOne /\ ppc' = "check"
      /\ UNCHANGED <<state, ref, session, mutex, idle, timeout, node, queue, written, message>>
      /\ UNCHANGED <<hpc, hres, hsession, cpc, csession, centry, stopFlag, pentry, psolicited>>
      /\ UNCHANGED <<accepted, handled, closed, stuck, anomalies>>
    BY DEF Barrier, entryVars, handVars, callVars, histVars
<1>2. ASSUME NEW f \in Entries PROVE Reading(f)'
    <2>1. Reading(f)
        BY DEF IInv, EntryInv
    <2> QED
        BY <1>1, <2>1 DEF Reading
<1>3. /\ QueuedOnce' /\ SessionsOnce' /\ IdleDistinct'
      /\ \A f \in Entries : EntryInv(f)'
      /\ \A h \in Handlers : HandlerInv(h)'
      /\ \A c \in Callers : CallerInv(c)'
    BY <1>1, <1>2, ThreadMoves
<1>4. TypeOK'
    BY <1>1 DEF IInv, TypeOK
<1>5. PollerInv' /\ NoAnomaly'
    BY <1>1 DEF IInv, PollerInv, NoAnomaly
<1> QED
    BY <1>3, <1>4, <1>5 DEF IInv

(* The thread reads on a connection that it has.                           *)
LEMMA Polled ==
    ASSUME IInv, ppc # "wait", NEW e, e = pentry
    PROVE  /\ e \in Entries /\ node[e] \in {"read", "deleted"} /\ Life(e) /\ EntryInv(e)
           /\ ppc = "append" => state[e] = "RECEIVING"
           /\ state[e] = "RECEIVING" /\ node[e] = "deleted" => stopFlag
<1>1. e \in Entries
    BY DEF IInv, TypeOK, PollerInv
<1>2. EntryInv(e)
    BY <1>1 DEF IInv
<1> QED
    BY <1>1, <1>2 DEF EntryInv, Reading, Life

(* The thread is done with its event, with or without an error.            *)
LEMMA FailIInv ==
    ASSUME IInv, ppc # "wait", PollDone,
           Fail(pentry) \/ UNCHANGED <<node, queue>>, NoAnomaly',
           UNCHANGED <<state, ref, session, mutex, idle, timeout, written, message>>,
           UNCHANGED <<hpc, hres, hsession, cpc, csession, centry, stopFlag>>,
           UNCHANGED <<accepted, handled, closed, stuck>>
    PROVE  IInv'
<1>1. PICK e : e = pentry
    OBVIOUS
<1>2. e \in Entries /\ node[e] \in {"read", "deleted"}
    BY <1>1, Polled
<1>3. ppc' = "wait" /\ pentry' = NoEntry /\ psolicited' = FALSE
    BY DEF PollDone
<1>4. /\ queue' \in Seq(Results) /\ QueuedOnce' /\ SessionsOnce' /\ IdleDistinct'
      /\ node' \in [Entries -> {"none", "connect", "read", "deleted"}]
      /\ \A f \in Entries : EntryInv(f)'
      /\ \A h \in Handlers : HandlerInv(h)'
      /\ \A c \in Callers : CallerInv(c)'
    <2>1. CASE UNCHANGED <<node, queue>>
        <3>1. ASSUME NEW f \in Entries PROVE Reading(f)'
            <4>1. Reading(f)
                BY DEF IInv, EntryInv
            <4> QED
                BY <1>3, <2>1, <4>1, CommunicatorAssumption DEF Reading
        <3> QED
            BY <2>1, <3>1, ThreadMoves DEF IInv, TypeOK
    <2>2. CASE /\ node' = [node EXCEPT ![e] = "none"]
               /\ queue' = Append(queue, Result(e, "READ", "ERROR"))
        <3>1. PICK r \in Results : r = Result(e, "READ", "ERROR") /\ r.entry = e
                                   /\ ~IsReply(r) /\ r.op # "CONNECT"
            <4>1. LET r == Result(e, "READ", "ERROR")
                  IN  r \in Results /\ r.entry = e /\ ~IsReply(r) /\ r.op # "CONNECT"
                BY <1>2 DEF Result, Results, IsReply
            <4> QED
                BY <4>1
        <3> QED
            BY <1>2, <1>3, <2>2, <3>1, HandedOut
    <2> QED
        BY <1>1, <1>2, <2>1, <2>2 DEF Fail
<1>5. TypeOK'
    BY <1>3, <1>4 DEF IInv, TypeOK
<1>6. PollerInv'
    BY <1>3 DEF PollerInv
<1> QED
    BY <1>4, <1>5, <1>6 DEF IInv

LEMMA CreateMessageIInv == ASSUME IInv, CreateMessage PROVE IInv'
<1>1. PICK e : e = pentry
    OBVIOUS
<1>2. /\ ppc = "check"
      /\ UNCHANGED <<state, ref, session, mutex, idle, timeout, written>>
      /\ UNCHANGED <<hpc, hres, hsession, cpc, csession, centry, stopFlag>>
      /\ UNCHANGED <<accepted, handled, closed, stuck>>
    BY DEF CreateMessage, entryVars, handVars, callVars
<1>3. /\ e \in Entries /\ node[e] \in {"read", "deleted"} /\ EntryInv(e)
    BY <1>1, <1>2, Polled
<1>4. CASE state[e] = "RECEIVING"
    <2>1. /\ message' = [message EXCEPT ![e] = TRUE] /\ ppc' = "append"
          /\ UNCHANGED <<node, queue, pentry, psolicited, anomalies>>
        BY <1>1, <1>4 DEF CreateMessage
    <2>2. /\ message' \in [Entries -> BOOLEAN] /\ message'[e] = TRUE
          /\ \A f \in Entries \ {e} : message'[f] = message[f]
        BY <1>3, <2>1 DEF IInv, TypeOK
    <2>3. ASSUME NEW f \in Entries PROVE Reading(f)'
        <3>1. Reading(f)
            BY DEF IInv, EntryInv
        <3>2. CASE f = e
            BY <1>1, <1>2, <1>4, <2>1, <2>2, <3>1, <3>2 DEF Reading
        <3>3. CASE f # e
            BY <1>1, <1>2, <2>1, <2>2, <3>1, <3>3 DEF Reading
        <3> QED
            BY <3>2, <3>3
    <2>4. /\ QueuedOnce' /\ SessionsOnce' /\ IdleDistinct'
          /\ \A f \in Entries : EntryInv(f)'
          /\ \A h \in Handlers : HandlerInv(h)'
          /\ \A c \in Callers : CallerInv(c)'
        BY <1>2, <2>1, <2>3, ThreadMoves
    <2>5. TypeOK'
        BY <1>2, <2>1, <2>2 DEF IInv, TypeOK
    <2>6. PollerInv' /\ NoAnomaly'
        BY <1>1, <1>2, <1>3, <2>1, CommunicatorAssumption DEF IInv, PollerInv, NoAnomaly
    <2> QED
        BY <2>4, <2>5, <2>6 DEF IInv
<1>5. CASE state[e] # "RECEIVING"
    <2>1. ~psolicited
        BY <1>1, <1>2, <1>3, <1>5 DEF EntryInv, Reading
    <2>2. /\ Fail(pentry) /\ anomalies' = anomalies /\ PollDone /\ message' = message
        BY <1>1, <1>5, <2>1 DEF CreateMessage, Anomaly
    <2>3. NoAnomaly'
        BY <1>2, <2>2 DEF IInv, NoAnomaly
    <2> QED
        BY <1>2, <2>2, <2>3, FailIInv
<1> QED
    BY <1>4, <1>5

LEMMA AppendContinuesIInv ==
    ASSUME IInv, NEW timerLast \in BOOLEAN, AppendContinues(timerLast)
    PROVE  IInv'
<1>1. PICK e : e = pentry
    OBVIOUS
<1>2. /\ ppc = "append" /\ PollDone
      /\ anomalies' = IF ~timerLast /\ node[e] # "read"
                      THEN anomalies \cup {"set_timeout failed"} ELSE anomalies
      /\ UNCHANGED <<state, ref, session, mutex, idle, timeout, written, message, node, queue>>
      /\ UNCHANGED <<hpc, hres, hsession, cpc, csession, centry, stopFlag>>
      /\ UNCHANGED <<accepted, handled, closed, stuck>>
    BY <1>1 DEF AppendContinues, Anomaly, entryVars, handVars, callVars
<1>3. node[e] # "read" => stopFlag
    BY <1>1, <1>2, Polled
<1>4. NoAnomaly'
    BY <1>2, <1>3 DEF IInv, NoAnomaly
<1> QED
    BY <1>2, <1>4, FailIInv

LEMMA AppendFailsIInv == ASSUME IInv, AppendFails PROVE IInv'
<1>1. /\ ppc = "append" /\ PollDone /\ Fail(pentry)
      /\ UNCHANGED <<state, ref, session, mutex, idle, timeout, written, message>>
      /\ UNCHANGED <<hpc, hres, hsession, cpc, csession, centry, stopFlag>>
      /\ UNCHANGED <<accepted, handled, closed, stuck, anomalies>>
    BY DEF AppendFails, entryVars, handVars, callVars, histVars
<1>2. NoAnomaly'
    BY <1>1 DEF IInv, NoAnomaly
<1> QED
    BY <1>1, <1>2, FailIInv

(* A connect result that is on its way will end the connection, or start   *)
(* the reading on it.                                                      *)
LEMMA ConnectIsLife ==
    ASSUME IInv, NEW e \in Entries
    PROVE  /\ QConnect(e) => QLife(e)
           /\ \A h \in Handlers : /\ HConnect(h, e) => HLife(h, e) \/ HDone(h, e)
                                  /\ HSend(h, e) => HLife(h, e)
<1>1. QConnect(e) => QLife(e)
    BY DEF QConnect, QLife, IsReply
<1>2. ASSUME NEW h \in Handlers, HConnect(h, e) PROVE HLife(h, e) \/ HDone(h, e)
    <2>1. HandlerInv(h) /\ hpc[h] # "stop?" /\ hres[h].entry = e /\ hres[h].op = "CONNECT"
        BY <1>2 DEF IInv, HConnect
    <2>2. hpc[h] \in {"get", "send", "add", "stop?", "abort", "reply", "final", "end", "callback"}
        BY DEF IInv, TypeOK
    <2>3. ~IsReply(hres[h])
        BY <2>1 DEF IsReply
    <2>4. NoResult.entry = NoEntry /\ e # NoEntry
        BY CommunicatorAssumption DEF NoResult, Result
    <2>5. hpc[h] \notin {"get", "reply", "final", "end"}
        BY <2>1, <2>3, <2>4 DEF HandlerInv
    <2> QED
        BY <2>1, <2>2, <2>3, <2>5 DEF HLife, HDone
<1> QED
    BY <1>1, <1>2 DEF HSend, HLife

LEMMA AppendCompletesIInv ==
    ASSUME IInv, NEW k \in KeepAlive, AppendCompletes(k)
    PROVE  IInv'
<1>1. PICK e : e = pentry
    OBVIOUS
<1>2. PICK s : s = session[e]
    OBVIOUS
<1>3. /\ ppc = "append"
      /\ state' = [state EXCEPT ![e] = "SUCCESS"]
      /\ timeout' = [timeout EXCEPT ![s] = k]
      /\ node' = [node EXCEPT ![e] = IF k = 0 /\ @ = "read" THEN "deleted" ELSE @]
      /\ anomalies' = IF k # 0 /\ node[e] # "read"
                      THEN anomalies \cup {"set_timeout failed"} ELSE anomalies
      /\ queue' = Append(queue, Result(e, "READ", "SUCCESS"))
      /\ message' = [message EXCEPT ![e] = FALSE]
      /\ written' = [written EXCEPT ![e] = FALSE]
      /\ ppc' = "wait" /\ pentry' = NoEntry /\ psolicited' = FALSE
      /\ UNCHANGED <<ref, session, mutex, idle, hpc, hres, hsession, cpc, csession, centry>>
      /\ UNCHANGED <<stopFlag, accepted, handled, closed, stuck>>
    BY <1>1, <1>2 DEF AppendCompletes, Anomaly, PollDone, handVars, callVars
<1>4. /\ e \in Entries /\ node[e] \in {"read", "deleted"} /\ Life(e) /\ EntryInv(e)
      /\ state[e] = "RECEIVING" /\ (node[e] = "deleted" => stopFlag)
    BY <1>1, <1>3, Polled
<1>5. /\ s \in Sessions /\ ~Pend(e) /\ ~QLife(e) /\ ~QReply(e) /\ ~OnIdleList(e) /\ mutex[e] = NoOne
      /\ \A h \in Handlers : /\ ~HLife(h, e) /\ ~HDone(h, e) /\ ~HReply(h, e)
                             /\ ~HConnect(h, e) /\ ~HSend(h, e)
      /\ ~QConnect(e)
    <2>1. s \in Sessions /\ ~Pend(e) /\ ~OnIdleList(e) /\ mutex[e] = NoOne
        BY <1>2, <1>4 DEF EntryInv, StateRight, Locked
    <2>2. ~QLife(e) /\ \A h \in Handlers : ~HLife(h, e) /\ ~HDone(h, e)
        BY <1>4 DEF EntryInv, OneLife
    <2> QED
        BY <1>4, <2>1, <2>2, ConnectIsLife DEF Pend
<1>6. PICK r \in Results : r = Result(e, "READ", "SUCCESS") /\ r.entry = e
                           /\ IsReply(r) /\ r.op # "CONNECT"
    <2>1. LET r == Result(e, "READ", "SUCCESS")
          IN  r \in Results /\ r.entry = e /\ IsReply(r) /\ r.op # "CONNECT"
        BY <1>4 DEF Result, Results, IsReply
    <2> QED
        BY <2>1
<1>7. /\ queue' \in Seq(Results) /\ QueuedOnce'
      /\ \A f : /\ QLife(f)' <=> QLife(f)
                /\ QReply(f)' <=> QReply(f) \/ f = e
                /\ QConnect(f)' <=> QConnect(f)
    <2>1. queue \in Seq(Results) /\ queue' = Append(queue, r) /\ QueuedOnce
        BY <1>3, <1>6 DEF IInv, TypeOK
    <2> QED
        BY <1>5, <1>6, <2>1, Enqueued
<1>8. \A h \in Handlers : HandlerInv(h)' /\ \A f : SameHeld(h, f)
    BY <1>3, HandlerKept DEF IInv
<1>9. (\A f : OnIdleList(f)' <=> OnIdleList(f)) /\ IdleDistinct'
    BY <1>3, IdleKept DEF IInv
<1>10. TypeOK'
    BY <1>3, <1>4, <1>5, <1>7 DEF IInv, TypeOK
<1>11. /\ state'[e] = "SUCCESS" /\ message'[e] = FALSE /\ written'[e] = FALSE
       /\ node'[e] = IF k = 0 /\ node[e] = "read" THEN "deleted" ELSE node[e]
       /\ timeout'[s] = k /\ \A z \in Sessions \ {s} : timeout'[z] = timeout[z]
       /\ \A f \in Entries \ {e} : /\ state'[f] = state[f] /\ message'[f] = message[f]
                                   /\ written'[f] = written[f] /\ node'[f] = node[f]
    BY <1>3, <1>4, <1>5 DEF IInv, TypeOK
<1>12. NoEntry \notin Entries /\ NoSession \notin Sessions
    BY CommunicatorAssumption
<1>13. ASSUME NEW f \in Entries \ {e} PROVE EntryInv(f)' /\ SameResults(f)
    <2>1. SameResults(f)
        BY <1>7, <1>8 DEF SameResults, SameQueued
    <2>2. SameFields(f)
        BY <1>3, <1>9, <1>11 DEF SameFields
    <2>3. session[f] # s
        BY <1>2, <1>4, <1>5, <1>12 DEF IInv, SessionsOnce
    <2>4. SameUsers(f)
        BY <1>3, <1>11, <1>12, <2>3 DEF SameUsers
    <2> QED
        BY <2>1, <2>2, <2>4, Untouched DEF IInv
<1>14. /\ Life(e)' /\ Pend(e)' /\ ~Done(e)' /\ ~Done(e) /\ Replied(e)' = Replied(e)
    <2>1. Replied(e)' = Replied(e)
        BY <1>8 DEF Replied, SameHeld
    <2>2. Life(e)'
        BY <1>4, <1>11 DEF Life
    <2> QED
        BY <1>5, <1>7, <1>8, <2>1, <2>2 DEF Done, Pend, SameHeld
<1>15. EntryInv(e)'
    <2>1. OneLife(e)' /\ OneReply(e)'
        BY <1>4, <1>5, <1>7, <1>8 DEF OneLife, OneReply, SameHeld
    <2>2. node'[e] # "connect"
        BY <1>4, <1>11
    <2>3. StateRight(e)'
        BY <1>2, <1>3, <1>5, <1>7, <1>8, <1>11, <1>14, <2>2 DEF StateRight, SameHeld
    <2>4. Holding(e) /\ Holding(e)' /\ ~Leaked(e)'
        BY <1>4, <1>11, <1>14 DEF Holding, Leaked
    <2>5. Counted(e)'
        BY <1>3, <1>4, <1>11, <1>14, <2>4, CountedKept DEF EntryInv
    <2>6. Locked(e)'
        BY <1>3, <1>5, <1>9, <1>11 DEF Locked
    <2>7. Reading(e)'
        BY <1>2, <1>3, <1>4, <1>11, <1>12 DEF Reading
    <2> QED
        BY <2>1, <2>3, <2>5, <2>6, <2>7 DEF EntryInv
<1>16. SessionsOnce'
    <2>1. \A f \in Entries \ {e} : Owes(f)' => Owes(f)
        BY <1>3, <1>11, <1>13, SameOwes
    <2>2. Owes(e)
        BY <1>4 DEF Owes
    <2> QED
        BY <1>3, <2>1, <2>2, SessionsKept DEF IInv, Ending
<1>17. PollerInv' /\ NoAnomaly'
    BY <1>3, <1>4 DEF IInv, PollerInv, NoAnomaly
<1>18. \A c \in Callers : CallerInv(c)'
    BY <1>3 DEF IInv, CallerInv
<1> QED
    BY <1>7, <1>8, <1>9, <1>10, <1>13, <1>15, <1>16, <1>17, <1>18 DEF IInv

-----------------------------------------------------------------------------
(* The handlers.                                                           *)

LEMMA Handling ==
    ASSUME IInv, NEW h \in Handlers, hpc[h] # "get"
    PROVE  hres[h] \in Results /\ hres[h].entry \in Entries /\ EntryInv(hres[h].entry)
<1>1. hres[h] \in Results
    BY DEF IInv, TypeOK, HandlerInv
<1>2. hres[h].entry \in Entries
    BY <1>1 DEF Results
<1> QED
    BY <1>1, <1>2 DEF IInv

(* A handler moves on with a result for e.                                 *)
LEMMA HandlerMoves ==
    ASSUME IInv, NEW h \in Handlers, NEW e,
           \A f \in Entries \ {e} : hres[h].entry # f /\ hres'[h].entry # f,
           \A g \in Handlers \ {h} : hpc'[g] = hpc[g] /\ hres'[g] = hres[g]
    PROVE  /\ \A g \in Handlers : \A f \in Entries \ {e} : SameHeld(g, f)
           /\ \A g \in Handlers \ {h} : SameHeld(g, e) /\ HandlerInv(g)'
<1>1. \A g \in Handlers \ {h} : HandlerInv(g)' /\ \A f : SameHeld(g, f)
    BY HandlerKept DEF IInv
<1>2. \A f \in Entries \ {e} : SameHeld(h, f)
    BY DEF SameHeld, HLife, HDone, HReply, HReplied, HConnect, HSend
<1> QED
    BY <1>1, <1>2

LEMMA RepliedFinite == ASSUME NEW e PROVE IsFiniteSet(Replied(e)) /\ Cardinality(Replied(e)) \in Nat
<1>1. IsFiniteSet(Replied(e))
    BY CommunicatorAssumption, FS_Subset DEF Replied
<1> QED
    BY <1>1, FS_CardinalityType

LEMMA GetIInv == ASSUME IInv, NEW h \in Handlers, Get(h) PROVE IInv'
<1>1. PICK r : r = Head(queue)
    OBVIOUS
<1>2. PICK p : p = CASE r.op = "CONNECT" /\ r.state = "FINISHED" -> "send"
                     [] r.op = "CONNECT" /\ r.state # "FINISHED" -> "abort"
                     [] r.op = "READ" /\ r.state = "SUCCESS" -> "reply"
                     [] OTHER -> "final"
    OBVIOUS
<1>3. /\ hpc[h] = "get" /\ queue # <<>> /\ queue' = Tail(queue)
      /\ hres' = [hres EXCEPT ![h] = r]
      /\ hpc' = [hpc EXCEPT ![h] = p]
      /\ UNCHANGED <<state, ref, session, mutex, idle, timeout, node, written, message, ppc>>
      /\ UNCHANGED <<pentry, psolicited, hsession, cpc, csession, centry, stopFlag>>
      /\ UNCHANGED <<accepted, handled, closed, stuck, anomalies>>
    BY <1>1, <1>2 DEF Get, entryVars, pollVars, callVars, histVars
<1>4. PICK e : e = r.entry
    OBVIOUS
<1>5. /\ queue' \in Seq(Results) /\ r \in Results /\ QueuedOnce'
      /\ \A f : /\ QLife(f)' <=> QLife(f) /\ ~(e = f /\ ~IsReply(r))
                /\ QReply(f)' <=> QReply(f) /\ ~(e = f /\ IsReply(r))
                /\ QConnect(f)' => QConnect(f)
      /\ IF IsReply(r) THEN QReply(e) ELSE QLife(e)
      /\ r.op = "CONNECT" => QConnect(e)
    BY <1>1, <1>3, <1>4, Dequeued DEF IInv, TypeOK
<1>6. e \in Entries /\ r.op \in {"CONNECT", "READ"}
    BY <1>4, <1>5 DEF Results
<1>7. /\ p \in {"send", "abort", "reply", "final"}
      /\ p \in {"send", "abort"} <=> r.op = "CONNECT"
      /\ p = "reply" <=> IsReply(r)
      /\ p = "final" => r.op = "READ"
    BY <1>2, <1>6 DEF IsReply
<1>8. /\ hpc'[h] = p /\ hres'[h] = r /\ hres[h] = NoResult
      /\ \A g \in Handlers \ {h} : hpc'[g] = hpc[g] /\ hres'[g] = hres[g]
    BY <1>3 DEF IInv, TypeOK, HandlerInv
<1>9. NoResult.entry = NoEntry /\ NoEntry \notin Entries /\ r # NoResult
    BY <1>4, <1>6, CommunicatorAssumption DEF NoResult, Result
<1>10. /\ \A g \in Handlers : \A f \in Entries \ {e} : SameHeld(g, f)
       /\ \A g \in Handlers \ {h} : SameHeld(g, e) /\ HandlerInv(g)'
    BY <1>4, <1>8, <1>9, HandlerMoves
<1>11. /\ HandlerInv(h)'
       /\ HLife(h, e)' <=> ~IsReply(r)
       /\ HReply(h, e)' <=> IsReply(r)
       /\ ~HDone(h, e)' /\ ~HReplied(h, e)'
       /\ ~HLife(h, e) /\ ~HReply(h, e) /\ ~HDone(h, e) /\ ~HReplied(h, e)
       /\ HSend(h, e)' => r.op = "CONNECT"
       /\ HConnect(h, e)' => r.op = "CONNECT"
    BY <1>4, <1>6, <1>7, <1>8, <1>9 DEF HandlerInv, HLife, HReply, HDone, HReplied, HSend, HConnect
<1>12. (\A f : OnIdleList(f)' <=> OnIdleList(f)) /\ IdleDistinct'
    BY <1>3, IdleKept DEF IInv
<1>13. TypeOK'
    BY <1>3, <1>5, <1>7 DEF IInv, TypeOK
<1>14. ASSUME NEW f \in Entries \ {e} PROVE EntryInv(f)' /\ (Owes(f)' => Owes(f))
    <2>1. EntryInv(f) /\ \A g \in Handlers : SameHeld(g, f)
        BY <1>10 DEF IInv
    <2>2. /\ Life(f)' <=> Life(f)
          /\ Done(f)' <=> Done(f)
          /\ Pend(f)' <=> Pend(f)
          /\ Replied(f)' = Replied(f)
        <3>1. Replied(f)' = Replied(f)
            BY <2>1 DEF Replied, SameHeld
        <3> QED
            BY <1>3, <1>5, <2>1, <3>1 DEF Life, Done, Pend, SameHeld
    <2>3. OneLife(f)' /\ OneReply(f)'
        BY <1>3, <1>5, <2>1 DEF EntryInv, OneLife, OneReply, SameHeld
    <2>4. StateRight(f)'
        BY <1>3, <1>5, <2>1, <2>2 DEF EntryInv, StateRight, SameHeld
    <2>5. Counted(f)'
        BY <1>3, <2>1, <2>2, CountedKept DEF EntryInv, Counted, Holding, Leaked
    <2>6. Locked(f)' /\ Reading(f)'
        BY <1>3, <1>12, <2>1, <2>2 DEF EntryInv, Locked, Reading
    <2> QED
        BY <1>3, <2>2, <2>3, <2>4, <2>5, <2>6 DEF EntryInv, Owes
<1>15. /\ Life(e)' <=> Life(e)
       /\ Done(e)' <=> Done(e)
       /\ Pend(e)' <=> Pend(e)
       /\ Replied(e)' = Replied(e)
    <2>1. Replied(e)' = Replied(e)
        BY <1>10, <1>11 DEF Replied, SameHeld
    <2>2. Done(e)' <=> Done(e)
        BY <1>10, <1>11 DEF Done, SameHeld
    <2>3. (\A g \in Handlers \ {h} : HLife(g, e)' <=> HLife(g, e))
          /\ (\A g \in Handlers \ {h} : HReply(g, e)' <=> HReply(g, e))
        BY <1>10 DEF SameHeld
    <2>4. CASE IsReply(r)
        BY <1>3, <1>5, <1>11, <2>1, <2>2, <2>3, <2>4 DEF Life, Pend
    <2>5. CASE ~IsReply(r)
        BY <1>3, <1>5, <1>11, <2>1, <2>2, <2>3, <2>5 DEF Life, Pend
    <2> QED
        BY <2>4, <2>5
<1>16. EntryInv(e)'
    <2>1. EntryInv(e)
        BY <1>6 DEF IInv
    <2>2. \A g \in Handlers \ {h} :
              /\ HLife(g, e)' <=> HLife(g, e)
              /\ HDone(g, e)' <=> HDone(g, e)
              /\ HReply(g, e)' <=> HReply(g, e)
              /\ HReplied(g, e)' <=> HReplied(g, e)
              /\ HConnect(g, e)' <=> HConnect(g, e)
              /\ HSend(g, e)' <=> HSend(g, e)
        BY <1>10 DEF SameHeld
    <2>3. OneLife(e)'
        BY <1>3, <1>5, <1>11, <2>1, <2>2 DEF EntryInv, OneLife
    <2>4. OneReply(e)'
        BY <1>3, <1>5, <1>11, <2>1, <2>2 DEF EntryInv, OneReply
    <2>5. r.op = "CONNECT" => state[e] = "CONNECTING" /\ \A g \in Handlers : ~HReplied(g, e)
        BY <1>5, <2>1 DEF EntryInv, StateRight
    <2>6. StateRight(e)'
        BY <1>3, <1>5, <1>11, <1>15, <2>1, <2>2, <2>5 DEF EntryInv, StateRight
    <2>7. Counted(e)'
        BY <1>3, <1>6, <1>15, <2>1, CountedKept DEF EntryInv, Counted, Holding, Leaked
    <2>8. Locked(e)' /\ Reading(e)'
        BY <1>3, <1>12, <1>15, <2>1 DEF EntryInv, Locked, Reading
    <2> QED
        BY <2>3, <2>4, <2>6, <2>7, <2>8 DEF EntryInv
<1>17. SessionsOnce'
    <2>1. Owes(e)' => Owes(e)
        BY <1>3, <1>15 DEF Owes
    <2>2. \A g \in Handlers, z \in Sessions : Ending(g, z)' => Ending(g, z)
        BY <1>3, <1>7, <1>8 DEF Ending
    <2> QED
        BY <1>3, <1>14, <2>1, <2>2, SessionsKept DEF IInv
<1>18. PollerInv' /\ NoAnomaly' /\ \A c \in Callers : CallerInv(c)'
    BY <1>3 DEF IInv, PollerInv, NoAnomaly, CallerInv
<1> QED
    BY <1>5, <1>10, <1>11, <1>12, <1>13, <1>14, <1>16, <1>17, <1>18 DEF IInv

(* What a handler that works on e leaves alone.                            *)
LEMMA OthersKept ==
    ASSUME IInv, NEW h \in Handlers, NEW e \in Entries, e = hres[h].entry,
           hres'[h] \in {hres[h], NoResult},
           \A g \in Handlers \ {h} : hpc'[g] = hpc[g] /\ hres'[g] = hres[g],
           \A f \in Entries \ {e} :
               /\ state'[f] = state[f] /\ ref'[f] = ref[f] /\ closed'[f] = closed[f]
               /\ node'[f] = node[f] /\ written'[f] = written[f]
               /\ OnIdleList(f)' <=> OnIdleList(f)
               /\ session[f] \in stuck' <=> session[f] \in stuck,
           UNCHANGED <<queue, session, mutex, message, timeout, ppc, pentry, psolicited>>,
           UNCHANGED <<cpc, csession, centry, stopFlag>>
    PROVE  /\ \A f \in Entries \ {e} : EntryInv(f)' /\ (Owes(f)' <=> Owes(f))
           /\ \A g \in Handlers \ {h} : SameHeld(g, e) /\ HandlerInv(g)'
           /\ SameQueued(e) /\ QueuedOnce' /\ PollerInv'
           /\ \A c \in Callers : CallerInv(c)'
<1>1. NoResult.entry = NoEntry /\ NoEntry \notin Entries
    BY CommunicatorAssumption DEF NoResult, Result
<1>2. \A f \in Entries \ {e} : hres[h].entry # f /\ hres'[h].entry # f
    BY <1>1
<1>3. /\ \A g \in Handlers : \A f \in Entries \ {e} : SameHeld(g, f)
      /\ \A g \in Handlers \ {h} : SameHeld(g, e) /\ HandlerInv(g)'
    BY <1>2, HandlerMoves, Zenon
<1>4. (\A f : SameQueued(f)) /\ QueuedOnce'
    BY QueueKept DEF IInv
<1>5. ASSUME NEW f \in Entries \ {e} PROVE EntryInv(f)' /\ (Owes(f)' <=> Owes(f))
    <2>1. SameResults(f)
        BY <1>3, <1>4 DEF SameResults
    <2>2. SameFields(f) /\ SameUsers(f)
        BY DEF SameFields, SameUsers
    <2> QED
        BY <2>1, <2>2, Untouched, SameOwes DEF IInv
<1>6. PollerInv' /\ \A c \in Callers : CallerInv(c)'
    BY DEF IInv, PollerInv, CallerInv
<1> QED
    BY <1>3, <1>4, <1>5, <1>6

LEMMA SendFirstIInv ==
    ASSUME IInv, NEW h \in Handlers, NEW how \in Writes, SendFirst(h, how)
    PROVE  IInv'
<1>1. PICK e : e = hres[h].entry
    OBVIOUS
<1>2. PICK p : p = CASE how = "all"     -> "add"
                     [] how = "error"   -> "abort"
                     [] how = "partial" -> "get"
    OBVIOUS
<1>3. how \in {"all", "error", "partial"}
    BY CommunicatorAssumption
<1>4. /\ hpc[h] = "send"
      /\ written' = IF how = "all" THEN [written EXCEPT ![e] = TRUE] ELSE written
      /\ state' = IF how = "all" THEN [state EXCEPT ![e] = "RECEIVING"] ELSE state
      /\ stuck' = IF how = "partial" THEN stuck \cup {session[e]} ELSE stuck
      /\ hpc' = [hpc EXCEPT ![h] = p]
      /\ hres' = IF how = "partial" THEN [hres EXCEPT ![h] = NoResult] ELSE hres
      /\ UNCHANGED <<ref, session, mutex, idle, timeout, node, message, ppc, pentry, psolicited>>
      /\ UNCHANGED <<queue, hsession, cpc, csession, centry, stopFlag, accepted, handled>>
      /\ UNCHANGED <<closed, anomalies>>
    BY <1>1, <1>2 DEF SendFirst, callVars
<1>5. /\ e \in Entries /\ EntryInv(e) /\ HLife(h, e) /\ HSend(h, e) /\ Life(e)
      /\ hres[h] \in Results /\ hres[h].op = "CONNECT"
    BY <1>1, <1>4, Handling DEF HLife, HSend, Life, IInv, HandlerInv
<1>6. /\ state[e] = "CONNECTING" /\ session[e] \in Sessions /\ ~Pend(e)
      /\ \A g \in Handlers : ~HReplied(g, e) /\ ~HReply(g, e)
      /\ ~OnIdleList(e) /\ mutex[e] = NoOne /\ ~message[e] /\ ~written[e] /\ ~QReply(e)
      /\ ~Leaked(e)
    <2>1. state[e] = "CONNECTING"
        BY <1>5 DEF EntryInv, StateRight
    <2> QED
        BY <1>5, <2>1 DEF EntryInv, StateRight, Locked, Reading, Counted, Pend
<1>7. /\ node[e] = "none" /\ ~QLife(e) /\ ~HDone(h, e)
      /\ \A g \in Handlers \ {h} : ~HLife(g, e) /\ ~HDone(g, e)
    BY <1>4, <1>5 DEF EntryInv, OneLife, HDone
<1>8. session[e] \in accepted /\ \A f \in Entries \ {e} : session[f] # session[e]
    BY <1>5, <1>6, CommunicatorAssumption DEF IInv, SessionsOnce
<1>9. /\ hpc'[h] = p /\ \A g \in Handlers \ {h} : hpc'[g] = hpc[g] /\ hres'[g] = hres[g]
      /\ hres'[h] = IF how = "partial" THEN NoResult ELSE hres[h]
      /\ state'[e] = IF how = "all" THEN "RECEIVING" ELSE "CONNECTING"
      /\ how # "all" => written'[e] = written[e]
      /\ \A f \in Entries \ {e} : state'[f] = state[f] /\ written'[f] = written[f]
    BY <1>4, <1>5, <1>6 DEF IInv, TypeOK
<1>10. p \in {"add", "abort", "get"} /\ (p = "get" <=> how = "partial")
    BY <1>2, <1>3
<1>11. (\A f : OnIdleList(f)' <=> OnIdleList(f)) /\ IdleDistinct'
    BY <1>4, IdleKept DEF IInv
<1>12. TypeOK'
    BY <1>4, <1>5, <1>8, <1>10 DEF IInv, TypeOK
<1>13. /\ \A f \in Entries \ {e} : EntryInv(f)' /\ (Owes(f)' <=> Owes(f))
       /\ \A g \in Handlers \ {h} : SameHeld(g, e) /\ HandlerInv(g)'
       /\ SameQueued(e) /\ QueuedOnce' /\ PollerInv'
       /\ \A c \in Callers : CallerInv(c)'
    <2>1. \A f \in Entries \ {e} : session[f] \in stuck' <=> session[f] \in stuck
        BY <1>4, <1>8
    <2>2. \A f \in Entries \ {e} :
              /\ state'[f] = state[f] /\ ref'[f] = ref[f] /\ closed'[f] = closed[f]
              /\ node'[f] = node[f] /\ written'[f] = written[f]
              /\ OnIdleList(f)' <=> OnIdleList(f)
              /\ session[f] \in stuck' <=> session[f] \in stuck
        BY <1>4, <1>9, <1>11, <2>1
    <2>3. hres'[h] \in {hres[h], NoResult}
        BY <1>9
    <2> QED
        BY <1>1, <1>4, <1>5, <1>9, <2>2, <2>3, OthersKept
<1>14. NoResult.entry # e /\ hres[h] # NoResult
    BY <1>1, <1>5, CommunicatorAssumption DEF NoResult, Result
<1>15. /\ HandlerInv(h)'
       /\ ~HReply(h, e)' /\ ~HReplied(h, e)' /\ ~HDone(h, e)' /\ ~HSend(h, e)'
       /\ HLife(h, e)' <=> how # "partial"
    BY <1>1, <1>5, <1>9, <1>10, <1>14 DEF HandlerInv, HReply, HReplied, HDone, HSend, HLife
<1>16. /\ ~QLife(e)' /\ ~QReply(e)' /\ (QConnect(e)' <=> QConnect(e))
       /\ \A g \in Handlers : ~HReply(g, e)' /\ ~HReplied(g, e)' /\ ~HDone(g, e)'
       /\ \A g \in Handlers \ {h} : ~HLife(g, e)' /\ (HSend(g, e)' <=> HSend(g, e))
    BY <1>6, <1>7, <1>13, <1>15 DEF SameHeld, SameQueued
<1>17. /\ Life(e)' <=> how # "partial"
       /\ ~Done(e)' /\ ~Pend(e)' /\ Replied(e)' = {} /\ Replied(e) = {}
    <2>1. Life(e)' <=> how # "partial"
        BY <1>4, <1>7, <1>15, <1>16 DEF Life
    <2> QED
        BY <1>6, <1>16, <2>1 DEF Done, Pend, Replied
<1>18. EntryInv(e)'
    <2>1. OneLife(e)' /\ OneReply(e)'
        BY <1>4, <1>7, <1>15, <1>16 DEF OneLife, OneReply
    <2>2. ~QConnect(e)' /\ \A g \in Handlers : ~HSend(g, e)'
        BY <1>5, <1>7, <1>15, <1>16, ConnectIsLife
    <2>3. StateRight(e)'
        BY <1>4, <1>6, <1>7, <1>9, <1>16, <1>17, <2>2 DEF StateRight
    <2>4. Leaked(e)' <=> how = "partial"
        <3>1. session[e] \notin stuck
            BY <1>6 DEF Leaked
        <3> QED
            BY <1>3, <1>4, <1>9, <3>1 DEF Leaked
    <2>5. Holding(e) /\ Holding(e)'
        BY <1>5, <1>17, <2>4 DEF Holding
    <2>6. Counted(e)'
        <3>1. /\ Counted(e) /\ Replied(e)' = Replied(e) /\ (Holding(e)' <=> Holding(e))
              /\ Leaked(e)' => ~Life(e)' /\ ~Done(e)'
            BY <1>5, <1>17, <2>4, <2>5 DEF EntryInv
        <3>2. ref'[e] = ref[e] /\ closed'[e] = closed[e] /\ (state'[e] = "NEW" <=> state[e] = "NEW")
            BY <1>4, <1>6, <1>9
        <3> QED
            BY <1>5, <3>1, <3>2, CountedKept
    <2>7. Locked(e)'
        BY <1>4, <1>6, <1>9, <1>11 DEF Locked
    <2>8. Reading(e)'
        BY <1>4, <1>5, <1>6, <1>7, <1>9 DEF Reading, EntryInv
    <2> QED
        BY <2>1, <2>3, <2>6, <2>7, <2>8 DEF EntryInv
<1>19. SessionsOnce'
    <2>1. Owes(e)
        BY <1>5, <1>6 DEF Owes
    <2>2. \A g \in Handlers, z \in Sessions : Ending(g, z)' => Ending(g, z)
        BY <1>4, <1>9, <1>10 DEF Ending
    <2> QED
        BY <1>4, <1>13, <2>1, <2>2, SessionsKept DEF IInv
<1>20. NoAnomaly'
    BY <1>4 DEF IInv, NoAnomaly
<1> QED
    BY <1>11, <1>12, <1>13, <1>15, <1>18, <1>19, <1>20 DEF IInv

LEMMA AddReadIInv == ASSUME IInv, NEW h \in Handlers, AddRead(h) PROVE IInv'
<1>1. PICK e : e = hres[h].entry
    OBVIOUS
<1>2. PICK p \in {"stop?", "abort"} :
          /\ hpc' = [hpc EXCEPT ![h] = p]
          /\ node' = IF p = "stop?" THEN [node EXCEPT ![e] = "read"] ELSE node
    BY <1>1 DEF AddRead
<1>3. /\ hpc[h] = "add"
      /\ UNCHANGED <<state, ref, session, mutex, idle, timeout, message, written, ppc, pentry>>
      /\ UNCHANGED <<psolicited, queue, hres, hsession, cpc, csession, centry, stopFlag>>
      /\ UNCHANGED <<accepted, handled, closed, stuck, anomalies>>
    BY <1>1 DEF AddRead, entryVars, callVars, histVars
<1>4. /\ e \in Entries /\ EntryInv(e) /\ HLife(h, e) /\ HConnect(h, e) /\ Life(e)
      /\ hres[h] \in Results /\ hres[h].op = "CONNECT" /\ ~IsReply(hres[h])
    BY <1>1, <1>3, Handling DEF HLife, HConnect, Life, IInv, HandlerInv, IsReply
<1>5. /\ node[e] = "none" /\ ~QLife(e) /\ ~HDone(h, e)
      /\ \A g \in Handlers \ {h} : ~HLife(g, e) /\ ~HDone(g, e)
      /\ \A g \in Handlers \ {h} : ~HConnect(g, e) /\ ~HSend(g, e)
    BY <1>3, <1>4, ConnectIsLife DEF EntryInv, OneLife, HDone
<1>6. /\ hpc'[h] = p /\ \A g \in Handlers \ {h} : hpc'[g] = hpc[g] /\ hres'[g] = hres[g]
      /\ node'[e] = IF p = "stop?" THEN "read" ELSE "none"
      /\ \A f \in Entries \ {e} : node'[f] = node[f]
    BY <1>2, <1>3, <1>4, <1>5 DEF IInv, TypeOK
<1>7. (\A f : OnIdleList(f)' <=> OnIdleList(f)) /\ IdleDistinct'
    BY <1>3, IdleKept DEF IInv
<1>8. TypeOK'
    BY <1>2, <1>3, <1>4 DEF IInv, TypeOK
<1>9. /\ \A f \in Entries \ {e} : EntryInv(f)' /\ (Owes(f)' <=> Owes(f))
      /\ \A g \in Handlers \ {h} : SameHeld(g, e) /\ HandlerInv(g)'
      /\ SameQueued(e) /\ QueuedOnce' /\ PollerInv'
      /\ \A c \in Callers : CallerInv(c)'
    BY <1>1, <1>3, <1>4, <1>6, <1>7, OthersKept
<1>10. /\ HandlerInv(h)'
       /\ HReply(h, e)' <=> HReply(h, e)
       /\ HReplied(h, e)' <=> HReplied(h, e)
       /\ ~HDone(h, e)' /\ ~HSend(h, e)'
       /\ HLife(h, e)' <=> p = "abort"
       /\ HConnect(h, e)' <=> p = "abort"
    <2>1. hres[h] # NoResult
        BY <1>1, <1>4, CommunicatorAssumption DEF NoResult, Result
    <2> QED
        BY <1>1, <1>2, <1>3, <1>4, <1>6, <2>1
           DEF HandlerInv, HReply, HReplied, HDone, HSend, HLife, HConnect
<1>11. /\ Life(e)'
       /\ Done(e)' <=> Done(e)
       /\ Pend(e)' <=> Pend(e)
       /\ Replied(e)' = Replied(e)
    <2>1. Life(e)'
        BY <1>2, <1>6, <1>10 DEF Life
    <2>2. Replied(e)' = Replied(e)
        BY <1>9, <1>10 DEF Replied, SameHeld
    <2> QED
        BY <1>5, <1>9, <1>10, <2>1, <2>2 DEF Done, Pend, SameHeld, SameQueued
<1>12. EntryInv(e)'
    <2>1. OneLife(e)'
        BY <1>5, <1>6, <1>9, <1>10 DEF OneLife, SameHeld, SameQueued
    <2>2. OneReply(e)'
        BY <1>4, <1>9, <1>10 DEF EntryInv, OneReply, SameHeld, SameQueued
    <2>3. StateRight(e)'
        <3>1. \A g \in Handlers : /\ HSend(g, e)' => HSend(g, e)
                                  /\ HConnect(g, e)' => HConnect(g, e)
                                  /\ HReplied(g, e)' <=> HReplied(g, e)
            BY <1>4, <1>9, <1>10 DEF SameHeld
        <3>2. node'[e] # "connect" /\ (QConnect(e)' <=> QConnect(e))
            BY <1>6, <1>9 DEF SameQueued
        <3> QED
            BY <1>3, <1>4, <1>11, <3>1, <3>2 DEF EntryInv, StateRight
    <2>4. Counted(e)'
        BY <1>3, <1>4, <1>11, CountedKept DEF EntryInv, Counted, Holding, Leaked
    <2>5. Locked(e)'
        BY <1>3, <1>4, <1>7, <1>11 DEF EntryInv, Locked
    <2>6. Reading(e)'
        BY <1>3, <1>4, <1>5, <1>6 DEF EntryInv, Reading
    <2> QED
        BY <2>1, <2>2, <2>3, <2>4, <2>5, <2>6 DEF EntryInv
<1>13. SessionsOnce'
    <2>1. Owes(e)' => Owes(e)
        BY <1>3, <1>4, <1>11 DEF Owes
    <2>2. \A g \in Handlers, z \in Sessions : Ending(g, z)' => Ending(g, z)
        BY <1>2, <1>3, <1>6 DEF Ending
    <2> QED
        BY <1>3, <1>9, <2>1, <2>2, SessionsKept DEF IInv
<1>14. NoAnomaly'
    BY <1>3 DEF IInv, NoAnomaly
<1> QED
    BY <1>7, <1>8, <1>9, <1>10, <1>12, <1>13, <1>14 DEF IInv

LEMMA DelIfStoppingIInv == ASSUME IInv, NEW h \in Handlers, DelIfStopping(h) PROVE IInv'
<1>1. PICK e : e = hres[h].entry
    OBVIOUS
<1>2. /\ hpc[h] = "stop?"
      /\ node' = IF stopFlag /\ node[e] = "read"
                 THEN [node EXCEPT ![e] = "deleted"] ELSE node
      /\ hpc' = [hpc EXCEPT ![h] = "get"]
      /\ hres' = [hres EXCEPT ![h] = NoResult]
      /\ UNCHANGED <<state, ref, session, mutex, idle, timeout, message, written, ppc, pentry>>
      /\ UNCHANGED <<psolicited, queue, hsession, cpc, csession, centry, stopFlag>>
      /\ UNCHANGED <<accepted, handled, closed, stuck, anomalies>>
    BY <1>1 DEF DelIfStopping, entryVars, callVars, histVars
<1>3. e \in Entries /\ EntryInv(e) /\ hres[h] \in Results
    BY <1>1, <1>2, Handling
<1>4. /\ hpc'[h] = "get" /\ hres'[h] = NoResult
      /\ \A g \in Handlers \ {h} : hpc'[g] = hpc[g] /\ hres'[g] = hres[g]
      /\ node'[e] = IF stopFlag /\ node[e] = "read" THEN "deleted" ELSE node[e]
      /\ \A f \in Entries \ {e} : node'[f] = node[f]
    BY <1>2, <1>3 DEF IInv, TypeOK
<1>5. (\A f : OnIdleList(f)' <=> OnIdleList(f)) /\ IdleDistinct'
    BY <1>2, IdleKept DEF IInv
<1>6. TypeOK'
    BY <1>2, <1>3 DEF IInv, TypeOK
<1>7. /\ \A f \in Entries \ {e} : EntryInv(f)' /\ (Owes(f)' <=> Owes(f))
      /\ \A g \in Handlers \ {h} : SameHeld(g, e) /\ HandlerInv(g)'
      /\ SameQueued(e) /\ QueuedOnce' /\ PollerInv'
      /\ \A c \in Callers : CallerInv(c)'
    BY <1>1, <1>2, <1>3, <1>4, <1>5, OthersKept
<1>8. HandlerInv(h)' /\ SameHeld(h, e)
    <2>1. NoResult.entry # e
        BY <1>3, CommunicatorAssumption DEF NoResult, Result
    <2> QED
        BY <1>2, <1>4, <2>1
           DEF HandlerInv, SameHeld, HReply, HReplied, HDone, HSend, HLife, HConnect
<1>9. SameResults(e)
    BY <1>7, <1>8 DEF SameResults
<1>10. /\ Life(e)' <=> Life(e)
       /\ Done(e)' <=> Done(e)
       /\ Pend(e)' <=> Pend(e)
       /\ Replied(e)' = Replied(e)
       /\ OneLife(e)' /\ OneReply(e)'
    BY <1>3, <1>4, <1>9, LifeKept DEF EntryInv
<1>11. EntryInv(e)'
    <2>1. StateRight(e)'
        BY <1>2, <1>3, <1>4, <1>9, <1>10
           DEF EntryInv, StateRight, SameResults, SameHeld, SameQueued
    <2>2. Counted(e)'
        BY <1>2, <1>3, <1>10, CountedKept DEF EntryInv, Counted, Holding, Leaked
    <2>3. Locked(e)'
        BY <1>2, <1>3, <1>5, <1>10 DEF EntryInv, Locked
    <2>4. Reading(e)'
        BY <1>2, <1>3, <1>4 DEF EntryInv, Reading
    <2> QED
        BY <1>10, <2>1, <2>2, <2>3, <2>4 DEF EntryInv
<1>12. SessionsOnce'
    <2>1. Owes(e)' => Owes(e)
        BY <1>2, <1>10 DEF Owes
    <2>2. \A g \in Handlers, z \in Sessions : Ending(g, z)' => Ending(g, z)
        BY <1>2, <1>4 DEF Ending
    <2> QED
        BY <1>2, <1>7, <2>1, <2>2, SessionsKept DEF IInv
<1>13. NoAnomaly'
    BY <1>2 DEF IInv, NoAnomaly
<1> QED
    BY <1>5, <1>6, <1>7, <1>8, <1>11, <1>12, <1>13 DEF IInv

LEMMA OwesSession ==
    ASSUME IInv, NEW e \in Entries, Owes(e)
    PROVE  session[e] \in Sessions
<1>1. StateRight(e) /\ Locked(e)
    BY DEF IInv, EntryInv
<1>2. state[e] # "NEW"
    BY <1>1 DEF Owes, StateRight, Locked
<1> QED
    BY <1>1, <1>2 DEF StateRight

(* handle() is called for a session that nothing is going to end now.      *)
LEMMA SessionEnds ==
    ASSUME IInv, NEW s \in Sessions, s \in accepted, handled[s] = 0,
           handled' = [handled EXCEPT ![s] = @ + 1], UNCHANGED <<session, accepted>>,
           \A e \in Entries : Owes(e)' => Owes(e) /\ session[e] # s,
           \A h \in Handlers, z \in Sessions : Ending(h, z)' => Ending(h, z) /\ z # s
    PROVE  SessionsOnce'
<1>1. handled'[s] = 1 /\ \A z \in Sessions \ {s} : handled'[z] = handled[z]
    BY DEF IInv, TypeOK
<1>2. SessionsOnce
    BY DEF IInv
<1>3. \A z \in Sessions : handled'[z] <= 1 /\ (z \notin accepted' => handled'[z] = 0)
    BY <1>1, <1>2 DEF SessionsOnce
<1>4. \A e \in Entries : Owes(e)' => handled'[session'[e]] = 0
    BY <1>1, <1>2, OwesSession DEF SessionsOnce
<1> QED
    BY <1>1, <1>2, <1>3, <1>4 DEF SessionsOnce

LEMMA AbortIInv == ASSUME IInv, NEW h \in Handlers, Abort(h) PROVE IInv'
<1>1. PICK e : e = hres[h].entry
    OBVIOUS
<1>2. /\ hpc[h] = "abort"
      /\ handled' = [handled EXCEPT ![session[e]] = @ + 1]
      /\ hsession' = [hsession EXCEPT ![h] = session[e]]
      /\ hpc' = [hpc EXCEPT ![h] = "callback"]
      /\ UNCHANGED <<state, ref, session, mutex, idle, timeout, node, message, written, ppc>>
      /\ UNCHANGED <<pentry, psolicited, queue, hres, cpc, csession, centry, stopFlag>>
      /\ UNCHANGED <<accepted, closed, stuck, anomalies>>
    BY <1>1 DEF Abort, entryVars, pollVars, callVars
<1>3. /\ e \in Entries /\ EntryInv(e) /\ HLife(h, e) /\ HConnect(h, e) /\ Life(e)
      /\ hres[h] \in Results /\ hres[h].op = "CONNECT" /\ ~IsReply(hres[h])
    BY <1>1, <1>2, Handling DEF HLife, HConnect, Life, IInv, HandlerInv, IsReply
<1>4. /\ node[e] = "none" /\ ~QLife(e) /\ ~HDone(h, e)
      /\ \A g \in Handlers \ {h} : ~HLife(g, e) /\ ~HDone(g, e)
    BY <1>2, <1>3 DEF EntryInv, OneLife, HDone
<1>5. /\ state[e] \in {"CONNECTING", "RECEIVING"} /\ session[e] \in Sessions /\ ~Pend(e)
      /\ mutex[e] = NoOne /\ ~Leaked(e)
    BY <1>3 DEF EntryInv, StateRight, Locked, Counted
<1>6. Owes(e) /\ session[e] \in accepted /\ handled[session[e]] = 0
      /\ \A f \in Entries \ {e} : session[f] # session[e]
    BY <1>3, <1>5, CommunicatorAssumption DEF Owes, IInv, SessionsOnce
<1>7. /\ hpc'[h] = "callback" /\ hres'[h] = hres[h]
      /\ \A g \in Handlers \ {h} : /\ hpc'[g] = hpc[g] /\ hres'[g] = hres[g]
                                   /\ hsession'[g] = hsession[g]
    BY <1>2 DEF IInv, TypeOK
<1>8. (\A f : OnIdleList(f)' <=> OnIdleList(f)) /\ IdleDistinct'
    BY <1>2, IdleKept DEF IInv
<1>9. TypeOK'
    BY <1>2, <1>5 DEF IInv, TypeOK
<1>10. /\ \A f \in Entries \ {e} : EntryInv(f)' /\ (Owes(f)' <=> Owes(f))
       /\ \A g \in Handlers \ {h} : SameHeld(g, e) /\ HandlerInv(g)'
       /\ SameQueued(e) /\ QueuedOnce' /\ PollerInv'
       /\ \A c \in Callers : CallerInv(c)'
    BY <1>1, <1>2, <1>3, <1>7, <1>8, OthersKept
<1>11. /\ HandlerInv(h)'
       /\ ~HReply(h, e) /\ ~HReply(h, e)' /\ ~HReplied(h, e) /\ ~HReplied(h, e)'
       /\ HDone(h, e)' /\ ~HSend(h, e)' /\ ~HLife(h, e)' /\ HConnect(h, e)'
    <2>1. hres[h] # NoResult
        BY <1>1, <1>3, CommunicatorAssumption DEF NoResult, Result
    <2> QED
        BY <1>1, <1>2, <1>3, <1>7, <2>1
           DEF HandlerInv, HReply, HReplied, HDone, HSend, HLife, HConnect
<1>12. ~Life(e)' /\ Done(e)' /\ ~Pend(e)' /\ Replied(e)' = Replied(e)
    <2>1. ~Life(e)'
        BY <1>2, <1>4, <1>10, <1>11 DEF Life, SameHeld, SameQueued
    <2>2. Replied(e)' = Replied(e)
        BY <1>10, <1>11 DEF Replied, SameHeld
    <2>3. ~Pend(e)'
        BY <1>5, <1>10, <1>11 DEF Pend, SameHeld, SameQueued
    <2> QED
        BY <1>11, <2>1, <2>2, <2>3 DEF Done
<1>13. EntryInv(e)'
    <2>1. OneLife(e)' /\ OneReply(e)'
        BY <1>2, <1>3, <1>4, <1>10, <1>11
           DEF EntryInv, OneLife, OneReply, SameHeld, SameQueued
    <2>2. StateRight(e)'
        <3>1. \A g \in Handlers : /\ HSend(g, e)' => HSend(g, e)
                                  /\ HConnect(g, e)' => HConnect(g, e)
                                  /\ HReplied(g, e)' <=> HReplied(g, e)
            BY <1>3, <1>10, <1>11 DEF SameHeld
        <3>2. QConnect(e)' <=> QConnect(e)
            BY <1>10 DEF SameQueued
        <3> QED
            BY <1>2, <1>3, <1>5, <1>12, <3>1, <3>2 DEF EntryInv, StateRight
    <2>3. Holding(e) /\ Holding(e)' /\ ~Leaked(e)'
        BY <1>2, <1>3, <1>5, <1>12 DEF Holding, Leaked
    <2>4. Counted(e)'
        BY <1>2, <1>3, <1>12, <2>3, CountedKept DEF EntryInv
    <2>5. Locked(e)'
        BY <1>2, <1>3, <1>5, <1>8 DEF EntryInv, Locked
    <2>6. Reading(e)'
        BY <1>2, <1>3 DEF EntryInv, Reading
    <2> QED
        BY <2>1, <2>2, <2>4, <2>5, <2>6 DEF EntryInv
<1>14. SessionsOnce'
    <2>1. ~Owes(e)'
        BY <1>2, <1>5, <1>12 DEF Owes
    <2>2. \A f \in Entries : Owes(f)' => Owes(f) /\ session[f] # session[e]
        BY <1>6, <1>10, <2>1
    <2>3. \A g \in Handlers, z \in Sessions : Ending(g, z)' => Ending(g, z)
        BY <1>7 DEF Ending
    <2>4. \A g \in Handlers : ~Ending(g, session[e])
        BY <1>3, <1>5, <1>6 DEF IInv, SessionsOnce
    <2>5. \A g \in Handlers, z \in Sessions : Ending(g, z)' => Ending(g, z) /\ z # session[e]
        BY <2>3, <2>4
    <2> QED
        BY <1>2, <1>5, <1>6, <2>2, <2>5, SessionEnds
<1>15. NoAnomaly'
    BY <1>2 DEF IInv, NoAnomaly
<1> QED
    BY <1>8, <1>9, <1>10, <1>11, <1>13, <1>14, <1>15 DEF IInv

LEMMA EndSessionIInv == ASSUME IInv, NEW h \in Handlers, EndSession(h) PROVE IInv'
<1>1. PICK e : e = hres[h].entry
    OBVIOUS
<1>2. PICK s : s = hsession[h]
    OBVIOUS
<1>3. /\ hpc[h] = "end"
      /\ handled' = IF s = NoSession THEN handled ELSE [handled EXCEPT ![s] = @ + 1]
      /\ hpc' = [hpc EXCEPT ![h] = "callback"]
      /\ UNCHANGED <<state, ref, session, mutex, idle, timeout, node, message, written, ppc>>
      /\ UNCHANGED <<pentry, psolicited, queue, hres, hsession, cpc, csession, centry>>
      /\ UNCHANGED <<stopFlag, accepted, closed, stuck, anomalies>>
    BY <1>2 DEF EndSession, entryVars, pollVars, callVars
<1>4. e \in Entries /\ EntryInv(e) /\ hres[h] \in Results
    BY <1>1, <1>3, Handling
<1>5. /\ hpc'[h] = "callback" /\ hres'[h] = hres[h]
      /\ \A g \in Handlers \ {h} : hpc'[g] = hpc[g] /\ hres'[g] = hres[g]
    BY <1>3 DEF IInv, TypeOK
<1>6. (\A f : OnIdleList(f)' <=> OnIdleList(f)) /\ IdleDistinct'
    BY <1>3, IdleKept DEF IInv
<1>7. TypeOK'
    BY <1>2, <1>3 DEF IInv, TypeOK
<1>8. /\ \A f \in Entries \ {e} : EntryInv(f)' /\ (Owes(f)' <=> Owes(f))
      /\ \A g \in Handlers \ {h} : SameHeld(g, e) /\ HandlerInv(g)'
      /\ SameQueued(e) /\ QueuedOnce' /\ PollerInv'
      /\ \A c \in Callers : CallerInv(c)'
    BY <1>1, <1>3, <1>4, <1>5, <1>6, OthersKept
<1>9. HandlerInv(h)' /\ SameHeld(h, e)
    <2>1. hres[h] # NoResult
        BY <1>1, <1>4, CommunicatorAssumption DEF NoResult, Result
    <2> QED
        BY <1>3, <1>5, <2>1
           DEF HandlerInv, SameHeld, HReply, HReplied, HDone, HSend, HLife, HConnect
<1>10. SameResults(e)
    BY <1>8, <1>9 DEF SameResults
<1>11. EntryInv(e)'
    <2>1. SameFields(e) /\ SameUsers(e)
        BY <1>3, <1>6 DEF SameFields, SameUsers
    <2> QED
        BY <1>4, <1>10, <2>1, Untouched
<1>12. SessionsOnce'
    <2>1. \A f \in Entries : Owes(f)' => Owes(f)
        BY <1>3, <1>8, <1>10, SameOwes
    <2>2. \A g \in Handlers, z \in Sessions : Ending(g, z)' => Ending(g, z) /\ g # h
        BY <1>3, <1>5 DEF Ending
    <2>3. CASE s = NoSession
        BY <1>3, <2>1, <2>2, <2>3, SessionsKept DEF IInv
    <2>4. CASE s # NoSession
        <3>1. s \in Sessions /\ Ending(h, s)
            BY <1>2, <1>3, <2>4 DEF IInv, TypeOK, Ending
        <3>2. s \in accepted /\ handled[s] = 0 /\ (\A f \in Entries : Owes(f) => session[f] # s)
              /\ \A g \in Handlers : Ending(g, s) => g = h
            BY <3>1 DEF IInv, SessionsOnce
        <3>3. \A f \in Entries : Owes(f)' => Owes(f) /\ session[f] # s
            BY <2>1, <3>2
        <3>4. \A g \in Handlers, z \in Sessions : Ending(g, z)' => Ending(g, z) /\ z # s
            BY <2>2, <3>2
        <3> QED
            BY <1>3, <2>4, <3>1, <3>2, <3>3, <3>4, SessionEnds
    <2> QED
        BY <2>3, <2>4
<1>13. NoAnomaly'
    BY <1>3 DEF IInv, NoAnomaly
<1> QED
    BY <1>6, <1>7, <1>8, <1>9, <1>11, <1>12, <1>13 DEF IInv

(* The session that an entry owes is left to a handler.                    *)
LEMMA SessionLeft ==
    ASSUME SessionsOnce, NEW h \in Handlers, NEW e \in Entries, Owes(e), ~Owes(e)',
           session[e] \in Sessions, NoSession \notin Sessions,
           UNCHANGED <<session, accepted, handled>>,
           \A f \in Entries \ {e} : Owes(f)' => Owes(f), hsession'[h] = session[e],
           \A g \in Handlers \ {h} : \A z \in Sessions : Ending(g, z)' => Ending(g, z)
    PROVE  SessionsOnce'
<1>1. /\ session[e] \in accepted /\ handled[session[e]] = 0
      /\ \A f \in Entries \ {e} : session[f] # session[e]
      /\ \A g \in Handlers : ~Ending(g, session[e])
    BY DEF SessionsOnce
<1>2. \A z \in Sessions : Ending(h, z)' => z = session[e]
    BY DEF Ending
<1>3. \A f \in Entries : Owes(f)' => Owes(f) /\ f # e
    OBVIOUS
<1>4. ASSUME NEW z \in Sessions, NEW g \in Handlers, Ending(g, z)'
      PROVE  /\ z \in accepted /\ handled[z] = 0
             /\ \A f \in Entries : Owes(f)' => session[f] # z
             /\ \A k \in Handlers : Ending(k, z)' => k = g
    <2>1. CASE z = session[e]
        BY <1>1, <1>3, <1>4, <2>1
    <2>2. CASE z # session[e]
        <3>1. \A k \in Handlers : Ending(k, z)' => Ending(k, z)
            BY <1>2, <2>2
        <3> QED
            BY <1>3, <1>4, <3>1 DEF SessionsOnce
    <2> QED
        BY <2>1, <2>2
<1> QED
    BY <1>1, <1>3, <1>4 DEF SessionsOnce

LEMMA ReplyIInv == ASSUME IInv, NEW h \in Handlers, Reply(h) PROVE IInv'
<1>1. PICK e : e = hres[h].entry
    OBVIOUS
<1>3. /\ hpc[h] = "reply"
      /\ hsession' = [hsession EXCEPT ![h] = session[e]]
      /\ ref' = IF state[e] = "SUCCESS" THEN [ref EXCEPT ![e] = @ + 1] ELSE ref
      /\ state' = IF state[e] = "SUCCESS"
                  THEN [state EXCEPT ![e] = IF timeout[session[e]] # 0 THEN "IDLE" ELSE "CLOSING"]
                  ELSE state
      /\ idle' = IF state[e] = "SUCCESS" /\ timeout[session[e]] # 0
                 THEN <<e>> \o idle ELSE idle
      /\ hpc' = [hpc EXCEPT ![h] = "end"]
      /\ UNCHANGED <<session, mutex, timeout, node, message, written, ppc, pentry, psolicited>>
      /\ UNCHANGED <<queue, hres, cpc, csession, centry, stopFlag>>
      /\ UNCHANGED <<accepted, handled, closed, stuck, anomalies>>
    BY <1>1 DEF Reply, RefAfterReply, Kept, pollVars, callVars, histVars
<1>4. /\ e \in Entries /\ EntryInv(e) /\ HReply(h, e) /\ Pend(e)
      /\ hres[h] \in Results /\ IsReply(hres[h])
    BY <1>1, <1>3, Handling DEF HReply, Pend, IInv, HandlerInv
<1>5. \/ state[e] = "SUCCESS" /\ Life(e)
      \/ state[e] = "CLOSING" /\ ~Life(e) /\ ~Done(e)
    BY <1>4 DEF EntryInv, StateRight
<1>6. /\ session[e] \in Sessions /\ mutex[e] = NoOne /\ ~OnIdleList(e) /\ ~Leaked(e)
      /\ ~message[e] /\ ~written[e] /\ node[e] # "connect" /\ ~QConnect(e)
      /\ \A g \in Handlers : ~HConnect(g, e) /\ ~HSend(g, e)
    <2>1. session[e] \in Sessions /\ node[e] # "connect" /\ ~QConnect(e)
          /\ \A g \in Handlers : ~HConnect(g, e) /\ ~HSend(g, e)
        BY <1>4, <1>5 DEF EntryInv, StateRight
    <2>2. mutex[e] = NoOne /\ ~OnIdleList(e)
        BY <1>4, <1>5 DEF EntryInv, Locked
    <2> QED
        BY <1>4, <1>5, <2>1, <2>2 DEF EntryInv, Reading, Leaked
<1>7. ~QReply(e) /\ \A g \in Handlers \ {h} : ~HReply(g, e)
    BY <1>4 DEF EntryInv, OneReply
<1>8. /\ hpc'[h] = "end" /\ hres'[h] = hres[h] /\ hsession'[h] = session[e]
      /\ \A g \in Handlers \ {h} : /\ hpc'[g] = hpc[g] /\ hres'[g] = hres[g]
                                   /\ hsession'[g] = hsession[g]
      /\ ref'[e] = IF state[e] = "SUCCESS" THEN ref[e] + 1 ELSE ref[e]
      /\ state'[e] = IF state[e] = "SUCCESS" /\ timeout[session[e]] # 0 THEN "IDLE" ELSE "CLOSING"
      /\ \A f \in Entries \ {e} : state'[f] = state[f] /\ ref'[f] = ref[f]
    BY <1>3, <1>4, <1>5 DEF IInv, TypeOK
<1>9. /\ idle' \in Seq(Entries) /\ IdleDistinct'
      /\ \A f : OnIdleList(f)' <=> OnIdleList(f) \/ (f = e /\ state'[e] = "IDLE")
    <2>1. CASE state[e] = "SUCCESS" /\ timeout[session[e]] # 0
        BY <1>3, <1>4, <1>6, <1>8, <2>1, ListedFirst DEF IInv, TypeOK
    <2>2. CASE ~(state[e] = "SUCCESS" /\ timeout[session[e]] # 0)
        BY <1>3, <1>8, <2>2, IdleKept DEF IInv, TypeOK
    <2> QED
        BY <2>1, <2>2
<1>10. TypeOK'
    <2>1. /\ state' \in [Entries -> {"NEW", "CONNECTING", "RECEIVING", "SUCCESS", "IDLE",
                                   "CLOSING", "ERROR"}]
          /\ ref' \in [Entries -> Nat]
        BY <1>3, <1>4 DEF IInv, TypeOK
    <2>2. /\ hsession' \in [Handlers -> Sessions \cup {NoSession}]
          /\ hpc' \in [Handlers -> {"get", "send", "add", "stop?", "abort", "reply",
                                   "final", "end", "callback"}]
        BY <1>3, <1>6 DEF IInv, TypeOK
    <2> QED
        BY <1>3, <1>9, <2>1, <2>2 DEF IInv, TypeOK
<1>11. /\ \A f \in Entries \ {e} : EntryInv(f)' /\ (Owes(f)' <=> Owes(f))
       /\ \A g \in Handlers \ {h} : SameHeld(g, e) /\ HandlerInv(g)'
       /\ SameQueued(e) /\ QueuedOnce' /\ PollerInv'
       /\ \A c \in Callers : CallerInv(c)'
    <2>1. \A f \in Entries \ {e} :
              /\ state'[f] = state[f] /\ ref'[f] = ref[f] /\ closed'[f] = closed[f]
              /\ node'[f] = node[f] /\ written'[f] = written[f]
              /\ OnIdleList(f)' <=> OnIdleList(f)
              /\ session[f] \in stuck' <=> session[f] \in stuck
        BY <1>3, <1>8, <1>9
    <2>2. hres'[h] \in {hres[h], NoResult}
        BY <1>8
    <2> QED
        BY <1>1, <1>3, <1>4, <1>8, <2>1, <2>2, OthersKept
<1>12. /\ HandlerInv(h)'
       /\ ~HReply(h, e)' /\ ~HReplied(h, e) /\ HReplied(h, e)'
       /\ ~HDone(h, e) /\ ~HDone(h, e)' /\ ~HLife(h, e) /\ ~HLife(h, e)'
       /\ ~HSend(h, e)' /\ ~HConnect(h, e)'
    <2>1. hres[h] # NoResult
        BY <1>1, <1>4, CommunicatorAssumption DEF NoResult, Result
    <2> QED
        BY <1>1, <1>3, <1>4, <1>8, <2>1
           DEF HandlerInv, HReply, HReplied, HDone, HSend, HLife, HConnect, IsReply
<1>13. /\ Life(e)' <=> Life(e)
       /\ Done(e)' <=> Done(e)
       /\ ~Pend(e)'
       /\ Replied(e)' = Replied(e) \cup {h} /\ h \notin Replied(e)
    <2>1. (Life(e)' <=> Life(e)) /\ (Done(e)' <=> Done(e))
        BY <1>3, <1>11, <1>12 DEF Life, Done, SameHeld, SameQueued
    <2>2. Replied(e)' = Replied(e) \cup {h} /\ h \notin Replied(e)
        BY <1>11, <1>12 DEF Replied, SameHeld
    <2>3. ~Pend(e)'
        BY <1>7, <1>11, <1>12 DEF Pend, SameHeld, SameQueued
    <2> QED
        BY <2>1, <2>2, <2>3
<1>14. EntryInv(e)'
    <2>1. OneLife(e)' /\ OneReply(e)'
        BY <1>3, <1>4, <1>7, <1>11, <1>12
           DEF EntryInv, OneLife, OneReply, SameHeld, SameQueued
    <2>2. StateRight(e)'
        <3>1. \A g \in Handlers : ~HSend(g, e)' /\ ~HConnect(g, e)'
            BY <1>6, <1>11, <1>12 DEF SameHeld
        <3>2. ~QConnect(e)'
            BY <1>6, <1>11 DEF SameQueued
        <3> QED
            BY <1>3, <1>6, <1>8, <1>13, <3>1, <3>2 DEF StateRight
    <2>3. Counted(e)'
        <3>1. Cardinality(Replied(e)') = Cardinality(Replied(e)) + 1 /\ Cardinality(Replied(e)) \in Nat
            BY <1>13, RepliedFinite, FS_AddElement
        <3>2. Holding(e) /\ (Holding(e)' <=> state[e] = "SUCCESS") /\ ~Leaked(e)'
            BY <1>4, <1>5, <1>8, <1>13 DEF Holding, Leaked
        <3>3. ref[e] = Cardinality(Replied(e)) + 1 /\ closed[e] = 0
            BY <1>4, <1>5, <3>1, <3>2 DEF EntryInv, Counted
        <3>4. ref'[e] = Cardinality(Replied(e)') + (IF Holding(e)' THEN 1 ELSE 0) /\ ref'[e] # 0
            BY <1>8, <3>1, <3>2, <3>3
        <3> QED
            BY <1>3, <3>2, <3>3, <3>4 DEF Counted
    <2>4. Locked(e)'
        BY <1>3, <1>5, <1>6, <1>8, <1>9, <1>13 DEF Locked
    <2>5. Reading(e)'
        BY <1>3, <1>4, <1>5, <1>6, <1>8 DEF EntryInv, Reading
    <2> QED
        BY <2>1, <2>2, <2>3, <2>4, <2>5 DEF EntryInv
<1>15. SessionsOnce'
    <2>1. ~Owes(e)' /\ Owes(e)
        BY <1>3, <1>4, <1>6, <1>8, <1>13 DEF Owes
    <2>2. \A g \in Handlers \ {h} : \A z \in Sessions : Ending(g, z)' => Ending(g, z)
        BY <1>8 DEF Ending
    <2>3. NoSession \notin Sessions /\ SessionsOnce /\ \A f \in Entries \ {e} : Owes(f)' => Owes(f)
        BY <1>11, CommunicatorAssumption DEF IInv
    <2> QED
        BY <1>3, <1>4, <1>6, <1>8, <2>1, <2>2, <2>3, SessionLeft
<1>16. NoAnomaly'
    BY <1>3 DEF IInv, NoAnomaly
<1> QED
    BY <1>9, <1>10, <1>11, <1>12, <1>14, <1>15, <1>16 DEF IInv

LEMMA FinalIInv == ASSUME IInv, NEW h \in Handlers, Final(h) PROVE IInv'
<1>1. PICK e : e = hres[h].entry
    OBVIOUS
<1>2. PICK z : z = IF state[e] \in {"ERROR", "RECEIVING"} THEN session[e] ELSE NoSession
    OBVIOUS
<1>3. /\ hpc[h] = "final" /\ mutex[e] = NoOne
      /\ idle' = IF state[e] = "IDLE" THEN Without(idle, e) ELSE idle
      /\ hsession' = [hsession EXCEPT ![h] = z]
      /\ state' = IF state[e] = "SUCCESS" THEN [state EXCEPT ![e] = "CLOSING"] ELSE state
      /\ hpc' = [hpc EXCEPT ![h] = IF state[e] = "SUCCESS" THEN "get" ELSE "end"]
      /\ hres' = IF state[e] = "SUCCESS" THEN [hres EXCEPT ![h] = NoResult] ELSE hres
      /\ anomalies' = IF state[e] = "IDLE" /\ ~OnIdleList(e)
                      THEN anomalies \cup {"list_del twice"} ELSE anomalies
    BY <1>1, <1>2 DEF Final, SessionToEnd, Anomaly
<1>4. /\ UNCHANGED <<ref, session, mutex, timeout, node, message, written, ppc, pentry>>
      /\ UNCHANGED <<psolicited, queue, cpc, csession, centry, stopFlag>>
      /\ UNCHANGED <<accepted, handled, closed, stuck>>
    BY DEF Final, pollVars, callVars
<1>5. /\ e \in Entries /\ EntryInv(e) /\ HLife(h, e) /\ Life(e)
      /\ hres[h] \in Results /\ hres[h].op = "READ" /\ ~IsReply(hres[h])
    BY <1>1, <1>3, Handling DEF HLife, Life, IInv, HandlerInv
<1>6. /\ node[e] = "none" /\ ~QLife(e) /\ ~HDone(h, e)
      /\ \A g \in Handlers \ {h} : ~HLife(g, e) /\ ~HDone(g, e)
    BY <1>3, <1>5 DEF EntryInv, OneLife, HDone
<1>7. /\ state[e] # "NEW" /\ session[e] \in Sessions /\ ~Leaked(e)
      /\ Pend(e) <=> state[e] = "SUCCESS"
      /\ state[e] # "IDLE" => ~OnIdleList(e)
      /\ state[e] = "IDLE" /\ ~OnIdleList(e) => session[e] \in stuck
    <2>1. state[e] # "NEW" /\ session[e] \in Sessions /\ (Pend(e) <=> state[e] = "SUCCESS")
        BY <1>5 DEF EntryInv, StateRight
    <2> QED
        BY <1>3, <1>5, <2>1 DEF EntryInv, Counted, Locked
<1>8. /\ hpc'[h] = IF state[e] = "SUCCESS" THEN "get" ELSE "end"
      /\ hres'[h] = IF state[e] = "SUCCESS" THEN NoResult ELSE hres[h]
      /\ hsession'[h] = z
      /\ \A g \in Handlers \ {h} : /\ hpc'[g] = hpc[g] /\ hres'[g] = hres[g]
                                   /\ hsession'[g] = hsession[g]
      /\ state'[e] = IF state[e] = "SUCCESS" THEN "CLOSING" ELSE state[e]
      /\ \A f \in Entries \ {e} : state'[f] = state[f]
    BY <1>3, <1>5 DEF IInv, TypeOK
<1>9. /\ idle' \in Seq(Entries) /\ IdleDistinct'
      /\ \A f : OnIdleList(f)' <=> OnIdleList(f) /\ f # e
    <2>1. CASE state[e] = "IDLE"
        BY <1>3, <2>1, Unlisted DEF IInv, TypeOK
    <2>2. CASE state[e] # "IDLE"
        BY <1>3, <1>7, <2>2, IdleKept DEF IInv, TypeOK
    <2> QED
        BY <2>1, <2>2
<1>10. TypeOK'
    BY <1>2, <1>3, <1>4, <1>7, <1>9 DEF IInv, TypeOK
<1>11. /\ \A f \in Entries \ {e} : EntryInv(f)' /\ (Owes(f)' <=> Owes(f))
       /\ \A g \in Handlers \ {h} : SameHeld(g, e) /\ HandlerInv(g)'
       /\ SameQueued(e) /\ QueuedOnce' /\ PollerInv'
       /\ \A c \in Callers : CallerInv(c)'
    <2>1. hres'[h] \in {hres[h], NoResult}
        BY <1>8
    <2> QED
        BY <1>1, <1>4, <1>5, <1>8, <1>9, <2>1, OthersKept
<1>12. /\ HandlerInv(h)'
       /\ ~HReply(h, e) /\ ~HReply(h, e)' /\ ~HReplied(h, e) /\ ~HReplied(h, e)'
       /\ HDone(h, e)' <=> state[e] # "SUCCESS"
       /\ ~HSend(h, e)' /\ ~HLife(h, e)' /\ ~HConnect(h, e)'
    <2>1. hres[h] # NoResult /\ NoResult.entry # e
        BY <1>1, <1>5, CommunicatorAssumption DEF NoResult, Result
    <2>2. ~HReply(h, e) /\ ~HReplied(h, e)
        BY <1>3 DEF HReply, HReplied
    <2>3. CASE state[e] = "SUCCESS"
        BY <1>8, <2>1, <2>2, <2>3 DEF HandlerInv, HReply, HReplied, HDone, HSend, HLife, HConnect
    <2>4. CASE state[e] # "SUCCESS"
        BY <1>1, <1>5, <1>8, <2>1, <2>2, <2>4
           DEF HandlerInv, HReply, HReplied, HDone, HSend, HLife, HConnect
    <2> QED
        BY <2>3, <2>4
<1>13. /\ ~Life(e)'
       /\ Done(e)' <=> state[e] # "SUCCESS"
       /\ Pend(e)' <=> Pend(e)
       /\ Replied(e)' = Replied(e)
    <2>1. ~Life(e)'
        BY <1>4, <1>6, <1>11, <1>12 DEF Life, SameHeld, SameQueued
    <2>2. Replied(e)' = Replied(e)
        BY <1>11, <1>12 DEF Replied, SameHeld
    <2>3. Pend(e)' <=> Pend(e)
        BY <1>11, <1>12 DEF Pend, SameHeld, SameQueued
    <2>4. Done(e)' <=> state[e] # "SUCCESS"
        BY <1>6, <1>11, <1>12 DEF Done, SameHeld
    <2> QED
        BY <2>1, <2>2, <2>3, <2>4
<1>14. EntryInv(e)'
    <2>1. OneLife(e)' /\ OneReply(e)'
        BY <1>4, <1>5, <1>6, <1>11, <1>12
           DEF EntryInv, OneLife, OneReply, SameHeld, SameQueued
    <2>2. StateRight(e)'
        <3>1. \A g \in Handlers : /\ HSend(g, e)' => HSend(g, e)
                                  /\ HConnect(g, e)' => HConnect(g, e)
                                  /\ HReplied(g, e)' <=> HReplied(g, e)
            BY <1>11, <1>12 DEF SameHeld
        <3>2. QConnect(e)' <=> QConnect(e)
            BY <1>11 DEF SameQueued
        <3>3. state[e] = "SUCCESS" =>
                  /\ node[e] # "connect" /\ ~QConnect(e)
                  /\ \A g \in Handlers : ~HSend(g, e) /\ ~HConnect(g, e)
            BY <1>5 DEF EntryInv, StateRight
        <3>4. CASE state[e] = "SUCCESS"
            BY <1>4, <1>7, <1>8, <1>13, <3>1, <3>2, <3>3, <3>4 DEF StateRight
        <3>5. CASE state[e] # "SUCCESS"
            BY <1>4, <1>5, <1>7, <1>8, <1>13, <3>1, <3>2, <3>5 DEF EntryInv, StateRight
        <3> QED
            BY <3>4, <3>5
    <2>3. Holding(e) /\ Holding(e)' /\ ~Leaked(e)'
        BY <1>4, <1>5, <1>7, <1>8, <1>13 DEF Holding, Leaked
    <2>4. Counted(e)'
        BY <1>4, <1>5, <1>7, <1>8, <1>13, <2>3, CountedKept DEF EntryInv
    <2>5. Locked(e)'
        BY <1>3, <1>4, <1>9, <1>13 DEF Locked
    <2>6. Reading(e)'
        BY <1>3, <1>4, <1>5, <1>6, <1>8 DEF EntryInv, Reading
    <2> QED
        BY <2>1, <2>2, <2>4, <2>5, <2>6 DEF EntryInv
<1>15. SessionsOnce'
    <2>1. \A g \in Handlers \ {h} : \A y \in Sessions : Ending(g, y)' => Ending(g, y)
        BY <1>8 DEF Ending
    <2>2. NoSession \notin Sessions /\ SessionsOnce /\ \A f \in Entries \ {e} : Owes(f)' => Owes(f)
        BY <1>11, CommunicatorAssumption DEF IInv
    <2>3. CASE state[e] \in {"ERROR", "RECEIVING"}
        <3>1. Owes(e) /\ ~Owes(e)'
            BY <1>3, <1>4, <1>5, <1>7, <1>13, <2>3 DEF Owes
        <3>2. hsession'[h] = session[e]
            BY <1>2, <1>8, <2>3
        <3> QED
            BY <1>4, <1>5, <1>7, <2>1, <2>2, <3>1, <3>2, SessionLeft
    <2>4. CASE state[e] \notin {"ERROR", "RECEIVING"}
        <3>1. Owes(e)' => Owes(e)
            BY <1>3, <1>4, <1>13 DEF Owes
        <3>2. \A y \in Sessions : ~Ending(h, y)'
            BY <1>2, <1>8, <2>2, <2>4 DEF Ending
        <3> QED
            BY <1>4, <2>1, <2>2, <3>1, <3>2, SessionsKept
    <2> QED
        BY <2>3, <2>4
<1>16. NoAnomaly'
    BY <1>3, <1>4, <1>7 DEF IInv, NoAnomaly
<1> QED
    BY <1>9, <1>10, <1>11, <1>12, <1>14, <1>15, <1>16 DEF IInv

LEMMA UnrefIInv == ASSUME IInv, NEW h \in Handlers, Unref(h) PROVE IInv'
<1>1. PICK e : e = hres[h].entry
    OBVIOUS
<1>2. /\ hpc[h] = "callback"
      /\ ref' = [ref EXCEPT ![e] = @ - 1]
      /\ closed' = IF ref[e] = 1 \/ hres[h].op = "CONNECT"
                   THEN [closed EXCEPT ![e] = @ + 1] ELSE closed
      /\ hpc' = [hpc EXCEPT ![h] = "get"]
      /\ hres' = [hres EXCEPT ![h] = NoResult]
      /\ hsession' = [hsession EXCEPT ![h] = NoSession]
      /\ UNCHANGED <<state, session, mutex, idle, timeout, node, message, written, ppc, pentry>>
      /\ UNCHANGED <<psolicited, queue, cpc, csession, centry, stopFlag>>
      /\ UNCHANGED <<accepted, handled, stuck, anomalies>>
    BY <1>1 DEF Unref, pollVars, callVars
<1>3. /\ e \in Entries /\ EntryInv(e) /\ hres[h] \in Results
      /\ HReplied(h, e) <=> IsReply(hres[h])
      /\ HDone(h, e) <=> ~IsReply(hres[h])
    BY <1>1, <1>2, Handling DEF HReplied, HDone
<1>4. /\ hpc'[h] = "get" /\ hres'[h] = NoResult
      /\ \A g \in Handlers \ {h} : /\ hpc'[g] = hpc[g] /\ hres'[g] = hres[g]
                                   /\ hsession'[g] = hsession[g]
    BY <1>2 DEF IInv, TypeOK
<1>5. (\A f : OnIdleList(f)' <=> OnIdleList(f)) /\ IdleDistinct'
    BY <1>2, IdleKept DEF IInv
<1>6. \A f \in Entries \ {e} : ref'[f] = ref[f] /\ closed'[f] = closed[f]
    BY <1>2, <1>3 DEF IInv, TypeOK
<1>7. /\ \A f \in Entries \ {e} : EntryInv(f)' /\ (Owes(f)' <=> Owes(f))
      /\ \A g \in Handlers \ {h} : SameHeld(g, e) /\ HandlerInv(g)'
      /\ SameQueued(e) /\ QueuedOnce' /\ PollerInv'
      /\ \A c \in Callers : CallerInv(c)'
    BY <1>1, <1>2, <1>3, <1>4, <1>5, <1>6, OthersKept
<1>8. /\ HandlerInv(h)'
      /\ ~HReply(h, e) /\ ~HReply(h, e)' /\ ~HReplied(h, e)' /\ ~HDone(h, e)'
      /\ ~HSend(h, e)' /\ ~HLife(h, e) /\ ~HLife(h, e)' /\ ~HConnect(h, e)'
    <2>1. NoResult.entry # e
        BY <1>3, CommunicatorAssumption DEF NoResult, Result
    <2> QED
        BY <1>2, <1>4, <2>1
           DEF HandlerInv, HReply, HReplied, HDone, HSend, HLife, HConnect
<1>9. /\ Life(e)' <=> Life(e)
      /\ Pend(e)' <=> Pend(e)
      /\ Replied(e)' = Replied(e) \ {h}
      /\ \A g \in Handlers : HDone(g, e)' <=> HDone(g, e) /\ g # h
    <2>1. (Life(e)' <=> Life(e)) /\ (Pend(e)' <=> Pend(e))
        BY <1>2, <1>7, <1>8 DEF Life, Pend, SameHeld, SameQueued
    <2>2. Replied(e)' = Replied(e) \ {h}
        BY <1>7, <1>8 DEF Replied, SameHeld
    <2>3. \A g \in Handlers : HDone(g, e)' <=> HDone(g, e) /\ g # h
        BY <1>7, <1>8 DEF SameHeld
    <2> QED
        BY <2>1, <2>2, <2>3
<1>10. /\ Cardinality(Replied(e)) \in Nat /\ ~Leaked(e)' /\ state[e] # "NEW"
       /\ ref[e] = Cardinality(Replied(e)) + (IF Holding(e) THEN 1 ELSE 0)
       /\ ref[e] - 1 = Cardinality(Replied(e)') + (IF Holding(e)' THEN 1 ELSE 0)
       /\ Cardinality(Replied(e)') \in Nat
       /\ hres[h].op = "CONNECT" => ref[e] = 1
    <2>1. /\ IsFiniteSet(Replied(e)) /\ Cardinality(Replied(e)) \in Nat
          /\ ref[e] = Cardinality(Replied(e)) + (IF Holding(e) THEN 1 ELSE 0)
        BY <1>3, RepliedFinite DEF EntryInv, Counted
    <2>2. CASE IsReply(hres[h])
        <3>1. HReplied(h, e) /\ ~HDone(h, e) /\ h \in Replied(e) /\ hres[h].op # "CONNECT"
            BY <1>3, <2>2 DEF Replied, IsReply
        <3>2. Done(e)' <=> Done(e)
            BY <1>9, <3>1 DEF Done
        <3>3. state[e] \notin {"NEW", "CONNECTING"}
            BY <1>3, <3>1 DEF EntryInv, StateRight
        <3>4. (Holding(e)' <=> Holding(e)) /\ ~Leaked(e)'
            BY <1>2, <1>9, <3>2, <3>3 DEF Holding, Leaked
        <3>5. Cardinality(Replied(e)') = Cardinality(Replied(e)) - 1
            BY <1>9, <2>1, <3>1, FS_RemoveElement
        <3>6. Cardinality(Replied(e)) # 0
            BY <2>1, <3>1, FS_EmptySet
        <3> QED
            BY <2>1, <3>1, <3>3, <3>4, <3>5, <3>6
    <2>3. CASE ~IsReply(hres[h])
        <3>1. HDone(h, e) /\ ~HReplied(h, e) /\ Done(e)
            BY <1>3, <2>3 DEF Done
        <3>2. ~Done(e)' /\ ~Life(e)
            BY <1>3, <1>8, <1>9, <3>1 DEF Done, Life, EntryInv, OneLife
        <3>3. ~Pend(e) /\ ~Leaked(e) /\ state[e] # "NEW"
            BY <1>3, <3>1, <3>2 DEF EntryInv, StateRight, Counted
        <3>4. Holding(e) /\ ~Holding(e)' /\ ~Leaked(e)'
            BY <1>2, <1>9, <3>1, <3>2, <3>3 DEF Holding, Leaked
        <3>5. Replied(e)' = Replied(e)
            BY <1>9, <3>1 DEF Replied
        <3>6. hres[h].op = "CONNECT" => Replied(e) = {}
            <4>1. hres[h].op = "CONNECT" => HConnect(h, e)
                BY <1>1, <1>2 DEF HConnect
            <4> QED
                BY <1>3, <4>1 DEF EntryInv, StateRight, Replied
        <3> QED
            BY <2>1, <3>3, <3>4, <3>5, <3>6, FS_EmptySet
    <2> QED
        BY <2>2, <2>3
<1>11. /\ ref'[e] = ref[e] - 1 /\ ref[e] # 0 /\ closed[e] = 0
       /\ closed'[e] = IF ref[e] = 1 THEN 1 ELSE 0
    <2>1. ref[e] # 0 /\ ref[e] \in Nat
        BY <1>3, <1>10 DEF IInv, TypeOK
    <2>2. closed[e] = 0
        BY <1>3, <2>1 DEF EntryInv, Counted
    <2> QED
        BY <1>2, <1>3, <1>10, <2>1, <2>2 DEF IInv, TypeOK
<1>12. TypeOK'
    <2>1. ref' \in [Entries -> Nat] /\ closed' \in [Entries -> Nat]
        BY <1>2, <1>3, <1>11 DEF IInv, TypeOK
    <2> QED
        BY <1>2, <2>1 DEF IInv, TypeOK
<1>13. EntryInv(e)'
    <2>1. OneLife(e)' /\ OneReply(e)'
        BY <1>2, <1>3, <1>7, <1>8, <1>9
           DEF EntryInv, OneLife, OneReply, SameHeld, SameQueued
    <2>2. StateRight(e)'
        <3>1. \A g \in Handlers : /\ HSend(g, e)' => HSend(g, e)
                                  /\ HConnect(g, e)' => HConnect(g, e)
                                  /\ HReplied(g, e)' => HReplied(g, e)
            BY <1>7, <1>8 DEF SameHeld
        <3>2. QConnect(e)' <=> QConnect(e)
            BY <1>7 DEF SameQueued
        <3>3. Done(e)' => Done(e)
            BY <1>9 DEF Done
        <3> QED
            BY <1>2, <1>3, <1>9, <3>1, <3>2, <3>3 DEF EntryInv, StateRight
    <2>3. Counted(e)'
        <3>1. ref'[e] = 0 <=> ref[e] = 1
            BY <1>3, <1>11 DEF IInv, TypeOK
        <3> QED
            BY <1>2, <1>10, <1>11, <3>1 DEF Counted
    <2>4. Locked(e)'
        BY <1>2, <1>3, <1>5, <1>9 DEF EntryInv, Locked
    <2>5. Reading(e)'
        BY <1>2, <1>3 DEF EntryInv, Reading
    <2> QED
        BY <2>1, <2>2, <2>3, <2>4, <2>5 DEF EntryInv
<1>14. SessionsOnce'
    <2>1. Owes(e)' => Owes(e)
        BY <1>2, <1>9 DEF Owes
    <2>2. \A g \in Handlers, z \in Sessions : Ending(g, z)' => Ending(g, z)
        BY <1>4 DEF Ending
    <2> QED
        BY <1>2, <1>7, <2>1, <2>2, SessionsKept DEF IInv
<1>15. NoAnomaly'
    BY <1>2 DEF IInv, NoAnomaly
<1> QED
    BY <1>5, <1>7, <1>8, <1>12, <1>13, <1>14, <1>15 DEF IInv

-----------------------------------------------------------------------------
(* The rest.                                                               *)

LEMMA QuietIInv ==
    ASSUME IInv, UNCHANGED <<entryVars, pollVars, queue, handVars, callVars, histVars>>,
           stopFlag => stopFlag'
    PROVE  IInv'
<1>1. /\ UNCHANGED <<state, ref, session, mutex, idle, timeout, node, message, written, ppc>>
      /\ UNCHANGED <<pentry, psolicited, queue, hpc, hres, hsession, cpc, csession, centry>>
      /\ UNCHANGED <<accepted, handled, closed, stuck, anomalies>>
    BY DEF entryVars, pollVars, handVars, callVars, histVars
<1>2. TypeOK'
    BY <1>1 DEF IInv, TypeOK
<1>3. (\A e : SameResults(e)) /\ QueuedOnce' /\ \A h \in Handlers : HandlerInv(h)'
    BY <1>1, ResultsKept DEF IInv
<1>4. (\A f : OnIdleList(f)' <=> OnIdleList(f)) /\ IdleDistinct'
    BY <1>1, IdleKept DEF IInv
<1>5. ASSUME NEW e \in Entries PROVE EntryInv(e)' /\ (Owes(e)' => Owes(e))
    <2>1. SameFields(e) /\ SameUsers(e)
        BY <1>1, <1>4 DEF SameFields, SameUsers
    <2> QED
        BY <1>1, <1>3, <2>1, Untouched, SameOwes DEF IInv
<1>6. SessionsOnce'
    BY <1>1, <1>5, SessionsKept DEF IInv, Ending
<1>7. PollerInv' /\ NoAnomaly' /\ \A c \in Callers : CallerInv(c)'
    BY <1>1 DEF IInv, PollerInv, NoAnomaly, CallerInv
<1> QED
    BY <1>2, <1>3, <1>4, <1>5, <1>6, <1>7 DEF IInv

LEMMA InitIInv == Init => IInv
<1> SUFFICES ASSUME Init PROVE IInv
    OBVIOUS
<1>1. NoResult.entry = NoEntry /\ NoEntry \notin Entries /\ NoSession \notin Sessions
      /\ NoOne \notin Callers
    BY CommunicatorAssumption DEF NoResult, Result, Callers
<1>2. TypeOK
    <2>1. queue \in Seq(Results) /\ idle \in Seq(Entries)
        BY DEF Init
    <2>2. /\ hres \in [Handlers -> Results \cup {NoResult}]
          /\ hsession \in [Handlers -> Sessions \cup {NoSession}]
          /\ hpc \in [Handlers -> {"get", "send", "add", "stop?", "abort", "reply",
                                  "final", "end", "callback"}]
        BY DEF Init
    <2>3. /\ cpc \in [Callers -> {"idle", "write", "all", "error", "partial"}]
          /\ csession \in [Callers -> Sessions \cup {NoSession}]
          /\ centry \in [Callers -> Entries \cup {NoEntry}]
        BY DEF Init
    <2>4. accepted \subseteq Sessions /\ stuck \subseteq accepted
        BY DEF Init
    <2> QED
        BY <2>1, <2>2, <2>3, <2>4 DEF Init, TypeOK
<1>3. \A h \in Handlers : hpc[h] = "get" /\ hres[h] = NoResult /\ HandlerInv(h)
    BY DEF Init, HandlerInv
<1>4. \A h \in Handlers : \A e \in Entries :
          /\ ~HLife(h, e) /\ ~HDone(h, e) /\ ~HReply(h, e) /\ ~HReplied(h, e)
          /\ ~HConnect(h, e) /\ ~HSend(h, e)
    BY <1>1, <1>3 DEF HLife, HDone, HReply, HReplied, HConnect, HSend
<1>5. DOMAIN queue = {} /\ DOMAIN idle = {}
    BY DEF Init
<1>6. QueuedOnce /\ IdleDistinct /\ \A e : ~QLife(e) /\ ~QReply(e) /\ ~QConnect(e) /\ ~OnIdleList(e)
    BY <1>5 DEF QueuedOnce, IdleDistinct, QLife, QReply, QConnect, OnIdleList
<1>7. \A e \in Entries :
          /\ state[e] = "NEW" /\ ref[e] = 0 /\ session[e] = NoSession /\ mutex[e] = NoOne
          /\ node[e] = "none" /\ ~written[e] /\ ~message[e] /\ closed[e] = 0
    BY DEF Init
<1>8. \A e \in Entries : ~Life(e) /\ ~Done(e) /\ ~Pend(e) /\ Replied(e) = {} /\ ~Leaked(e)
    BY <1>4, <1>6, <1>7 DEF Life, Done, Pend, Replied, Leaked
<1>9. ASSUME NEW e \in Entries PROVE EntryInv(e) /\ ~Owes(e)
    <2>1. OneLife(e) /\ OneReply(e) /\ StateRight(e)
        BY <1>4, <1>6, <1>7, <1>8 DEF OneLife, OneReply, StateRight
    <2>2. Counted(e)
        BY <1>7, <1>8, FS_EmptySet DEF Counted, Holding
    <2>3. Locked(e)
        BY <1>6, <1>7 DEF Locked
    <2>4. Reading(e)
        BY <1>1, <1>7 DEF Reading, Init
    <2> QED
        BY <1>7, <1>8, <2>1, <2>2, <2>3, <2>4 DEF EntryInv, Owes
<1>10. SessionsOnce
    <2>1. \A h \in Handlers, s \in Sessions : ~Ending(h, s)
        BY <1>3 DEF Ending
    <2> QED
        BY <1>7, <1>9, <2>1 DEF SessionsOnce, Init
<1>11. PollerInv /\ NoAnomaly /\ \A c \in Callers : CallerInv(c)
    BY DEF Init, PollerInv, NoAnomaly, CallerInv
<1> QED
    BY <1>2, <1>3, <1>6, <1>9, <1>10, <1>11 DEF IInv

LEMMA CallerIInv ==
    ASSUME IInv, NEW c \in Callers, CallerStep(c)
    PROVE  IInv'
BY RequestWritesIInv, RequestSentIInv, RequestSendFailsIInv, RequestPartlySentIInv, Zenon
   DEF CallerStep

LEMMA HandlerStepIInv ==
    ASSUME IInv, NEW h \in Handlers, HandlerStep(h)
    PROVE  IInv'
BY GetIInv, AddReadIInv, DelIfStoppingIInv, AbortIInv, ReplyIInv, FinalIInv, EndSessionIInv,
   UnrefIInv, SendFirstIInv, Zenon
   DEF HandlerStep

LEMMA PollerStepIInv == ASSUME IInv, PollerStep PROVE IInv'
BY BarrierIInv, CreateMessageIInv, AppendFailsIInv, AppendContinuesIInv, AppendCompletesIInv,
   Zenon
   DEF PollerStep

LEMMA NextIInv == IInv /\ [Next]_vars => IInv'
<1> SUFFICES ASSUME IInv, [Next]_vars PROVE IInv'
    OBVIOUS
<1>1. ASSUME NEW c \in Callers,
             \/ CallerStep(c)
             \/ \E s \in Sessions :
                    RequestIdle(c, s) \/ \E e \in Entries : RequestConnects(c, s, e)
      PROVE  IInv'
    BY <1>1, CallerIInv, RequestIdleIInv, RequestConnectsIInv, Zenon
<1>2. ASSUME NEW h \in Handlers, HandlerStep(h) PROVE IInv'
    BY <1>2, HandlerStepIInv
<1>3. CASE PollerStep
    BY <1>3, PollerStepIInv
<1>4. ASSUME NEW e \in Entries, PollerEvent(e) \/ PollRead(e) PROVE IInv'
    BY <1>4, PollerEventIInv, PollReadIInv
<1>5. CASE Deinit
    BY <1>5, QuietIInv DEF Deinit
<1>6. CASE UNCHANGED vars
    BY <1>6, QuietIInv DEF vars
<1> QED
    BY <1>1, <1>2, <1>3, <1>4, <1>5, <1>6 DEF Next

-----------------------------------------------------------------------------
(* The theorems.                                                           *)

(***************************************************************************)
(* The inductive invariant: whatever the callers, the poller thread and    *)
(* the handlers do to a connection and in which order, there is at most    *)
(* one result or node that will end it and at most one reply not handled   *)
(* yet, its state tells which, its reference count is the number of those  *)
(* who use it, and the session it owes is owed by nobody else.             *)
(***************************************************************************)
THEOREM CommunicatorInductive == Spec => []IInv
<1>1. Init => IInv
    BY InitIInv
<1>2. IInv /\ [Next]_vars => IInv'
    BY NextIInv
<1> QED
    BY <1>1, <1>2, PTL DEF Spec

(***************************************************************************)
(* handle() and target->release() are called at most once for a session,   *)
(* although the reply and the end of its connection are handled by two     *)
(* threads (handle_incoming_reply), and a failed connect by a third path   *)
(* (handle_connect_result).                                                *)
(***************************************************************************)
THEOREM SessionHandledOnce == Spec => []HandledAtMostOnce
<1>1. IInv => HandledAtMostOnce
    BY DEF IInv, SessionsOnce, HandledAtMostOnce
<1> QED
    BY <1>1, CommunicatorInductive, PTL

(***************************************************************************)
(* release_conn frees a connection entry once, when the last of those who  *)
(* could touch it has let it go, and an entry that nobody will touch again *)
(* is freed, except for the one whose first message was partly written.    *)
(***************************************************************************)
THEOREM EntryFreedOnce == Spec => []FreedWhenUnused
<1>1. ASSUME IInv, NEW e \in Entries
      PROVE  /\ closed[e] <= 1
             /\ closed[e] = 1 => ~Used(e)
             /\ Used(e) \/ state[e] = "NEW" \/ closed[e] = 1 \/ session[e] \in stuck
    <2>1. EntryInv(e) /\ IsFiniteSet(Replied(e)) /\ Cardinality(Replied(e)) \in Nat
        BY <1>1, RepliedFinite DEF IInv
    <2>2. closed[e] = IF state[e] # "NEW" /\ ref[e] = 0 THEN 1 ELSE 0
        BY <2>1 DEF EntryInv, Counted
    <2>3. ASSUME Used(e) PROVE ref[e] # 0
        <3>1. OnIdleList(e) \/ mutex[e] # NoOne => Life(e)
            BY <2>1 DEF EntryInv, Locked
        <3>2. pentry = e => Life(e)
            BY <2>1 DEF EntryInv, Reading, Life
        <3>3. (\E c \in Callers : centry[c] = e) => mutex[e] # NoOne
            BY <1>1, CommunicatorAssumption DEF IInv, CallerInv, Callers
        <3>4. (\E i \in DOMAIN queue : queue[i].entry = e) => Life(e) \/ Pend(e)
            BY DEF Life, Pend, QLife, QReply
        <3>5. ASSUME NEW h \in Handlers, hpc[h] # "stop?", hres[h].entry = e
              PROVE  HLife(h, e) \/ HDone(h, e) \/ HReply(h, e) \/ HReplied(h, e)
            <4>1. hpc[h] \in {"get", "send", "add", "stop?", "abort", "reply", "final", "end",
                              "callback"}
                BY <1>1 DEF IInv, TypeOK
            <4>2. hpc[h] # "get"
                BY <1>1, <3>5, CommunicatorAssumption DEF IInv, HandlerInv, NoResult, Result
            <4> QED
                BY <3>5, <4>1, <4>2 DEF HLife, HDone, HReply, HReplied
        <3>6. (\E h \in Handlers : hpc[h] # "stop?" /\ hres[h].entry = e) =>
                  Life(e) \/ Done(e) \/ Pend(e) \/ Replied(e) # {}
            BY <3>5 DEF Life, Done, Pend, Replied
        <3>7. node[e] # "none" => Life(e)
            BY DEF Life
        <3>8. Life(e) \/ Done(e) \/ Pend(e) \/ Replied(e) # {}
            BY <2>3, <3>1, <3>2, <3>3, <3>4, <3>6, <3>7 DEF Used
        <3>9. Holding(e) \/ Replied(e) # {}
            BY <2>1, <3>8 DEF Holding, EntryInv, StateRight
        <3> QED
            BY <2>1, <3>9, FS_EmptySet DEF EntryInv, Counted
    <2>4. ASSUME ~Used(e), session[e] \notin stuck PROVE ref[e] = 0
        <3>1. ~Life(e) /\ ~Done(e) /\ ~Pend(e) /\ Replied(e) = {}
            BY <2>4 DEF Used, Life, Done, Pend, Replied, QLife, QReply, HLife, HDone, HReply,
                        HReplied
        <3>2. ~Holding(e)
            BY <2>4, <3>1 DEF Holding, Leaked
        <3> QED
            BY <2>1, <3>1, <3>2, FS_EmptySet DEF EntryInv, Counted
    <2> QED
        BY <2>2, <2>3, <2>4
<1>2. IInv => FreedWhenUnused
    BY <1>1 DEF FreedWhenUnused
<1> QED
    BY <1>2, CommunicatorInductive, PTL

(***************************************************************************)
(* The idle list has every connection at most once, and only ones in state *)
(* IDLE that no request has taken; the list_del of handle_incoming_reply   *)
(* finds its entry on the list, as long as no message was partly written.  *)
(***************************************************************************)
THEOREM IdleListStaysSound == Spec => []IdleListSound
<1>1. IInv => IdleListSound
    BY DEF IInv, IdleListSound, IdleDistinct, EntryInv, Locked, NoAnomaly
<1> QED
    BY <1>1, CommunicatorInductive, PTL

(***************************************************************************)
(* create_message never refuses the reply to a request sent on an idle     *)
(* connection, however early it arrives, and until deinit append finds the *)
(* connection in the poller when it sets the next timer.                   *)
(***************************************************************************)
THEOREM RepliesUndisturbed == Spec => []ReplyUndisturbed
<1>1. IInv => ReplyUndisturbed
    BY DEF IInv, NoAnomaly, ReplyUndisturbed
<1> QED
    BY <1>1, CommunicatorInductive, PTL
=============================================================================
