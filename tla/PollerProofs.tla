---------------------------- MODULE PollerProofs ----------------------------
(***************************************************************************)
(* Proofs about the two parts of kernel/poller.c, Poller and PollerQueue.  *)
(*                                                                         *)
(* Poller, for any number of nodes and descriptors and any size of a       *)
(* batch: where a node that was added can be, and when it is handed out a  *)
(* second time.                                                            *)
(*                                                                         *)
(* The thread removes a node without looking at poller->nodes: it trusts   *)
(* that a node that is not marked removed is still there.  The invariant   *)
(* says when it may: the node was not handed out, and nobody was handed    *)
(* out twice on its descriptor; and it says what else can happen to a node *)
(* whose event is waiting, namely its timeout.                             *)
(*                                                                         *)
(* PollerQueue, for any number of pollers, handler threads and results:    *)
(* the two lists are one FIFO.                                             *)
(***************************************************************************)
EXTENDS Poller, PollerQueue, FiniteSetTheorems, SequenceTheorems, TLAPS

InPipe(n) == \E i \in DOMAIN pipe : pipe[i] = n

(* A descriptor and its node know each other.                              *)
NodesAgree == \A f \in Fds : nodes[f] # NoNode => fd[nodes[f]] = f

(* A node was handed out twice on this descriptor, and has cleared an      *)
(* entry that was not its own.                                             *)
Spoiled(f) == \E m \in Nodes : fd[m] = f /\ HandedOutTwice(m)

(* A node that was never added is nowhere, and one that was is in one      *)
(* place, unless its descriptor is spoiled.                                *)
InOnePlace(n) ==
    /\ fd[n] = NoNode => results[n] = <<>> /\ ~InPipe(n)
    /\ fd[n] # NoNode =>
           results[n] # <<>> \/ InPipe(n) \/ n \in Active \/ Spoiled(fd[n])
    /\ ~(InPipe(n) /\ n \in Active)
    /\ results[n] # <<>> => ~InPipe(n) /\ n \notin Active
    /\ \/ Len(results[n]) <= 1
       \/ HandedOutTwice(n) /\ n \notin removed /\ EventsMax > 1

OnePlace == \A n \in Nodes : InOnePlace(n)

(* The pipe holds a pointer once.                                          *)
SentOnce ==
    \A i, j \in DOMAIN pipe : pipe[i] = pipe[j] /\ pipe[i] \in Nodes => i = j

(* What removed and the timeouts tell of a node.                           *)
MarksRight ==
    /\ \A n \in Nodes : InPipe(n) => n \in removed
    /\ \A n \in removed : fd[n] # NoNode /\ n \notin Active
    /\ \A n \in timed : fd[n] # NoNode /\ results[n] = <<>> /\ n \notin removed

(* What may have happened to a node whose event is waiting.                *)
Untouched(n) ==
    \/ n \in removed
    \/ results[n] = <<>>
    \/ results[n] = <<"TIMEDOUT">> /\ EventsMax > 1

(* The batch is of different nodes that were added, and those whose events *)
(* are not handled yet are at most timed out, or deleted.                  *)
BatchSound ==
    /\ tpc \in {"event", "remove", "handled", "timeouts"} => events # <<>>
    /\ tpc = "remove" => Head(events) \in Nodes
    /\ EventsMax > 1 \/ Len(events) <= 1
    /\ \A i, j \in DOMAIN events : events[i] = events[j] => i = j
    /\ \A i \in DOMAIN events :
           events[i] \in Nodes =>
               /\ fd[events[i]] # NoNode
               /\ i > 1 \/ tpc \in {"event", "remove"} => Untouched(events[i])

IInv == TypeOK /\ NodesAgree /\ OnePlace /\ SentOnce /\ MarksRight /\ BatchSound

-----------------------------------------------------------------------------
(* The invariant holds before the first poller_add.                        *)
LEMMA InitIInv == Init => IInv
<1> SUFFICES ASSUME Init PROVE IInv
    OBVIOUS
<1>1. TypeOK
    BY EmptySeq DEF Init, TypeOK
<1>2. Active = {} /\ \A n \in Nodes : ~InPipe(n)
    BY PollerAssumption DEF Init, Active, InPipe
<1>3. \A n \in Nodes : results[n] = <<>> /\ Len(results[n]) = 0
    BY EmptySeq DEF Init
<1>4. OnePlace
    BY <1>2, <1>3 DEF Init, OnePlace, InOnePlace
<1>5. BatchSound
    BY EmptySeq DEF Init, BatchSound
<1> QED
    BY <1>1, <1>2, <1>4, <1>5 DEF Init, IInv, NodesAgree, SentOnce, MarksRight

(* A spoiled descriptor stays spoiled.                                     *)
LEMMA SpoiledKept ==
    ASSUME \A m \in Nodes : HandedOutTwice(m) => fd'[m] = fd[m] /\ results'[m] = results[m]
    PROVE  \A f : Spoiled(f) => Spoiled(f)'
BY DEF Spoiled, HandedOutTwice

(* A node that a step does not concern stays where it is.                  *)
LEMMA PlaceKept ==
    ASSUME IInv, NEW n \in Nodes,
           fd'[n] = fd[n], results'[n] = results[n], n \in removed' <=> n \in removed,
           InPipe(n)' <=> InPipe(n), n \in Active' => n \in Active,
           n \in Active => n \in Active' \/ Spoiled(fd[n])',
           Spoiled(fd[n]) => Spoiled(fd[n])'
    PROVE  InOnePlace(n)'
<1>1. HandedOutTwice(n)' <=> HandedOutTwice(n)
    BY DEF HandedOutTwice
<1> QED
    BY <1>1 DEF IInv, OnePlace, InOnePlace

(* A node that a step puts in one place.                                   *)
LEMMA PlaceTaken ==
    ASSUME NEW n \in Nodes, fd'[n] # NoNode, Len(results'[n]) <= 1,
           results'[n] # <<>> \/ InPipe(n)' \/ n \in Active',
           ~(InPipe(n)' /\ n \in Active'),
           results'[n] # <<>> => ~InPipe(n)' /\ n \notin Active'
    PROVE  InOnePlace(n)'
BY DEF InOnePlace

(* The batch is sound after a step of another thread, and after a step of  *)
(* the poller thread that hands nothing out.                               *)
LEMMA BatchKept ==
    ASSUME BatchSound, UNCHANGED <<events, results>>, removed \subseteq removed',
           \A n \in Nodes : fd[n] # NoNode => fd'[n] # NoNode,
           tpc' \in {"event", "remove"} => tpc \in {"event", "remove"},
           tpc' \in {"event", "remove", "handled", "timeouts"} => events # <<>>,
           tpc' = "remove" => Head(events) \in Nodes
    PROVE  BatchSound'
<1>1. \A n \in Nodes : Untouched(n) => Untouched(n)'
    BY DEF Untouched
<1> QED
    BY <1>1 DEF BatchSound

(* Steps that only move the thread through its batch.                      *)
LEMMA ThreadMoves ==
    ASSUME IInv, UNCHANGED <<nodes, fd, timed, removed, pipe, results>>,
           TypeOK', BatchSound'
    PROVE  IInv'
<1>1. Active' = Active /\ \A n \in Nodes : InPipe(n)' <=> InPipe(n)
    BY DEF Active, InPipe
<1>2. ASSUME NEW n \in Nodes PROVE InOnePlace(n)'
    <2>1. Spoiled(fd[n]) => Spoiled(fd[n])'
        BY SpoiledKept
    <2> QED
        BY <1>1, <2>1, PlaceKept
<1> QED
    BY <1>1, <1>2 DEF IInv, NodesAgree, OnePlace, SentOnce, MarksRight

LEMMA AddIInv ==
    ASSUME IInv, NEW n \in Nodes, NEW f \in Fds, NEW b \in BOOLEAN, Add(n, f, b)
    PROVE  IInv'
<1>1. TypeOK'
    BY DEF IInv, TypeOK, Add, threadVars, histVars
<1>2. Active' = Active \cup {n} /\ fd[n] = NoNode /\ n \notin Active
    <2>1. NoNode \notin Nodes /\ NoNode \notin Fds
        BY PollerAssumption
    <2>2. \A m \in Nodes : m # n => (m \in Active' <=> m \in Active)
        BY <2>1 DEF IInv, TypeOK, Active, Add
    <2>3. n \in Active' /\ fd[n] = NoNode /\ n \notin Active
        BY <2>1 DEF IInv, TypeOK, Active, Add
    <2> QED
        BY <2>2, <2>3 DEF Active
<1>3. \A m \in Nodes : InPipe(m)' <=> InPipe(m)
    BY DEF InPipe, Add
<1>4. NodesAgree' /\ SentOnce'
    BY PollerAssumption DEF IInv, TypeOK, NodesAgree, SentOnce, Add
<1>5. /\ results[n] = <<>> /\ ~InPipe(n) /\ n \notin removed /\ fd'[n] # NoNode
      /\ \A m \in Nodes \ {n} : fd'[m] = fd[m]
      /\ UNCHANGED <<results, removed, pipe, tpc, events>>
    BY <1>2, PollerAssumption
    DEF IInv, TypeOK, OnePlace, InOnePlace, MarksRight, Add, histVars, threadVars
<1>6. OnePlace'
    <2>1. ASSUME NEW m \in Nodes \ {n} PROVE InOnePlace(m)'
        <3>1. Spoiled(fd[m]) => Spoiled(fd[m])'
            BY <1>5, SpoiledKept DEF HandedOutTwice
        <3> QED
            BY <1>2, <1>3, <1>5, <3>1, PlaceKept
    <2>2. InOnePlace(n)'
        BY <1>2, <1>3, <1>5, EmptySeq DEF InOnePlace
    <2> QED
        BY <2>1, <2>2 DEF OnePlace
<1>7. MarksRight'
    BY <1>2, <1>3, <1>5 DEF IInv, TypeOK, MarksRight, Add
<1>8. BatchSound'
    BY <1>5, BatchKept DEF IInv, BatchSound
<1> QED
    BY <1>1, <1>4, <1>6, <1>7, <1>8 DEF IInv

LEMMA DelIInv ==
    ASSUME IInv, NEW f \in Fds, Del(f)
    PROVE  IInv'
<1> DEFINE n == nodes[f]
<1>1. n \in Nodes /\ n \in Active /\ fd[n] = f /\ NoNode \notin Nodes /\ NoNode \notin Fds
    BY PollerAssumption DEF IInv, TypeOK, NodesAgree, Active, Del
<1>2. TypeOK'
    BY <1>1, AppendProperties DEF IInv, TypeOK, Del, threadVars, histVars
<1>3. Active' = Active \ {n}
    BY <1>1 DEF IInv, TypeOK, NodesAgree, Active, Del
<1>4. /\ pipe \in Seq(Nodes \cup {Stop}) /\ pipe' = Append(pipe, n)
      /\ DOMAIN pipe = 1 .. Len(pipe) /\ DOMAIN pipe' = 1 .. Len(pipe) + 1
      /\ Len(pipe) \in Nat /\ pipe'[Len(pipe) + 1] = n
      /\ \A i \in DOMAIN pipe : pipe'[i] = pipe[i]
    BY <1>1 DEF IInv, TypeOK, Del
<1>5. \A m \in Nodes : InPipe(m)' <=> InPipe(m) \/ m = n
    BY <1>4 DEF InPipe
<1>6. ~InPipe(n) /\ results[n] = <<>>
    BY <1>1 DEF IInv, OnePlace, InOnePlace
<1>7. NodesAgree'
    BY <1>1 DEF IInv, TypeOK, NodesAgree, Del
<1>8. OnePlace'
    <2>1. /\ UNCHANGED <<fd, results>>
          /\ removed' = removed \cup {n}
        BY DEF Del, histVars
    <2>2. ASSUME NEW m \in Nodes \ {n} PROVE InOnePlace(m)'
        <3>1. Spoiled(fd[m]) => Spoiled(fd[m])'
            BY <2>1, SpoiledKept
        <3> QED
            BY <1>3, <1>5, <2>1, <3>1, PlaceKept
    <2>3. ASSUME NEW m \in Nodes, m = n PROVE InOnePlace(m)'
        <3>1. /\ fd'[m] # NoNode /\ results'[m] = <<>> /\ InPipe(m)' /\ m \notin Active'
              /\ Len(results'[m]) <= 1
            BY <1>1, <1>3, <1>5, <1>6, <2>1, <2>3, EmptySeq
        <3> QED
            BY <3>1, PlaceTaken
    <2>4. \A m \in Nodes : InOnePlace(m)'
        BY <2>2, <2>3
    <2> QED
        BY <2>4 DEF OnePlace
<1>9. SentOnce'
    BY <1>4, <1>6 DEF IInv, SentOnce, InPipe
<1>10. MarksRight'
    BY <1>1, <1>3, <1>5 DEF IInv, TypeOK, MarksRight, Del, histVars
<1>11. BatchSound'
    BY BatchKept DEF IInv, BatchSound, Del, threadVars, histVars
<1> QED
    BY <1>2, <1>7, <1>8, <1>9, <1>10, <1>11 DEF IInv

LEMMA SetTimeoutIInv ==
    ASSUME IInv, NEW f \in Fds, NEW b \in BOOLEAN, SetTimeout(f, b)
    PROVE  IInv'
<1>1. nodes[f] \in Nodes /\ nodes[f] \in Active
    BY PollerAssumption DEF IInv, TypeOK, NodesAgree, Active, SetTimeout
<1>2. TypeOK'
    BY <1>1 DEF IInv, TypeOK, SetTimeout, threadVars, histVars
<1>3. Active' = Active /\ \A n \in Nodes : InPipe(n)' <=> InPipe(n)
    BY DEF Active, InPipe, SetTimeout
<1>4. UNCHANGED <<nodes, fd, removed, pipe, results, tpc, events>>
    BY DEF SetTimeout, threadVars, histVars
<1>5. results[nodes[f]] = <<>> /\ nodes[f] \notin removed /\ fd[nodes[f]] # NoNode
    BY <1>1, PollerAssumption DEF IInv, OnePlace, InOnePlace, MarksRight, Active
<1>6. MarksRight'
    BY <1>3, <1>4, <1>5 DEF IInv, MarksRight, SetTimeout
<1>7. BatchSound'
    BY <1>4, BatchKept DEF IInv, BatchSound
<1>8. ASSUME NEW n \in Nodes PROVE InOnePlace(n)'
    <2>1. Spoiled(fd[n]) => Spoiled(fd[n])'
        BY <1>4, SpoiledKept
    <2> QED
        BY <1>3, <1>4, <2>1, PlaceKept
<1> QED
    BY <1>2, <1>4, <1>6, <1>7, <1>8 DEF IInv, NodesAgree, OnePlace, SentOnce

LEMMA StopIInv ==
    ASSUME IInv, SetStopping \/ StopWrites
    PROVE  IInv'
<1>1. CASE SetStopping
    <2>1. TypeOK'
        BY <1>1 DEF IInv, TypeOK, SetStopping, nodeVars, threadVars, histVars
    <2>2. BatchSound'
        BY <1>1, BatchKept DEF IInv, BatchSound, SetStopping, nodeVars, threadVars, histVars
    <2> QED
        BY <1>1, <2>1, <2>2, ThreadMoves DEF SetStopping, nodeVars, histVars
<1>2. CASE StopWrites
    <2>1. TypeOK'
        BY <1>2, AppendProperties DEF IInv, TypeOK, StopWrites, nodeVars, threadVars, histVars
    <2>2. /\ pipe' = Append(pipe, Stop)
          /\ DOMAIN pipe = 1 .. Len(pipe) /\ DOMAIN pipe' = 1 .. Len(pipe) + 1
          /\ Len(pipe) \in Nat /\ pipe'[Len(pipe) + 1] = Stop
          /\ \A i \in DOMAIN pipe : pipe'[i] = pipe[i]
        BY <1>2 DEF IInv, TypeOK, StopWrites
    <2>3. Stop \notin Nodes
        BY PollerAssumption
    <2>4. \A m \in Nodes : InPipe(m)' <=> InPipe(m)
        BY <2>2, <2>3 DEF InPipe
    <2>5. SentOnce'
        BY <2>2, <2>3 DEF IInv, SentOnce
    <2>6. Active' = Active
        BY <1>2 DEF Active, StopWrites, nodeVars
    <2>7. BatchSound'
        BY <1>2, BatchKept DEF IInv, BatchSound, StopWrites, nodeVars, threadVars, histVars
    <2>8. ASSUME NEW n \in Nodes PROVE InOnePlace(n)'
        <3>1. UNCHANGED <<fd, results, removed>>
            BY <1>2 DEF StopWrites, nodeVars, histVars
        <3>2. Spoiled(fd[n]) => Spoiled(fd[n])'
            BY <3>1, SpoiledKept
        <3> QED
            BY <2>4, <2>6, <3>1, <3>2, PlaceKept
    <2> QED
        BY <1>2, <2>1, <2>4, <2>5, <2>6, <2>7, <2>8
        DEF IInv, NodesAgree, OnePlace, MarksRight, StopWrites, nodeVars, histVars
<1> QED
    BY <1>1, <1>2

LEMMA ExpireIInv ==
    ASSUME IInv, NEW n \in Nodes, Expire(n)
    PROVE  IInv'
<1>1. TypeOK'
    BY DEF IInv, TypeOK, Expire, threadVars, histVars
<1>2. BatchSound'
    BY BatchKept DEF IInv, BatchSound, Expire, threadVars, histVars
<1> QED
    BY <1>1, <1>2, ThreadMoves DEF Expire, histVars

-----------------------------------------------------------------------------
(* The steps of the poller thread.                                         *)

LEMMA WaitIInv ==
    ASSUME IInv, Wait
    PROVE  IInv'
<1>1. PICK b \in Batches : events' = b
    BY DEF Wait
<1>2. PICK k \in 1 .. EventsMax : b \in [1 .. k -> Ready]
    BY DEF Batches
<1>3. k \in Nat /\ k >= 1
    BY PollerAssumption
<1>4. Ready \subseteq Nodes \cup {Pipe, Timer}
    BY DEF Ready, Active
<1>5. /\ b \in Seq(Nodes \cup {Pipe, Timer}) /\ DOMAIN b = 1 .. k /\ b # <<>>
      /\ \A i \in DOMAIN b : b[i] \in Ready
      /\ Len(b) = k
    BY <1>2, <1>3, <1>4
<1>6. {Pipe, Timer} \cap Nodes = {} /\ NoNode \notin Fds
    BY PollerAssumption
<1>7. \A i \in DOMAIN b : b[i] \in Nodes => fd[b[i]] # NoNode /\ results[b[i]] = <<>>
    BY <1>5, <1>6 DEF IInv, OnePlace, InOnePlace, Ready, Active
<1>8. TypeOK'
    BY <1>1, <1>5 DEF IInv, TypeOK, Wait, nodeVars, histVars
<1>9. BatchSound'
    <2>1. \A i, j \in DOMAIN b : b[i] = b[j] => i = j
        BY DEF Batches
    <2>2. EventsMax > 1 \/ Len(b) <= 1
        BY <1>2, <1>3, <1>5, PollerAssumption
    <2>3. tpc' = "event" /\ events' = b /\ UNCHANGED <<fd, results>>
        BY <1>1 DEF Wait, nodeVars, histVars
    <2>4. \A i \in DOMAIN b : b[i] \in Nodes => fd'[b[i]] # NoNode /\ Untouched(b[i])'
        BY <1>7, <2>3 DEF Untouched
    <2> QED
        BY <1>5, <2>1, <2>2, <2>3, <2>4 DEF BatchSound
<1> QED
    BY <1>8, <1>9, ThreadMoves DEF Wait, nodeVars, histVars

LEMMA EventIInv ==
    ASSUME IInv,
           \/ HandleMessage \/ HandleEAGAIN \/ HandleEnd \/ HandleStale
           \/ HandlePipeEvent \/ HandleTimerEvent \/ NoPipe
    PROVE  IInv'
<1>1. TypeOK'
    <2>1. CASE HandleMessage
        <3>1. Head(events) \in Nodes
            BY <2>1 DEF HandleMessage
        <3>2. messages' \in [Nodes -> Nat]
            BY <2>1, <3>1 DEF IInv, TypeOK, HandleMessage
        <3> QED
            BY <2>1, <3>2 DEF IInv, TypeOK, HandleMessage, nodeVars, threadVars
    <2> QED
        BY <2>1 DEF IInv, TypeOK, HandleEAGAIN, HandleEnd, HandleStale, HandlePipeEvent,
                    HandleTimerEvent, NoPipe, nodeVars, histVars
<1>2. /\ UNCHANGED <<events, results, removed, fd>>
      /\ tpc' \in {"event", "remove"} => tpc \in {"event", "remove"}
      /\ tpc' = "remove" => Head(events) \in Nodes
      /\ events # <<>>
    BY DEF IInv, BatchSound, HandleMessage, HandleEAGAIN, HandleEnd, HandleStale,
           HandlePipeEvent, HandleTimerEvent, NoPipe, nodeVars, threadVars, histVars
<1>3. BatchSound'
    BY <1>2, BatchKept DEF IInv
<1>4. UNCHANGED <<nodes, fd, timed, removed, pipe, results>>
    BY DEF HandleMessage, HandleEAGAIN, HandleEnd, HandleStale, HandlePipeEvent,
           HandleTimerEvent, NoPipe, nodeVars, histVars
<1> QED
    BY <1>1, <1>3, <1>4, ThreadMoves

(* The final results a node may get.                                       *)
States == {"FINISHED", "ERROR", "DELETED", "TIMEDOUT"}

LEMMA FirstAppend ==
    ASSUME NEW state \in States
    PROVE  /\ Append(<<>>, state) \in Seq(States)
           /\ Len(Append(<<>>, state)) = 1
           /\ Append(<<>>, state) # <<>>
<1>1. <<>> \in Seq(States) /\ Len(<<>>) = 0
    BY EmptySeq
<1> QED
    BY <1>1, AppendProperties

LEMMA TwiceIsTwo ==
    ASSUME NEW n \in Nodes, HandedOutTwice(n)
    PROVE  Len(results[n]) = 2 /\ results[n] # <<>> /\ results[n] # <<"TIMEDOUT">>
<1>1. Len(results[n]) = 2
    BY DEF HandedOutTwice
<1>2. Len(<<>>) = 0 /\ Len(<<"TIMEDOUT">>) = 1
    OBVIOUS
<1> QED
    BY <1>1, <1>2

(* What AddResult does to the nodes of S, when it is their first result.   *)
LEMMA FirstResults ==
    ASSUME IInv, NEW S \in SUBSET Nodes, \A n \in S : results[n] = <<>>,
           NEW state \in {"FINISHED", "ERROR", "DELETED", "TIMEDOUT"}, AddResult(S, state)
    PROVE  /\ results' \in [Nodes -> Seq({"FINISHED", "ERROR", "DELETED", "TIMEDOUT"})]
           /\ \A n \in S : /\ Len(results'[n]) = 1 /\ results'[n] # <<>>
                            /\ results'[n] = <<state>>
           /\ \A n \in Nodes \ S : results'[n] = results[n]
           /\ \A n \in Nodes : HandedOutTwice(n) => results'[n] = results[n]
<1>1. \A n \in S : results'[n] = Append(<<>>, state)
    BY DEF AddResult
<1>2. \A n \in Nodes \ S : results'[n] = results[n]
    BY DEF AddResult
<1>3. \A n \in S : /\ results'[n] \in Seq(States)
                   /\ Len(results'[n]) = 1 /\ results'[n] # <<>>
    BY <1>1, FirstAppend DEF States
<1>4. \A n \in Nodes : results[n] \in Seq(States)
    BY DEF IInv, TypeOK, States
<1>5. \A n \in Nodes : results'[n] \in Seq(States)
    BY <1>2, <1>3, <1>4
<1>6. DOMAIN results' = Nodes /\ results' = [n \in Nodes |-> results'[n]]
    BY DEF AddResult
<1>7. results' \in [Nodes -> Seq(States)]
    BY <1>5, <1>6
<1>8. \A n \in Nodes : HandedOutTwice(n) => n \notin S
    BY TwiceIsTwo
<1>9. \A n \in S : results'[n] = <<state>>
    BY <1>1
<1> QED
    BY <1>2, <1>3, <1>7, <1>8, <1>9 DEF States

(* A second result.                                                        *)
LEMMA SecondAppend ==
    ASSUME NEW state \in {"FINISHED", "ERROR"}
    PROVE  /\ Append(<<"TIMEDOUT">>, state) = <<"TIMEDOUT", state>>
           /\ <<"TIMEDOUT", state>> \in Seq({"FINISHED", "ERROR", "DELETED", "TIMEDOUT"})
<1> DEFINE s == Append(<<"TIMEDOUT">>, state)
           t == <<"TIMEDOUT", state>>
<1>1. <<"TIMEDOUT">> \in Seq(States) /\ state \in States /\ Len(<<"TIMEDOUT">>) = 1
    BY DEF States
<1>2. t \in Seq(States) /\ Len(t) = 2 /\ t[1] = "TIMEDOUT" /\ t[2] = state
    BY DEF States
<1>3. s \in Seq(States) /\ Len(s) = 2 /\ s[1] = "TIMEDOUT" /\ s[2] = state
    BY <1>1, AppendProperties
<1> HIDE DEF s, t
<1>4. \A i \in 1 .. Len(s) : s[i] = t[i]
    BY <1>2, <1>3
<1>5. s = t
    BY <1>2, <1>3, <1>4, SeqEqual
<1> QED
    BY <1>2, <1>5 DEF s, t, States

(* An event removes a node, the first time or after its timeout.           *)
LEMMA RemoveNodeIInv ==
    ASSUME IInv, RemoveNode
    PROVE  IInv'
<1> DEFINE n == Head(events)
<1>1. /\ n \in Nodes /\ events # <<>> /\ tpc = "remove" /\ tpc' = "handled"
      /\ events \in Seq(Nodes \cup {Pipe, Timer}) /\ 1 \in DOMAIN events /\ n = events[1]
      /\ fd[n] # NoNode /\ fd[n] \in Fds /\ Untouched(n)
    BY EmptySeq DEF IInv, TypeOK, BatchSound, RemoveNode
<1>2. CASE n \in removed
    <2>1. UNCHANGED <<nodes, fd, timed, removed, expired, pipe, events, hasPipe, spc,
                      messages, results>>
        BY <1>2 DEF RemoveNode
    <2>2. TypeOK'
        BY <2>1, <1>1 DEF IInv, TypeOK
    <2>3. BatchSound'
        BY <2>1, <1>1, BatchKept DEF IInv
    <2> QED
        BY <2>1, <2>2, <2>3, ThreadMoves
<1>3. CASE n \notin removed
    <2>1. /\ nodes' = [nodes EXCEPT ![fd[n]] = NoNode] /\ timed' = timed \ {n}
          /\ UNCHANGED <<fd, removed, expired, pipe, events, hasPipe, spc, messages>>
        BY <1>3 DEF RemoveNode
    <2>2. PICK state \in {"FINISHED", "ERROR"} : AddResult({n}, state)
        BY <1>3 DEF RemoveNode
    <2>3. ~InPipe(n) /\ Untouched(n) /\ results[n] \in {<<>>, <<"TIMEDOUT">>}
        BY <1>1, <1>3 DEF IInv, MarksRight, Untouched
    <2>4. /\ results' \in [Nodes -> Seq({"FINISHED", "ERROR", "DELETED", "TIMEDOUT"})]
          /\ results'[n] # <<>>
          /\ \/ results[n] = <<>> /\ Len(results'[n]) = 1
             \/ results[n] = <<"TIMEDOUT">> /\ HandedOutTwice(n)' /\ EventsMax > 1
          /\ \A m \in Nodes \ {n} : results'[m] = results[m]
          /\ \A m \in Nodes : HandedOutTwice(m) => m # n
        <3>1. CASE results[n] = <<>>
            BY <1>1, <2>2, <3>1, FirstResults DEF HandedOutTwice
        <3>2. CASE results[n] = <<"TIMEDOUT">>
            <4>1. EventsMax > 1
                BY <1>3, <2>3, <3>2 DEF Untouched
            <4>2. results'[n] = <<"TIMEDOUT", state>> /\ results'[n] # <<>>
                <5>1. results'[n] = Append(<<"TIMEDOUT">>, state)
                    BY <1>1, <2>2, <3>2 DEF AddResult
                <5>2. <<"TIMEDOUT", state>> # <<>>
                    OBVIOUS
                <5> QED
                    BY <5>1, <5>2, SecondAppend
            <4>3. \A m \in Nodes \ {n} : results'[m] = results[m]
                BY <2>2 DEF AddResult
            <4>4. results' \in [Nodes -> Seq({"FINISHED", "ERROR", "DELETED", "TIMEDOUT"})]
                <5>1. results' = [m \in Nodes |-> results'[m]]
                    BY <2>2 DEF AddResult
                <5>2. \A m \in Nodes :
                          results'[m] \in Seq({"FINISHED", "ERROR", "DELETED", "TIMEDOUT"})
                    BY <4>2, <4>3, SecondAppend DEF IInv, TypeOK
                <5> QED
                    BY <5>1, <5>2
            <4>5. HandedOutTwice(n)' /\ ~HandedOutTwice(n)
                <5>1. ~HandedOutTwice(n)
                    BY <1>1, <3>2, TwiceIsTwo
                <5>2. results'[Head(events)] = <<"TIMEDOUT", state>> /\ events' = events
                    BY <2>1, <4>2
                <5>3. HandedOutTwice(n)'
                    BY <5>2 DEF HandedOutTwice
                <5> QED
                    BY <5>1, <5>3
            <4> QED
                BY <3>2, <4>1, <4>2, <4>3, <4>4, <4>5
        <3> QED
            BY <2>3, <3>1, <3>2
    <2>5. TypeOK'
        BY <1>1, <2>1, <2>4 DEF IInv, TypeOK
    <2>6. /\ n \notin Active'
          /\ \A m \in Nodes \ {n} : m \in Active' <=> m \in Active /\ fd[m] # fd[n]
        BY <1>1, <2>1, PollerAssumption DEF IInv, TypeOK, Active
    <2>7. \A m \in Nodes : InPipe(m)' <=> InPipe(m)
        BY <2>1 DEF InPipe
    <2>8. NodesAgree' /\ SentOnce'
        BY <1>1, <2>1 DEF IInv, TypeOK, NodesAgree, SentOnce
    <2>9. \A f : Spoiled(f) => Spoiled(f)'
        BY <2>1, <2>4, SpoiledKept
    <2>10. ASSUME NEW m \in Nodes \ {n}, m \in Active, fd[m] = fd[n]
           PROVE  Spoiled(fd[m])'
        <3>0. fd'[m] = fd[m] /\ fd'[n] = fd[n]
            BY <2>1
        <3>1. CASE results[n] = <<>>
            <4>1. n \in Active \/ Spoiled(fd[n])
                BY <1>1, <2>3, <3>1 DEF IInv, OnePlace, InOnePlace
            <4>2. n \notin Active
                BY <2>10 DEF Active
            <4>3. Spoiled(fd[m])
                BY <2>10, <4>1, <4>2
            <4> QED
                BY <2>9, <3>0, <4>3
        <3>2. CASE results[n] = <<"TIMEDOUT">>
            <4>1. HandedOutTwice(n)' /\ events' = events
                BY <2>1, <2>4, <3>2
            <4>2. PICK k \in Nodes : k = n
                BY <1>1
            <4>3. HandedOutTwice(k)' /\ fd'[k] = fd'[m]
                BY <2>10, <3>0, <4>1, <4>2 DEF HandedOutTwice
            <4> QED
                BY <4>3 DEF Spoiled
        <3> QED
            BY <2>3, <3>1, <3>2
    <2>11. OnePlace'
        <3>1. ASSUME NEW m \in Nodes \ {n} PROVE InOnePlace(m)'
            <4>1. Spoiled(fd[m]) => Spoiled(fd[m])'
                BY <2>1, <2>9
            <4>2. m \in Active => m \in Active' \/ Spoiled(fd[m])'
                BY <2>6, <2>10
            <4> QED
                BY <2>1, <2>4, <2>6, <2>7, <4>1, <4>2, PlaceKept
        <3>2. ASSUME NEW m \in Nodes, m = n PROVE InOnePlace(m)'
            <4>1. /\ fd'[m] # NoNode /\ results'[m] # <<>> /\ ~InPipe(m)' /\ m \notin Active'
                  /\ m \notin removed'
                BY <1>1, <1>3, <2>1, <2>3, <2>4, <2>6, <2>7, <3>2
            <4>2. Len(results'[m]) <= 1 \/ (HandedOutTwice(m)' /\ EventsMax > 1)
                <5>1. HandedOutTwice(n)' => HandedOutTwice(m)'
                    BY <2>1, <3>2 DEF HandedOutTwice
                <5>2. CASE Len(results'[n]) = 1
                    BY <3>2, <5>2
                <5>3. CASE HandedOutTwice(n)' /\ EventsMax > 1
                    BY <5>1, <5>3
                <5> QED
                    BY <2>4, <5>2, <5>3
            <4> QED
                BY <4>1, <4>2 DEF InOnePlace
        <3>3. \A m \in Nodes : InOnePlace(m)'
            BY <3>1, <3>2
        <3> QED
            BY <3>3 DEF OnePlace
    <2>12. MarksRight'
        <3>1. Active' \subseteq Active
            BY <2>6 DEF Active
        <3> QED
            BY <2>1, <2>4, <2>7, <3>1 DEF IInv, TypeOK, MarksRight
    <2>13. BatchSound'
        <3>1. ASSUME NEW i \in DOMAIN events, i > 1, events[i] \in Nodes
              PROVE  Untouched(events[i])'
            <4>1. events[i] # n /\ Untouched(events[i])
                BY <1>1, <3>1 DEF IInv, BatchSound
            <4> QED
                BY <2>1, <2>4, <3>1, <4>1 DEF Untouched
        <3> QED
            BY <1>1, <2>1, <3>1 DEF IInv, BatchSound
    <2> QED
        BY <2>5, <2>8, <2>11, <2>12, <2>13 DEF IInv
<1> QED
    BY <1>2, <1>3

LEMMA HandlePipeIInv ==
    ASSUME IInv, HandlePipe
    PROVE  IInv'
<1> DEFINE sent == {pipe[i] : i \in DOMAIN pipe}
           S == sent \cap Nodes
<1>1. \A n \in Nodes : n \in S <=> InPipe(n)
    BY DEF InPipe
<1>2. \A n \in S : results[n] = <<>> /\ n \notin Active /\ fd[n] # NoNode /\ n \in removed
    BY <1>1 DEF IInv, OnePlace, InOnePlace, MarksRight
<1>3. AddResult(S, "DELETED") /\ UNCHANGED <<nodeVars, hasPipe, spc, messages>> /\ pipe' = <<>>
    BY DEF HandlePipe
<1>4. /\ results' \in [Nodes -> Seq({"FINISHED", "ERROR", "DELETED", "TIMEDOUT"})]
      /\ \A n \in S : Len(results'[n]) = 1 /\ results'[n] # <<>>
      /\ \A n \in Nodes \ S : results'[n] = results[n]
      /\ \A n \in Nodes : HandedOutTwice(n) => results'[n] = results[n]
    BY <1>2, <1>3, FirstResults
<1>5. \/ tpc' = "wait" /\ events' = <<>>
      \/ tpc' = "timeouts" /\ events' = events
    BY DEF HandlePipe, AfterBreak
<1>6. TypeOK'
    BY <1>3, <1>4, <1>5, EmptySeq DEF IInv, TypeOK, nodeVars
<1>7. Active' = Active /\ \A n \in Nodes : ~InPipe(n)'
    BY <1>3 DEF Active, InPipe, nodeVars
<1>8. OnePlace'
    <2>1. ASSUME NEW m \in Nodes \ S PROVE InOnePlace(m)'
        <3>1. Spoiled(fd[m]) => Spoiled(fd[m])'
            BY <1>3, <1>4, SpoiledKept DEF nodeVars
        <3>2. ~InPipe(m) /\ ~InPipe(m)'
            BY <1>1, <1>7
        <3>3. results'[m] = results[m] /\ UNCHANGED <<fd, removed, Active>>
            BY <1>3, <1>4, <1>7 DEF nodeVars
        <3> QED
            BY <3>1, <3>2, <3>3, PlaceKept
    <2>2. ASSUME NEW m \in S PROVE InOnePlace(m)'
        <3>1. /\ fd'[m] # NoNode /\ results'[m] # <<>> /\ Len(results'[m]) = 1
              /\ m \notin Active' /\ m \in Nodes
            BY <1>2, <1>3, <1>4, <1>7 DEF nodeVars
        <3>2. ~InPipe(m)'
            BY <3>1, <1>7
        <3> QED
            BY <3>1, <3>2 DEF InOnePlace
    <2> QED
        BY <2>1, <2>2 DEF OnePlace
<1>9. NodesAgree' /\ SentOnce' /\ MarksRight'
    <2>1. \A n \in timed : n \notin S
        BY <1>2 DEF IInv, MarksRight
    <2> QED
        BY <1>3, <1>4, <1>7, <2>1 DEF IInv, TypeOK, NodesAgree, SentOnce, MarksRight, nodeVars
<1>10. BatchSound'
    <2>1. \A n \in Nodes : Untouched(n) => Untouched(n)'
        BY <1>2, <1>3, <1>4 DEF Untouched, nodeVars
    <2>2. CASE tpc' = "wait" /\ events' = <<>>
        BY <2>2, EmptySeq DEF BatchSound
    <2>3. CASE tpc' = "timeouts" /\ events' = events
        <3>1. tpc = "handled" /\ UNCHANGED fd
            BY <1>3 DEF HandlePipe, nodeVars
        <3> QED
            BY <2>1, <2>3, <3>1 DEF IInv, BatchSound
    <2> QED
        BY <1>5, <2>2, <2>3
<1> QED
    BY <1>6, <1>8, <1>9, <1>10 DEF IInv

LEMMA HandleTimeoutIInv ==
    ASSUME IInv, HandleTimeout
    PROVE  IInv'
<1> DEFINE out == expired \cap timed
<1>1. out \subseteq Nodes
    BY DEF IInv, TypeOK
<1>2. \A n \in out : /\ results[n] = <<>> /\ ~InPipe(n) /\ fd[n] # NoNode
                     /\ n \notin removed /\ (n \in Active \/ Spoiled(fd[n]))
    BY <1>1 DEF IInv, OnePlace, InOnePlace, MarksRight
<1>3. /\ AddResult(out, "TIMEDOUT")
      /\ nodes' = [f \in Fds |-> IF \E n \in out : fd[n] = f THEN NoNode ELSE nodes[f]]
      /\ timed' = timed \ out /\ events' = Tail(events)
      /\ UNCHANGED <<fd, removed, expired, pipe, hasPipe, spc, messages>>
      /\ tpc' = IF Len(events) = 1 THEN "wait" ELSE "event"
      /\ tpc = "timeouts"
    BY DEF HandleTimeout
<1>4. /\ results' \in [Nodes -> Seq({"FINISHED", "ERROR", "DELETED", "TIMEDOUT"})]
      /\ \A n \in out : /\ Len(results'[n]) = 1 /\ results'[n] # <<>>
                         /\ results'[n] = <<"TIMEDOUT">>
      /\ \A n \in Nodes \ out : results'[n] = results[n]
      /\ \A n \in Nodes : HandedOutTwice(n) => results'[n] = results[n]
    BY <1>1, <1>2, <1>3, FirstResults
<1>5. /\ events \in Seq(Nodes \cup {Pipe, Timer}) /\ events # <<>>
      /\ events' \in Seq(Nodes \cup {Pipe, Timer})
      /\ Len(events) # 1 => events' # <<>>
      /\ Len(events') <= Len(events) /\ Len(events) \in Nat /\ Len(events') \in Nat
      /\ Len(events') >= 1 => Len(events) > 1
      /\ DOMAIN events' = 1 .. Len(events') /\ DOMAIN events = 1 .. Len(events)
      /\ \A i \in DOMAIN events' : i + 1 \in DOMAIN events /\ events'[i] = events[i + 1]
    <2>1. events \in Seq(Nodes \cup {Pipe, Timer}) /\ events # <<>>
        BY <1>3 DEF IInv, TypeOK, BatchSound
    <2>2. /\ events' \in Seq(Nodes \cup {Pipe, Timer})
          /\ Len(events) \in Nat /\ Len(events') = Len(events) - 1
          /\ DOMAIN events = 1 .. Len(events) /\ DOMAIN events' = 1 .. Len(events')
          /\ \A i \in 1 .. Len(events') : events'[i] = events[i + 1]
        BY <1>3, <2>1, HeadTailProperties, LenProperties
    <2>3. Len(events) # 1 => events' # <<>>
        BY <2>1, <2>2, EmptySeq
    <2> QED
        BY <2>1, <2>2, <2>3
<1>6. TypeOK'
    BY <1>3, <1>4, <1>5 DEF IInv, TypeOK
<1>7. /\ \A n \in out : n \notin Active'
      /\ \A n \in Nodes : n \in Active' => n \in Active
      /\ \A n \in Nodes : n \in Active =>
             n \in Active' \/ n \in out \/ \E o \in out \ {n} : fd[o] = fd[n]
    BY <1>1, <1>3, PollerAssumption DEF IInv, TypeOK, Active
<1>8. \A n \in Nodes : InPipe(n)' <=> InPipe(n)
    BY <1>3 DEF InPipe
<1>9. NodesAgree' /\ SentOnce'
    BY <1>3, PollerAssumption DEF IInv, TypeOK, NodesAgree, SentOnce
<1>10. OnePlace'
    <2>1. \A f : Spoiled(f) => Spoiled(f)'
        BY <1>3, <1>4, SpoiledKept
    <2>2. ASSUME NEW m \in Nodes \ out PROVE InOnePlace(m)'
        <3>1. m \in Active => m \in Active' \/ Spoiled(fd[m])'
            <4>1. ASSUME m \in Active, NEW o \in out \ {m}, fd[o] = fd[m]
                  PROVE  Spoiled(fd[m])'
                <5>1. o \notin Active /\ fd'[m] = fd[m]
                    BY <1>3, <4>1 DEF Active
                <5>2. Spoiled(fd[m])
                    BY <1>2, <4>1, <5>1
                <5> QED
                    BY <2>1, <5>1, <5>2
            <4> QED
                BY <1>7, <4>1
        <3> QED
            BY <1>3, <1>4, <1>7, <1>8, <2>1, <3>1, PlaceKept
    <2>3. ASSUME NEW m \in out PROVE InOnePlace(m)'
        <3>1. /\ fd'[m] # NoNode /\ results'[m] # <<>> /\ Len(results'[m]) = 1
              /\ m \notin Active' /\ m \in Nodes
            BY <1>1, <1>2, <1>3, <1>4, <1>7
        <3>2. ~InPipe(m)'
            BY <1>2, <1>8, <3>1
        <3> QED
            BY <3>1, <3>2 DEF InOnePlace
    <2> QED
        BY <2>2, <2>3 DEF OnePlace
<1>11. MarksRight'
    <2>1. \A n \in timed' : n \in timed /\ n \notin out /\ n \in Nodes
        BY <1>3 DEF IInv, TypeOK
    <2>2. \A n \in timed' : fd'[n] # NoNode /\ results'[n] = <<>> /\ n \notin removed'
        BY <1>3, <1>4, <2>1 DEF IInv, MarksRight
    <2> QED
        BY <1>3, <1>7, <1>8, <2>2 DEF IInv, TypeOK, MarksRight
<1>12. BatchSound'
    <2>1. ASSUME NEW i \in DOMAIN events', NEW n \in Nodes, events'[i] = n
          PROVE  fd'[n] # NoNode /\ Untouched(n)'
        <3>1. i + 1 \in DOMAIN events /\ n = events[i + 1] /\ i + 1 > 1
            BY <1>5, <2>1
        <3>2. fd[n] # NoNode /\ Untouched(n)
            BY <2>1, <3>1 DEF IInv, BatchSound
        <3>3. EventsMax > 1
            <4>1. Len(events) > 1
                BY <1>5
            <4> QED
                BY <1>5, <4>1 DEF IInv, BatchSound
        <3> QED
            BY <1>3, <1>4, <2>1, <3>2, <3>3 DEF Untouched
    <2>2. \A i, j \in DOMAIN events' : events'[i] = events'[j] => i = j
        <3> SUFFICES ASSUME NEW i \in DOMAIN events', NEW j \in DOMAIN events',
                            events'[i] = events'[j]
                     PROVE  i = j
            OBVIOUS
        <3>1. i + 1 = j + 1
            BY <1>5 DEF IInv, BatchSound
        <3> QED
            BY <1>5, <3>1
    <2>3. EventsMax > 1 \/ Len(events') <= 1
        BY <1>5, PollerAssumption DEF IInv, BatchSound
    <2>4. tpc' # "remove" /\ (tpc' \in {"event", "remove", "handled", "timeouts"} => events' # <<>>)
        BY <1>3, <1>5
    <2> QED
        BY <2>1, <2>2, <2>3, <2>4 DEF BatchSound
<1> QED
    BY <1>6, <1>9, <1>10, <1>11, <1>12 DEF IInv

-----------------------------------------------------------------------------
(***************************************************************************)
(* Every step keeps the invariant, whatever the interleaving of poller_del *)
(* and poller_set_timeout with the thread's batch.                         *)
(***************************************************************************)
THEOREM PollerInductive == IInv /\ [Next]_vars => IInv'
<1> SUFFICES ASSUME IInv, [Next]_vars PROVE IInv'
    OBVIOUS
<1>1. CASE ThreadStep \/ HandleMessage
    BY <1>1, WaitIInv, EventIInv, RemoveNodeIInv, HandlePipeIInv, HandleTimeoutIInv
    DEF ThreadStep
<1>2. CASE SetStopping \/ StopWrites
    BY <1>2, StopIInv
<1>3. CASE \E n \in Nodes : \/ Expire(n)
                            \/ \E f \in Fds, b \in BOOLEAN : Add(n, f, b)
    BY <1>3, ExpireIInv, AddIInv
<1>4. CASE \E f \in Fds : Del(f) \/ \E b \in BOOLEAN : SetTimeout(f, b)
    BY <1>4, DelIInv, SetTimeoutIInv
<1>5. CASE UNCHANGED vars
    <2>1. TypeOK'
        BY <1>5 DEF IInv, TypeOK, vars, nodeVars, threadVars, histVars
    <2>2. BatchSound'
        BY <1>5, BatchKept DEF IInv, BatchSound, vars, nodeVars, threadVars, histVars
    <2> QED
        BY <1>5, <2>1, <2>2, ThreadMoves DEF vars, nodeVars, histVars
<1> QED
    BY <1>1, <1>2, <1>3, <1>4, <1>5 DEF Next

(* Being in one place, counted.                                            *)
LEMMA PlacesCounted == IInv => OneFinalResult
<1> SUFFICES ASSUME IInv, NEW n \in Nodes
             PROVE  /\ fd[n] = NoNode => Places(n) = 0
                    /\ Places(n) > 1 =>
                           /\ Places(n) = 2 /\ HandedOutTwice(n)
                           /\ n \notin removed /\ EventsMax > 1
                    /\ fd[n] # NoNode /\ Places(n) = 0 =>
                           \E m \in Nodes \ {n} : fd[m] = fd[n] /\ HandedOutTwice(m)
    BY DEF OneFinalResult
<1> DEFINE P == {i \in DOMAIN pipe : pipe[i] = n}
<1>1. Cardinality(P) = IF InPipe(n) THEN 1 ELSE 0
    <2>1. CASE InPipe(n)
        <3>1. PICK i \in DOMAIN pipe : pipe[i] = n
            BY <2>1 DEF InPipe
        <3>2. P = {i}
            BY <3>1 DEF IInv, SentOnce
        <3> QED
            BY <2>1, <3>2, FS_Singleton
    <2>2. CASE ~InPipe(n)
        <3>1. P = {}
            BY <2>2 DEF InPipe
        <3> QED
            BY <2>2, <3>1, FS_EmptySet
    <2> QED
        BY <2>1, <2>2
<1>2. /\ InOnePlace(n)
      /\ Len(results[n]) \in Nat /\ (Len(results[n]) = 0 <=> results[n] = <<>>)
      /\ HandedOutTwice(n) => Len(results[n]) = 2
    <2>1. results[n] \in Seq(States)
        BY DEF IInv, TypeOK, States
    <2>2. HandedOutTwice(n) => Len(results[n]) = 2
        BY DEF HandedOutTwice
    <2> QED
        BY <2>1, <2>2, EmptySeq, LenProperties DEF IInv, OnePlace
<1>3. fd[n] = NoNode => n \notin Active
    BY PollerAssumption DEF Active
<1> HIDE DEF P
<1>4. Places(n) = Len(results[n]) + Cardinality(P) + (IF n \in Active THEN 1 ELSE 0)
    BY DEF Places, P
<1>5. fd[n] = NoNode => Places(n) = 0
    BY <1>1, <1>2, <1>3, <1>4 DEF InOnePlace
<1>6. Places(n) > 1 =>
          Places(n) = 2 /\ HandedOutTwice(n) /\ n \notin removed /\ EventsMax > 1
    <2>1. CASE results[n] = <<>>
        BY <1>1, <1>2, <1>4, <2>1 DEF InOnePlace
    <2>2. CASE results[n] # <<>>
        <3>1. ~InPipe(n) /\ n \notin Active
            BY <1>2, <2>2 DEF InOnePlace
        <3>2. Places(n) = Len(results[n])
            BY <1>1, <1>2, <1>4, <3>1
        <3>3. \/ Len(results[n]) <= 1
              \/ HandedOutTwice(n) /\ n \notin removed /\ EventsMax > 1
            BY <1>2 DEF InOnePlace
        <3> QED
            BY <1>2, <3>2, <3>3
    <2> QED
        BY <2>1, <2>2
<1>7. fd[n] # NoNode /\ Places(n) = 0 =>
          \E m \in Nodes \ {n} : fd[m] = fd[n] /\ HandedOutTwice(m)
    <2>1. Places(n) = 0 => Len(results[n]) = 0 /\ ~InPipe(n) /\ n \notin Active
        <3>1. PICK c, a : /\ c = Cardinality(P) /\ a = IF n \in Active THEN 1 ELSE 0
                          /\ c \in {0, 1} /\ a \in {0, 1}
                          /\ (c = 0 => ~InPipe(n)) /\ (a = 0 => n \notin Active)
            BY <1>1
        <3>2. Places(n) = Len(results[n]) + c + a
            BY <1>4, <3>1
        <3>3. Places(n) = 0 => Len(results[n]) = 0 /\ c = 0 /\ a = 0
            BY <1>2, <3>1, <3>2
        <3> QED
            BY <3>1, <3>3
    <2>2. results[n] = <<>> => ~HandedOutTwice(n)
        BY TwiceIsTwo
    <2> QED
        BY <1>2, <2>1, <2>2 DEF InOnePlace, Spoiled
<1> QED
    BY <1>5, <1>6, <1>7

(***************************************************************************)
(* However the events, the deletion and the timeout of a node race, for    *)
(* any batch size: poller_del and the poller thread never both hand it     *)
(* out, it is handed out a second time only by its event after its timeout *)
(* in one batch of several events, never a third time, and it loses its    *)
(* place only to a node handed out twice on the same descriptor.  With     *)
(* batches of one event every node is in exactly one place.                *)
(***************************************************************************)
THEOREM FinalResultOnce == Spec => []OneFinalResult
<1>1. Spec => []IInv
    BY InitIInv, PollerInductive, PTL DEF Spec
<1> QED
    BY <1>1, PlacesCounted, PTL

-----------------------------------------------------------------------------
(***************************************************************************)
(* The result queue.                                                       *)
(***************************************************************************)

(* A producer that has begun holds a result, and nobody begins any more    *)
(* once the queue is nonblocking.                                          *)
ProducersOK ==
    /\ \A p \in Producers : ppc[p] \in {"lock", "wait"} => pres[p] \in Results
    /\ nonblock => \A p \in Producers : ppc[p] = "idle"

(* res_cnt belongs to the put list, wherever that is.                      *)
CountRight == resCnt = Len(list[putList])

(* The pointers differ unless a consumer is in swap, which then has the    *)
(* empty list in its hands.  After swap its own count is the length of the *)
(* get list, and 0 only if nothing will come any more.                     *)
ListsOf(c) ==
    /\ cpc[c] \in {"swap", "wait", "pop"} <=> getMutex = c
    /\ cpc[c] \in {"swap", "wait"} =>
           getList = putList /\ saved[c] # getList /\ list[saved[c]] = <<>>
    /\ cpc[c] = "pop" =>
           /\ getList # putList
           /\ cnt[c] = Len(list[getList])
           /\ cnt[c] = 0 => nonblock /\ list[putList] = <<>>

ListsOK ==
    /\ \A c \in Consumers : ListsOf(c)
    /\ getMutex = NoOne => getList # putList

QueueInv == QueueTypeOK /\ ProducersOK /\ CountRight /\ ListsOK

LEMMA InitQueueInv == QueueInit => QueueInv
<1> SUFFICES ASSUME QueueInit PROVE QueueInv
    OBVIOUS
<1>1. QueueTypeOK
    BY EmptySeq DEF QueueInit, QueueTypeOK, Lists
<1>2. ProducersOK /\ CountRight
    BY DEF QueueInit, ProducersOK, CountRight, Lists
<1>3. ListsOK
    BY PollerQueueAssumption DEF QueueInit, ListsOK, ListsOf
<1> QED
    BY <1>1, <1>2, <1>3 DEF QueueInv

(* What a step that leaves the lists and the consumers alone must keep.    *)
LEMMA ListsKept ==
    ASSUME QueueInv, UNCHANGED <<listVars, consVars>>, nonblock => nonblock'
    PROVE  CountRight' /\ ListsOK'
BY DEF QueueInv, CountRight, ListsOK, ListsOf, listVars, consVars

LEMMA BeginPutQueue ==
    ASSUME QueueInv, NEW p \in Producers, NEW r \in Results, BeginPut(p, r)
    PROVE  QueueInv'
<1>1. CountRight' /\ ListsOK'
    BY ListsKept DEF BeginPut, closeVars
<1>2. QueueTypeOK'
    BY DEF QueueInv, QueueTypeOK, BeginPut, listVars, consVars, closeVars
<1>3. ProducersOK'
    BY DEF QueueInv, QueueTypeOK, ProducersOK, BeginPut, closeVars
<1> QED
    BY <1>1, <1>2, <1>3 DEF QueueInv

(* A producer that waits, wakes up or signals, and a poller that is being  *)
(* stopped: only the places of producers change.                           *)
LEMMA ProducersMove ==
    ASSUME QueueInv, UNCHANGED <<listVars, consVars, closeVars, pres, added, got>>,
           ppc' \in [Producers -> {"idle", "lock", "wait", "signal"}],
           stopping' \subseteq Producers, bpc' \subseteq stopping',
           \A p \in Producers : \/ ppc[p] \in {"lock", "wait"} /\ ppc'[p] \in {"lock", "wait"}
                                \/ ppc'[p] = ppc[p]
    PROVE  QueueInv'
<1>1. CountRight' /\ ListsOK'
    BY ListsKept DEF closeVars
<1>2. QueueTypeOK'
    BY DEF QueueInv, QueueTypeOK, listVars, consVars, closeVars
<1>3. ProducersOK'
    BY DEF QueueInv, QueueTypeOK, ProducersOK, closeVars
<1> QED
    BY <1>1, <1>2, <1>3 DEF QueueInv

LEMMA ProducersMoveOn ==
    ASSUME QueueInv, NEW p \in Producers,
           PutWaits(p) \/ PutSpurious(p) \/ MarkStopping(p) \/ StopBroadcasts(p)
    PROVE  QueueInv'
<1>1. CASE PutWaits(p)
    BY <1>1, ProducersMove DEF PutWaits, QueueInv, QueueTypeOK
<1>2. CASE PutSpurious(p)
    BY <1>2, ProducersMove DEF PutSpurious, QueueInv, QueueTypeOK
<1>3. CASE MarkStopping(p)
    BY <1>3, ProducersMove DEF MarkStopping, QueueInv, QueueTypeOK
<1>4. CASE StopBroadcasts(p)
    BY <1>4, ProducersMove DEF StopBroadcasts, PutCondBroadcast, QueueInv, QueueTypeOK
<1> QED
    BY <1>1, <1>2, <1>3, <1>4

LEMMA PutQueue ==
    ASSUME QueueInv, NEW p \in Producers, Put(p)
    PROVE  QueueInv'
<1>1. QueueTypeOK /\ ProducersOK /\ CountRight /\ ListsOK
    BY DEF QueueInv
<1>2. /\ list \in [Lists -> Seq(Results)] /\ putList \in Lists /\ getList \in Lists
      /\ pres[p] \in Results /\ ~nonblock
    BY <1>1 DEF QueueTypeOK, ProducersOK, Put
<1>3. PICK l : l = list[putList]
    OBVIOUS
<1>4. /\ l \in Seq(Results) /\ Append(l, pres[p]) \in Seq(Results)
      /\ Len(Append(l, pres[p])) = Len(l) + 1 /\ Len(l) \in Nat
    BY <1>2, <1>3, AppendProperties, LenProperties
<1>5. list' = [list EXCEPT ![putList] = Append(l, pres[p])]
    BY <1>3 DEF Put
<1>6. QueueTypeOK'
    BY <1>1, <1>4, <1>5 DEF QueueTypeOK, Put, consVars, closeVars
<1>7. ProducersOK'
    BY <1>1, <1>2 DEF QueueTypeOK, ProducersOK, Put, closeVars
<1>8. CountRight'
    BY <1>1, <1>2, <1>3, <1>4, <1>5 DEF CountRight, Put
<1>9. ListsOK'
    <2>1. \A k \in Lists : k # putList => list'[k] = list[k]
        BY <1>2, <1>5
    <2>2. ASSUME NEW c \in Consumers PROVE ListsOf(c)'
        BY <1>1, <1>2, <2>1 DEF QueueTypeOK, ListsOK, ListsOf, Put, consVars, closeVars
    <2> QED
        BY <1>1, <2>2 DEF ListsOK, Put, consVars
<1> QED
    BY <1>6, <1>7, <1>8, <1>9 DEF QueueInv

(* A signal moves a waiting consumer on.                                   *)
LEMMA SignalledQueue ==
    ASSUME QueueInv, GetCondSignalled,
           UNCHANGED <<list, getList, putList, saved, cnt, getMutex, nonblock>>
    PROVE  ListsOK' /\ cpc' \in [Consumers -> {"idle", "swap", "wait", "pop", "ended"}]
<1>1. QueueTypeOK /\ ListsOK
    BY DEF QueueInv
<1>2. ASSUME NEW c \in Consumers PROVE ListsOf(c)'
    BY <1>1, <1>2 DEF QueueTypeOK, ListsOK, ListsOf, GetCondSignalled
<1> QED
    BY <1>1, <1>2 DEF QueueTypeOK, ListsOK, GetCondSignalled

LEMMA SignalsQueue ==
    ASSUME QueueInv, NonblockSignals \/ \E p \in Producers : PutSignals(p)
    PROVE  QueueInv'
<1>1. ListsOK' /\ cpc' \in [Consumers -> {"idle", "swap", "wait", "pop", "ended"}]
    BY SignalledQueue DEF NonblockSignals, PutSignals, listVars, closeVars
<1>2. CountRight'
    BY DEF QueueInv, CountRight, NonblockSignals, PutSignals, listVars
<1>3. QueueTypeOK'
    BY <1>1 DEF QueueInv, QueueTypeOK, NonblockSignals, PutSignals, listVars, prodVars, closeVars
<1>4. ProducersOK'
    BY DEF QueueInv, QueueTypeOK, ProducersOK, NonblockSignals, PutSignals, prodVars, closeVars
<1> QED
    BY <1>1, <1>2, <1>3, <1>4 DEF QueueInv

(* A get takes the first result of the get list.                           *)
LEMMA PopQueue ==
    ASSUME QueueInv, NEW c \in Consumers, GetFromList(c) \/ GetSwapped(c)
    PROVE  /\ QueueInv'
           /\ getList # putList /\ list[getList] # <<>>
           /\ Content # <<>>
           /\ Content' = Tail(Content) /\ got' = Append(got, Head(Content))
<1>1. QueueTypeOK /\ ProducersOK /\ CountRight /\ ListsOK
    BY DEF QueueInv
<1>2. /\ Pop(c) /\ UNCHANGED <<prodVars, saved, cnt, closeVars, added>>
      /\ getMutex \in {NoOne, c} /\ getList # putList
    BY <1>1 DEF GetFromList, GetSwapped, ListsOK, ListsOf
<1>3. PICK g, h : g = list[getList] /\ h = list[putList]
    OBVIOUS
<1>4. g \in Seq(Results) /\ h \in Seq(Results)
    BY <1>1, <1>3 DEF QueueTypeOK
<1>5. g # <<>>
    <2>1. CASE GetFromList(c)
        BY <1>3, <2>1 DEF GetFromList
    <2>2. CASE GetSwapped(c)
        BY <1>1, <1>3, <2>2, EmptySeq DEF GetSwapped, ListsOK, ListsOf
    <2> QED
        BY <2>1, <2>2
<1>6. /\ Tail(g) \in Seq(Results) /\ Head(g) \in Results
      /\ Append(got, Head(g)) \in Seq(Results)
    BY <1>1, <1>4, <1>5, HeadTailProperties, AppendProperties DEF QueueTypeOK
<1>7. /\ list' = [list EXCEPT ![getList] = Tail(g)] /\ got' = Append(got, Head(g))
      /\ list'[getList] = Tail(g) /\ list'[putList] = h
    BY <1>1, <1>2, <1>3 DEF Pop, QueueTypeOK
<1>8. Content # <<>> /\ Content' = Tail(Content) /\ got' = Append(got, Head(Content))
    <2>1. Content = g \o h /\ Content' = Tail(g) \o h
        BY <1>2, <1>3, <1>7 DEF Content, Pop
    <2>2. g \o h # <<>> /\ Head(g \o h) = Head(g) /\ Tail(g \o h) = Tail(g) \o h
        BY <1>4, <1>5, ConcatProperties, ConcatSimplifications
    <2> QED
        BY <1>7, <2>1, <2>2
<1>9. QueueTypeOK'
    <2>1. list' \in [Lists -> Seq(Results)] /\ got' \in Seq(Results)
        BY <1>1, <1>6, <1>7 DEF QueueTypeOK
    <2>2. /\ cpc' \in [Consumers -> {"idle", "swap", "wait", "pop", "ended"}]
          /\ getMutex' \in Consumers \cup {NoOne}
        BY <1>1, <1>2 DEF QueueTypeOK, Pop
    <2> QED
        BY <1>1, <1>2, <2>1, <2>2 DEF QueueTypeOK, Pop, prodVars, closeVars
<1>10. ProducersOK'
    BY <1>1, <1>2 DEF ProducersOK, prodVars, closeVars
<1>11. CountRight'
    BY <1>1, <1>2, <1>3, <1>7 DEF CountRight, Pop
<1>12. ListsOK'
    <2>1. ASSUME NEW d \in Consumers PROVE ListsOf(d)'
        BY <1>1, <1>2, PollerQueueAssumption DEF QueueTypeOK, ListsOK, ListsOf, Pop
    <2> QED
        BY <1>1, <1>2, <2>1 DEF ListsOK, Pop
<1> QED
    BY <1>2, <1>3, <1>5, <1>8, <1>9, <1>10, <1>11, <1>12 DEF QueueInv

LEMMA BeginSwapQueue ==
    ASSUME QueueInv, NEW c \in Consumers, BeginSwap(c)
    PROVE  QueueInv' /\ Content' = Content
<1>1. QueueTypeOK /\ ProducersOK /\ CountRight /\ ListsOK
    BY DEF QueueInv
<1>2. getList # putList /\ list[getList] = <<>> /\ list[putList] \in Seq(Results)
    BY <1>1 DEF BeginSwap, ListsOK, QueueTypeOK
<1>3. Content' = Content
    BY <1>2, ConcatEmptySeq DEF Content, BeginSwap
<1>4. QueueTypeOK'
    BY <1>1 DEF QueueTypeOK, BeginSwap, prodVars, closeVars
<1>5. ProducersOK' /\ CountRight'
    BY <1>1 DEF ProducersOK, CountRight, BeginSwap, prodVars, closeVars
<1>6. ASSUME NEW d \in Consumers PROVE ListsOf(d)'
    BY <1>1, <1>2, PollerQueueAssumption DEF QueueTypeOK, ListsOK, ListsOf, BeginSwap, closeVars
<1>7. ListsOK'
    BY <1>6, PollerQueueAssumption DEF ListsOK, BeginSwap
<1> QED
    BY <1>3, <1>4, <1>5, <1>7 DEF QueueInv

LEMMA SwapWaitsQueue ==
    ASSUME QueueInv, NEW c \in Consumers, SwapWaits(c) \/ SwapSpurious(c)
    PROVE  QueueInv'
<1>1. QueueTypeOK /\ ProducersOK /\ CountRight /\ ListsOK
    BY DEF QueueInv
<1>2. QueueTypeOK'
    BY <1>1 DEF QueueTypeOK, SwapWaits, SwapSpurious, listVars, prodVars, closeVars
<1>3. ProducersOK' /\ CountRight'
    BY <1>1 DEF ProducersOK, CountRight, SwapWaits, SwapSpurious, listVars, prodVars, closeVars
<1>4. ASSUME NEW d \in Consumers PROVE ListsOf(d)'
    BY <1>1 DEF QueueTypeOK, ListsOK, ListsOf, SwapWaits, SwapSpurious, listVars, closeVars
<1>5. ListsOK'
    BY <1>1, <1>4 DEF ListsOK, SwapWaits, SwapSpurious, listVars
<1> QED
    BY <1>2, <1>3, <1>5 DEF QueueInv

LEMMA SwapQueue ==
    ASSUME QueueInv, NEW c \in Consumers, Swap(c)
    PROVE  QueueInv' /\ Content' = Content
<1>1. QueueTypeOK /\ ProducersOK /\ CountRight /\ ListsOK
    BY DEF QueueInv
<1>2. /\ getList = putList /\ saved[c] # getList /\ list[saved[c]] = <<>> /\ saved[c] \in Lists
      /\ list[getList] \in Seq(Results) /\ getMutex = c /\ resCnt = Len(list[getList])
    BY <1>1 DEF Swap, ListsOK, ListsOf, QueueTypeOK, CountRight
<1>3. Content' = Content
    BY <1>2, ConcatEmptySeq DEF Content, Swap
<1>4. /\ ppc' \in [Producers -> {"idle", "lock", "wait", "signal"}]
      /\ \A p \in Producers : \/ ppc[p] = "wait" /\ ppc'[p] = "lock"
                              \/ ppc'[p] = ppc[p]
    BY <1>1 DEF QueueTypeOK, Swap, PutCondBroadcast
<1>5. QueueTypeOK'
    BY <1>1, <1>2, <1>4 DEF QueueTypeOK, Swap, closeVars
<1>6. ProducersOK' /\ CountRight'
    BY <1>1, <1>2, <1>4, EmptySeq DEF ProducersOK, CountRight, Swap, closeVars
<1>7. ASSUME NEW d \in Consumers PROVE ListsOf(d)'
    BY <1>1, <1>2 DEF QueueTypeOK, ListsOK, ListsOf, Swap, closeVars
<1>8. ListsOK'
    BY <1>2, <1>7, PollerQueueAssumption DEF ListsOK, Swap
<1> QED
    BY <1>3, <1>5, <1>6, <1>8 DEF QueueInv

LEMMA GetNothingQueue ==
    ASSUME QueueInv, NEW c \in Consumers, GetNothing(c)
    PROVE  QueueInv' /\ nonblock /\ Content = <<>> /\ UNCHANGED <<Content, got, nonblock>>
<1>1. QueueTypeOK /\ ProducersOK /\ CountRight /\ ListsOK
    BY DEF QueueInv
<1>2. /\ getList # putList /\ nonblock /\ list[putList] = <<>> /\ getMutex = c
      /\ list[getList] \in Seq(Results) /\ Len(list[getList]) = 0
    BY <1>1 DEF GetNothing, ListsOK, ListsOf, QueueTypeOK
<1>3. Content = <<>>
    BY <1>2, EmptySeq, ConcatEmptySeq DEF Content
<1>4. UNCHANGED <<Content, got, nonblock>>
    BY DEF Content, GetNothing, listVars, closeVars
<1>5. QueueTypeOK'
    BY <1>1 DEF QueueTypeOK, GetNothing, listVars, prodVars, closeVars
<1>6. ProducersOK' /\ CountRight'
    BY <1>1 DEF ProducersOK, CountRight, GetNothing, listVars, prodVars, closeVars
<1>7. ASSUME NEW d \in Consumers PROVE ListsOf(d)'
    BY <1>1, <1>2, PollerQueueAssumption
    DEF QueueTypeOK, ListsOK, ListsOf, GetNothing, listVars, closeVars
<1>8. ListsOK'
    BY <1>2, <1>7 DEF ListsOK, GetNothing, listVars
<1> QED
    BY <1>2, <1>3, <1>4, <1>5, <1>6, <1>8 DEF QueueInv

LEMMA SetNonblockQueue ==
    ASSUME QueueInv, SetNonblock
    PROVE  QueueInv'
<1>1. CountRight' /\ ListsOK'
    BY ListsKept DEF SetNonblock
<1>2. QueueTypeOK'
    BY DEF QueueInv, QueueTypeOK, SetNonblock, listVars, prodVars, consVars
<1>3. ProducersOK'
    BY DEF QueueInv, ProducersOK, SetNonblock, prodVars
<1> QED
    BY <1>1, <1>2, <1>3 DEF QueueInv

(***************************************************************************)
(* The invariant of the result queue holds throughout: while a consumer    *)
(* waits in swap both pointers name one list and it has the other, empty   *)
(* one; the counts are the lengths of the lists.                           *)
(***************************************************************************)
THEOREM QueueInductive == QueueSpec => []QueueInv
<1>1. QueueInv /\ [QueueNext]_queueVars => QueueInv'
    <2> SUFFICES ASSUME QueueInv, [QueueNext]_queueVars PROVE QueueInv'
        OBVIOUS
    <2>1. CASE UNCHANGED queueVars
        <3>1. CountRight' /\ ListsOK'
            BY <2>1, ListsKept DEF queueVars, closeVars
        <3>2. QueueTypeOK'
            BY <2>1 DEF QueueInv, QueueTypeOK, queueVars, listVars, prodVars, consVars, closeVars
        <3>3. ProducersOK'
            BY <2>1 DEF QueueInv, ProducersOK, queueVars, prodVars, closeVars
        <3> QED
            BY <3>1, <3>2, <3>3 DEF QueueInv
    <2>2. ASSUME NEW p \in Producers, ProducerStep(p) PROVE QueueInv'
        BY <2>2, ProducersMoveOn, PutQueue, SignalsQueue DEF ProducerStep
    <2>3. ASSUME NEW p \in Producers, PutSpurious(p) \/ MarkStopping(p) \/ StopBroadcasts(p)
          PROVE  QueueInv'
        BY <2>3, ProducersMoveOn
    <2>4. ASSUME NEW p \in Producers, NEW r \in Results, BeginPut(p, r) PROVE QueueInv'
        BY <2>4, BeginPutQueue
    <2>5. ASSUME NEW c \in Consumers, ConsumerStep(c) PROVE QueueInv'
        BY <2>5, PopQueue, BeginSwapQueue, SwapWaitsQueue, SwapQueue, GetNothingQueue
        DEF ConsumerStep
    <2>6. ASSUME NEW c \in Consumers, SwapSpurious(c) PROVE QueueInv'
        BY <2>6, SwapWaitsQueue
    <2>7. CASE SetNonblock
        BY <2>7, SetNonblockQueue
    <2>8. CASE NonblockSignals
        BY <2>8, SignalsQueue
    <2> QED
        BY <2>1, <2>2, <2>3, <2>4, <2>5, <2>6, <2>7, <2>8 DEF QueueNext, Ended
<1> QED
    BY <1>1, InitQueueInv, PTL DEF QueueSpec

-----------------------------------------------------------------------------
(* Steps that a handler thread or a poller of the FIFO does not notice.    *)
Unnoticed == UNCHANGED <<Content, got, nonblock, Told>>

LEMMA PlacesUnnoticed ==
    ASSUME UNCHANGED <<list, getList, putList, got, nonblock, cpc>>
    PROVE  Unnoticed
BY DEF Unnoticed, Content, Told

LEMMA ProducerUnnoticed ==
    ASSUME NEW p \in Producers,
           PutWaits(p) \/ PutSpurious(p) \/ MarkStopping(p) \/ StopBroadcasts(p)
               \/ \E r \in Results : BeginPut(p, r)
    PROVE  Unnoticed
BY PlacesUnnoticed
DEF PutWaits, PutSpurious, MarkStopping, StopBroadcasts, BeginPut, listVars, consVars, closeVars

LEMMA SignalUnnoticed ==
    ASSUME QueueInv, NonblockSignals \/ \E p \in Producers : PutSignals(p)
    PROVE  Unnoticed
<1>1. UNCHANGED <<Content, got, nonblock>>
    BY DEF Content, NonblockSignals, PutSignals, listVars, closeVars
<1>2. Told' = Told
    BY DEF Told, GetCondSignalled, NonblockSignals, PutSignals
<1> QED
    BY <1>1, <1>2 DEF Unnoticed

(* Moving one consumer between places that are not the end.                *)
LEMMA ToldKept ==
    ASSUME QueueInv, NEW c \in Consumers, NEW to, to # "ended",
           cpc[c] # "ended", cpc' = [cpc EXCEPT ![c] = to]
    PROVE  Told' = Told
BY DEF QueueInv, QueueTypeOK, Told

LEMMA SwapUnnoticed ==
    ASSUME QueueInv, NEW c \in Consumers,
           BeginSwap(c) \/ SwapWaits(c) \/ SwapSpurious(c) \/ Swap(c)
    PROVE  Unnoticed
<1>1. Told' = Told
    BY ToldKept DEF BeginSwap, SwapWaits, SwapSpurious, Swap
<1>2. Content' = Content
    <2>1. CASE BeginSwap(c) \/ Swap(c)
        BY <2>1, BeginSwapQueue, SwapQueue
    <2>2. CASE SwapWaits(c) \/ SwapSpurious(c)
        BY <2>2 DEF Content, SwapWaits, SwapSpurious, listVars
    <2> QED
        BY <2>1, <2>2
<1>3. UNCHANGED <<got, nonblock>>
    BY DEF BeginSwap, SwapWaits, SwapSpurious, Swap, closeVars
<1> QED
    BY <1>1, <1>2, <1>3 DEF Unnoticed

LEMMA PutRefines ==
    ASSUME QueueInv, NEW p \in Producers, Put(p)
    PROVE  \E r \in Results : Fifo!Put(r)
<1>1. QueueTypeOK /\ ProducersOK
    BY DEF QueueInv
<1>2. pres[p] \in Results /\ ~nonblock
    BY <1>1 DEF ProducersOK, Put
<1>3. PICK g, h : g = list[getList] /\ h = list[putList]
    OBVIOUS
<1>4. g \in Seq(Results) /\ h \in Seq(Results) /\ getList \in Lists /\ putList \in Lists
    BY <1>1, <1>3 DEF QueueTypeOK
<1>5. Content' = Append(Content, pres[p])
    <2>1. CASE getList = putList
        BY <1>1, <1>3, <1>4, <2>1 DEF Content, Put, QueueTypeOK
    <2>2. CASE getList # putList
        <3>1. Content = g \o h /\ Content' = g \o Append(h, pres[p])
            BY <1>1, <1>3, <1>4, <2>2 DEF Content, Put, QueueTypeOK
        <3>2. g \o Append(h, pres[p]) = Append(g \o h, pres[p])
            BY <1>2, <1>4
        <3> QED
            BY <3>1, <3>2
    <2> QED
        BY <2>1, <2>2
<1>6. Told' = Told /\ UNCHANGED <<got, nonblock>>
    BY DEF Told, Put, consVars, closeVars
<1> QED
    BY <1>2, <1>5, <1>6 DEF Fifo!Put

LEMMA GetRefines ==
    ASSUME QueueInv, NEW c \in Consumers, GetFromList(c) \/ GetSwapped(c)
    PROVE  Fifo!Get
<1>1. Told' = Told
    BY ToldKept DEF GetFromList, GetSwapped, Pop
<1>2. nonblock' = nonblock
    BY DEF GetFromList, GetSwapped, closeVars
<1> QED
    BY <1>1, <1>2, PopQueue DEF Fifo!Get

LEMMA NothingRefines ==
    ASSUME QueueInv, NEW c \in Consumers, GetNothing(c)
    PROVE  Fifo!Nothing(c)
<1>1. Told' = Told \cup {c}
    BY DEF QueueInv, QueueTypeOK, Told, GetNothing
<1> QED
    BY <1>1, GetNothingQueue DEF Fifo!Nothing

LEMMA CloseRefines ==
    ASSUME SetNonblock
    PROVE  Fifo!Close
BY DEF Fifo!Close, SetNonblock, Content, Told, listVars, consVars

(***************************************************************************)
(* For any number of pollers, handler threads and results and any res_max, *)
(* the two lists of poller.c, whose pointers a consumer exchanges while    *)
(* producers append, are one FIFO: results leave in the order in which     *)
(* they were appended, each once, and poller_queue_get returns NULL only   *)
(* when the queue is nonblocking, empty and will stay so.                  *)
(***************************************************************************)
THEOREM QueueRefinement == QueueSpec => ImplementsFifo
<1>1. QueueInit => Fifo!Init
    BY DEF QueueInit, Fifo!Init, Content, Told, Lists
<1>2. QueueInv /\ [QueueNext]_queueVars => [Fifo!Next]_(Fifo!fifoVars)
    <2> SUFFICES ASSUME QueueInv, [QueueNext]_queueVars
                 PROVE  Fifo!Next \/ Unnoticed
        BY DEF Fifo!fifoVars, Unnoticed
    <2>1. CASE UNCHANGED queueVars
        BY <2>1, PlacesUnnoticed DEF queueVars, listVars, consVars, closeVars
    <2>2. ASSUME NEW p \in Producers, ProducerStep(p) PROVE Fifo!Next \/ Unnoticed
        BY <2>2, ProducerUnnoticed, SignalUnnoticed, PutRefines DEF ProducerStep, Fifo!Next
    <2>3. ASSUME NEW p \in Producers, PutSpurious(p) \/ MarkStopping(p) \/ StopBroadcasts(p)
                                      \/ \E r \in Results : BeginPut(p, r)
          PROVE  Unnoticed
        BY <2>3, ProducerUnnoticed
    <2>4. ASSUME NEW c \in Consumers, ConsumerStep(c) PROVE Fifo!Next \/ Unnoticed
        BY <2>4, SwapUnnoticed, GetRefines, NothingRefines DEF ConsumerStep, Fifo!Next
    <2>5. ASSUME NEW c \in Consumers, SwapSpurious(c) PROVE Unnoticed
        BY <2>5, SwapUnnoticed
    <2>6. CASE SetNonblock
        BY <2>6, CloseRefines DEF Fifo!Next
    <2>7. CASE NonblockSignals
        BY <2>7, SignalUnnoticed
    <2> QED
        BY <2>1, <2>2, <2>3, <2>4, <2>5, <2>6, <2>7 DEF QueueNext, Ended
<1> QED
    BY <1>1, <1>2, QueueInductive, PTL DEF QueueSpec, ImplementsFifo, Fifo!Spec
=============================================================================
