------------------------------ MODULE Upstream ------------------------------
(***************************************************************************)
(* manager/UpstreamManager.cc: one upstream, the servers added to it and   *)
(* the groups they are in, the choice of a server for a request, and the   *)
(* breaker: a server that failed max_fails times in a row is on its        *)
(* group's breaker list for MTTR_SECOND seconds.                           *)
(*                                                                         *)
(* Threads add, remove, disable and enable servers and make requests.  A   *)
(* step is what is done under a group's mutex, or the reads before it:     *)
(* notify_available and notify_unavailable read ua->group without a lock,  *)
(* and take no part in the upstream's read-write lock.  The plain int      *)
(* available_weight_ is changed under the mutex of one group or another,   *)
(* so its new value is computed in one step and stored in a later one.     *)
(*                                                                         *)
(* The vectors of masters and slaves of a group, and masters_, hold the    *)
(* servers whose group pointer says so; which of several candidates        *)
(* weights, hashes, shuffles and callbacks pick is left open.  A loop of   *)
(* disable_server or enable_server over the servers of one address, which  *)
(* lock their groups in turn, is one step.                                 *)
(***************************************************************************)
EXTENDS Integers, FiniteSets

CONSTANTS
    Servers,    \* UpstreamAddress objects
    Addresses,
    GroupIds,   \* group_id of grouped servers
    Weights,
    Limits,     \* values of max_fails
    Modes,      \* how upstream_create made it: the mode and try_another_
    Threads,
    Managers,   \* bound: the threads that add, remove, disable and enable servers
    MTTR,       \* MTTR_SECOND
    MaxTime,    \* bound: the last second considered
    MaxFail,    \* bound: failures counted for a server
    MaxBreak,   \* bound: nbreak, which notify_available does not decrement
    NoServer, NoGroup

Default == -1
Groups == GroupIds \cup {Default}
Params == [address : Addresses, group : Groups, master : BOOLEAN,
           weight : Weights, maxFails : Limits]

ASSUME UpstreamAssumption ==
    /\ IsFiniteSet(Servers) /\ NoServer \notin Servers
    /\ Modes \subseteq {"weighted", "consistent", "manual"} \X BOOLEAN
    /\ Managers \subseteq Threads
    /\ GroupIds \subseteq Nat /\ NoGroup \notin Groups
    /\ Weights \subseteq Nat \ {0} /\ Limits \subseteq Nat \ {0}
    /\ MTTR \in Nat /\ MaxTime \in Nat /\ MaxFail \in Nat /\ MaxBreak \in Nat

VARIABLES
    mode,       \* "weighted", "consistent" or "manual": what upstream_create set
    tryAnother, \* try_another_
    params,     \* of each server: params, or none before it is added,
    group,      \*   group,
    failCount,  \*   fail_count,
    listed,     \*   list.next # NULL
    brokenTimeout, \* and broken_timeout
    nbreak,     \* of each group: nbreak,
    nalive,     \*   nalive
    weight,     \*   and weight
    available,  \* available_weight_
    now,        \* GET_CURRENT_SECOND
    pc,         \* where each thread is,
    next,       \*   and will be after it has stored available_weight_,
    lock,       \*   how it holds rwlock_,
    held,       \*   the groups whose mutex it holds,
    value,      \*   what it is about to store in available_weight_,
    todo,       \*   the groups check_all_breaker has not come to,
    time,       \*   its cur_time,
    server,     \*   the server of its request
    seen        \*   and the group pointer it read

config == <<mode, tryAnother>>
serverVars == <<params, group, failCount, listed, brokenTimeout>>
groupVars == <<nbreak, nalive, weight>>
getVars == <<todo, time, server, seen>>
vars == <<config, serverVars, groupVars, available, now, pc, next, lock, held,
          value, getVars>>

Added == {u \in Servers : params[u] # <<>>}
Members == {u \in Added : group[u] # NoGroup}
Masters == {u \in Members : params[u].master}
Grouped(u) == params[u].group # Default
Down(u) == failCount[u] >= params[u].maxFails

Init ==
    /\ \E m \in Modes : mode = m[1] /\ tryAnother = m[2]
    /\ params = [u \in Servers |-> <<>>]
    /\ group = [u \in Servers |-> NoGroup]
    /\ failCount = [u \in Servers |-> 0]
    /\ listed = [u \in Servers |-> FALSE]
    /\ brokenTimeout = [u \in Servers |-> 0]
    /\ nbreak = [g \in Groups |-> 0]
    /\ nalive = [g \in Groups |-> 0]
    /\ weight = [g \in Groups |-> 0]
    /\ available = 0
    /\ now = 0
    /\ pc = [k \in Threads |-> "idle"]
    /\ next = [k \in Threads |-> "idle"]
    /\ lock = [k \in Threads |-> "none"]
    /\ held = [k \in Threads |-> {}]
    /\ value = [k \in Threads |-> 0]
    /\ todo = [k \in Threads |-> {}]
    /\ time = [k \in Threads |-> 0]
    /\ server = [k \in Threads |-> NoServer]
    /\ seen = [k \in Threads |-> NoGroup]

Tick ==
    /\ now < MaxTime
    /\ now' = now + 1
    /\ UNCHANGED <<config, serverVars, groupVars, available, pc, next, lock, held,
                   value, getVars>>

Free(gs) == \A k \in Threads : held[k] \cap gs = {}
MayRead == \A k \in Threads : lock[k] # "write"
MayWrite == \A k \in Threads : lock[k] = "none"

-----------------------------------------------------------------------------
(* lose_one_server and gain_one_server for the servers S of one step:      *)
(* nalive, and the change of available_weight_.                            *)

InGroup(g, S) == {u \in S : params[u].group = g}

LoseAlive(S) == [g \in Groups |-> nalive[g] - Cardinality(InGroup(g, S))]
GainAlive(S) == [g \in Groups |-> nalive[g] + Cardinality(InGroup(g, S))]

(* The weights of servers, and of groups, added up: the number of their    *)
(* units.                                                                  *)
Weight(S)       == Cardinality(UNION {{u} \X (1 .. params[u].weight) : u \in S})
GroupWeight(gs) == Cardinality(UNION {{g} \X (1 .. weight[g]) : g \in gs})

OwnWeight(S) == Weight({u \in S : ~Grouped(u) /\ params[u].master})

Lost(S) ==
    LET dead == {g \in GroupIds : InGroup(g, S) # {} /\ LoseAlive(S)[g] = 0}
    IN  GroupWeight(dead) + OwnWeight(S)

Gained(S) ==
    LET risen == {g \in GroupIds : InGroup(g, S) # {} /\ nalive[g] = 0}
    IN  GroupWeight(risen) + OwnWeight(S)

(* Under the mutexes of gs, available_weight_ will change by delta; the    *)
(* locks are kept until it is stored.  The thread goes on at to.           *)
Change(k, gs, delta, rw, to) ==
    IF delta = 0
    THEN /\ pc' = [pc EXCEPT ![k] = to]
         /\ lock' = [lock EXCEPT ![k] = IF to = "idle" THEN "none" ELSE rw]
         /\ UNCHANGED <<next, held, value>>
    ELSE /\ pc' = [pc EXCEPT ![k] = "store"]
         /\ next' = [next EXCEPT ![k] = to]
         /\ lock' = [lock EXCEPT ![k] = rw]
         /\ held' = [held EXCEPT ![k] = gs]
         /\ value' = [value EXCEPT ![k] = available + delta]

Store(k) ==
    /\ pc[k] = "store"
    /\ available' = value[k]
    /\ value' = [value EXCEPT ![k] = 0]
    /\ held' = [held EXCEPT ![k] = {}]
    /\ pc' = [pc EXCEPT ![k] = next[k]]
    /\ next' = [next EXCEPT ![k] = "idle"]
    /\ lock' = [lock EXCEPT ![k] = IF next[k] = "idle" THEN "none" ELSE @]
    /\ UNCHANGED <<config, serverVars, groupVars, now, getVars>>

-----------------------------------------------------------------------------
(* add and del, under the write lock (upstream_replace_server is a del     *)
(* followed by an add).                                                    *)

Add(k, u, p) ==
    /\ pc[k] = "idle" /\ MayWrite
    /\ u \notin Added
    /\ Free({p.group})
    /\ params' = [params EXCEPT ![u] = p]
    /\ group' = [group EXCEPT ![u] = p.group]
    /\ nalive' = [nalive EXCEPT ![p.group] = @ + 1]
    /\ weight' = [weight EXCEPT ![p.group] = IF p.master THEN @ + p.weight ELSE @]
    /\ Change(k, {p.group},
              IF p.group # Default THEN IF nalive[p.group] = 0 THEN weight[p.group] ELSE 0
              ELSE IF p.master THEN p.weight ELSE 0,
              "write", "idle")
    /\ UNCHANGED <<config, failCount, listed, brokenTimeout, nbreak, available, now,
                   getVars>>

(* Mutant of Uncounted: a server that is down is lost a second time.       *)
UncountedTwice(u) == {u}

(* What removing u takes from nalive and the weight.                       *)
Uncounted(u) == {u} \ {v \in Added : Down(v)}

(* One round of del's loop over the servers of an address; server[k] is    *)
(* the one before.                                                         *)
Del(k, u) ==
    LET g == group[u]
        a == params[u].address
        rest == {v \in Members \ {u} : params[v].address = a}
    IN  /\ u \in Members
        /\ \/ pc[k] = "idle" /\ MayWrite
           \/ pc[k] = "del" /\ params[server[k]].address = a
        /\ Free({g})
        /\ group' = [group EXCEPT ![u] = NoGroup]
        /\ nalive' = LoseAlive(Uncounted(u))
        /\ weight' = [weight EXCEPT ![g] = @ - (IF params[u].master THEN params[u].weight
                                               ELSE 0)]
        /\ Change(k, {g}, -Lost(Uncounted(u)), "write", IF rest = {} THEN "idle" ELSE "del")
        /\ server' = [server EXCEPT ![k] = IF rest = {} THEN NoServer ELSE u]
        /\ UNCHANGED <<config, params, failCount, listed, brokenTimeout, nbreak,
                       available, now, todo, time, seen>>

-----------------------------------------------------------------------------
(* The servers S of unlisted members go down: onto the breaker lists.      *)
Break(S) ==
    /\ listed' = [u \in Servers |-> listed[u] \/ u \in S]
    /\ brokenTimeout' = [u \in Servers |->
                             IF u \in S THEN now + MTTR ELSE brokenTimeout[u]]
    /\ nbreak' = [g \in Groups |-> nbreak[g] + Cardinality(InGroup(g, S))]
    /\ \A g \in Groups : nbreak'[g] <= MaxBreak
    /\ nalive' = LoseAlive(S)

DisableServer(k, a) ==
    LET S == {u \in Members : params[u].address = a}
        broken == {u \in S : ~listed[u]}
    IN  /\ pc[k] = "idle" /\ MayRead
        /\ S # {} /\ Free({group[u] : u \in S})
        /\ now + MTTR <= MaxTime
        /\ failCount' = [u \in Servers |->
                             IF u \in S THEN params[u].maxFails ELSE failCount[u]]
        /\ Break(broken)
        /\ Change(k, {group[u] : u \in S}, -Lost(broken), "read", "idle")
        /\ UNCHANGED <<config, params, group, weight, available, now, getVars>>

(* notify_available for the servers S; back are those that count again.    *)
(* (broken_timeout is not read while a server is not listed: it is 0.)     *)
Repair(S, back) ==
    /\ listed' = [u \in Servers |-> listed[u] /\ u \notin S]
    /\ failCount' = [u \in Servers |-> IF u \in S THEN 0 ELSE failCount[u]]
    /\ brokenTimeout' = [u \in Servers |-> IF u \in S THEN 0 ELSE brokenTimeout[u]]
    /\ nalive' = GainAlive(back)

EnableServer(k, a) ==
    LET S == {u \in Members : params[u].address = a}
        back == {u \in S : listed[u] /\ Down(u)}
    IN  /\ pc[k] = "idle" /\ MayRead
        /\ S # {} /\ Free({group[u] : u \in S})
        /\ Repair(S, back)
        /\ Change(k, {group[u] : u \in S}, Gained(back), "read", "idle")
        /\ UNCHANGED <<config, params, group, nbreak, weight, available, now, getVars>>

-----------------------------------------------------------------------------
(* UpstreamManager::choose: Upstream::get, under the read lock.            *)

(* A master is picked and is up, or all breakers are looked at first; the  *)
(* consistent mode looks at them in any case.                              *)
GetPicks(k, u) ==
    /\ pc[k] = "idle" /\ MayRead
    /\ mode # "consistent"
    /\ u \in Masters
    /\ server' = [server EXCEPT ![k] = u]
    /\ IF Down(u)
       THEN /\ pc' = [pc EXCEPT ![k] = "breakers"]
            /\ lock' = [lock EXCEPT ![k] = "read"]
            /\ todo' = [todo EXCEPT ![k] = Groups]
            /\ time' = [time EXCEPT ![k] = now]
       ELSE /\ pc' = [pc EXCEPT ![k] = "request"]
            /\ UNCHANGED <<lock, todo, time>>
    /\ UNCHANGED <<config, serverVars, groupVars, available, now, next, held, value, seen>>

GetConsistent(k) ==
    /\ pc[k] = "idle" /\ MayRead
    /\ mode = "consistent"
    /\ pc' = [pc EXCEPT ![k] = "breakers"]
    /\ lock' = [lock EXCEPT ![k] = "read"]
    /\ todo' = [todo EXCEPT ![k] = Groups]
    /\ time' = [time EXCEPT ![k] = now]
    /\ UNCHANGED <<config, serverVars, groupVars, available, now, next, held, value,
                   server, seen>>

(* Mutant of Probation: fail_count is left at max_fails.                   *)
ProbationNone(u) == params[u].maxFails

(* fail_count of a server whose time on the list is over.                  *)
Probation(u) == params[u].maxFails - 1

(* check_one_breaker returns at once when nbreak is 0, read without the    *)
(* mutex.  An expired server gets one more try before it is down again.    *)
CheckOneBreaker(k, g) ==
    LET expired == {u \in Added : /\ listed[u] /\ params[u].group = g
                                  /\ time[k] >= brokenTimeout[u]}
        back == {u \in expired : Down(u) /\ group[u] = g}
    IN  /\ pc[k] = "breakers"
        /\ g \in todo[k] /\ \A h \in todo[k] : g <= h
        /\ todo' = [todo EXCEPT ![k] = @ \ {g}]
        /\ IF nbreak[g] = 0
           THEN UNCHANGED <<failCount, listed, brokenTimeout, nbreak, nalive,
                            pc, next, lock, held, value>>
           ELSE /\ Free({g})
                /\ failCount' = [u \in Servers |-> IF u \in expired /\ Down(u)
                                                   THEN Probation(u)
                                                   ELSE failCount[u]]
                /\ listed' = [u \in Servers |-> listed[u] /\ u \notin expired]
                /\ brokenTimeout' = [u \in Servers |-> IF u \in expired THEN 0
                                                       ELSE brokenTimeout[u]]
                /\ nbreak' = [nbreak EXCEPT ![g] = @ - Cardinality(expired)]
                /\ nalive' = GainAlive(back)
                /\ Change(k, {g}, Gained(back), "read", "breakers")
        /\ UNCHANGED <<config, params, group, weight, available, now, time, server, seen>>

(* UpstreamGroup::get_one: a master that is up, or else a slave.           *)
GetOne(g) ==
    LET up == {u \in Members : group[u] = g /\ ~Down(u)} IN
    IF nalive[g] = 0 \/ up = {} THEN {NoServer}
    ELSE IF up \cap Masters # {} THEN up \cap Masters ELSE up

GetOneSlave(g) ==
    LET up == {u \in Members \ Masters : group[u] = g /\ ~Down(u)} IN
    IF nalive[g] = 0 \/ up = {} THEN {NoServer} ELSE up

(* __is_alive_or_group_alive                                               *)
Eligible == {u \in Masters : IF Grouped(u) THEN nalive[group[u]] > 0 ELSE ~Down(u)}

(* __check_get_weak of any eligible master; consistent_hash_select finds   *)
(* one whenever there is one.                                              *)
Weak(u) ==
    IF Grouped(u) /\ Down(u) /\ GetOne(group[u]) # {NoServer} THEN GetOne(group[u]) ELSE {u}
HashSelect == IF Eligible = {} THEN {NoServer} ELSE UNION {Weak(u) : u \in Eligible}
WeightedTryAnother == IF available = 0 THEN {NoServer} ELSE HashSelect

(* __check_get_strong                                                      *)
Strong(u) == IF ~Down(u) THEN {u} ELSE IF Grouped(u) THEN GetOne(group[u]) ELSE {NoServer}

Selected(k) ==
    IF mode = "consistent" THEN HashSelect
    ELSE IF Strong(server[k]) # {NoServer} \/ ~tryAnother THEN Strong(server[k])
    ELSE IF mode = "weighted" THEN WeightedTryAnother ELSE HashSelect

(* What get can return after the breakers.                                 *)
Answers(k) ==
    IF Selected(k) = {NoServer} THEN GetOneSlave(Default) ELSE Selected(k)

GetSelects(k) ==
    /\ pc[k] = "breakers" /\ todo[k] = {}
    /\ \E u \in Answers(k) :
           /\ server' = [server EXCEPT ![k] = u]
           /\ pc' = [pc EXCEPT ![k] = IF u = NoServer THEN "idle" ELSE "request"]
    /\ lock' = [lock EXCEPT ![k] = "none"]
    /\ time' = [time EXCEPT ![k] = 0]
    /\ UNCHANGED <<config, serverVars, groupVars, available, now, next, held, value,
                   todo, seen>>

-----------------------------------------------------------------------------
(* The end of a request, by way of the cookie.                             *)

(* notify_* read ua->group; a request may also end without a word.         *)
RequestEnds(k, to) ==
    /\ pc[k] = "request"
    /\ pc' = [pc EXCEPT ![k] = to]
    /\ IF to = "idle"
       THEN server' = [server EXCEPT ![k] = NoServer] /\ UNCHANGED seen
       ELSE seen' = [seen EXCEPT ![k] = group[server[k]]] /\ UNCHANGED server
    /\ UNCHANGED <<config, serverVars, groupVars, available, now, next, lock, held,
                   value, todo, time>>

Forget(k) ==
    /\ server' = [server EXCEPT ![k] = NoServer]
    /\ seen' = [seen EXCEPT ![k] = NoGroup]
    /\ UNCHANGED <<todo, time>>

(* Without the group the list is left alone.  (nbreak is not decremented.) *)
NotifyAvailable(k) ==
    LET u == server[k]
        g == seen[k]
        back == IF listed[u] /\ group[u] = g /\ Down(u) THEN {u} ELSE {}
    IN  /\ pc[k] = "available"
        /\ IF g = NoGroup
           THEN /\ failCount' = [failCount EXCEPT ![u] = 0]
                /\ pc' = [pc EXCEPT ![k] = "idle"]
                /\ UNCHANGED <<listed, brokenTimeout, nalive, next, lock, held, value>>
           ELSE /\ Free({g})
                /\ Repair({u}, back)
                /\ Change(k, {g}, Gained(back), "none", "idle")
        /\ Forget(k)
        /\ UNCHANGED <<config, params, group, nbreak, weight, available, now>>

(* Whether one more failure breaks u.                                      *)
Breaks(u, g) == failCount[u] + 1 = params[u].maxFails /\ group[u] = g /\ ~listed[u]

NotifyUnavailable(k) ==
    LET u == server[k]
        g == seen[k]
        broken == IF g # NoGroup /\ Breaks(u, g) THEN {u} ELSE {}
    IN  /\ pc[k] = "unavailable"
        /\ failCount[u] < MaxFail
        /\ now + MTTR <= MaxTime
        /\ g # NoGroup => Free({g})
        /\ failCount' = [failCount EXCEPT ![u] = @ + 1]
        /\ Break(broken)
        /\ Change(k, {g}, -Lost(broken), "none", "idle")
        /\ Forget(k)
        /\ UNCHANGED <<config, params, group, weight, available, now>>

-----------------------------------------------------------------------------
Get(k) ==
    \/ GetConsistent(k) \/ GetSelects(k) \/ Store(k)
    \/ \E u \in Servers : GetPicks(k, u)
    \/ \E g \in Groups : CheckOneBreaker(k, g)

Notify(k) ==
    \/ NotifyAvailable(k) \/ NotifyUnavailable(k)
    \/ \E to \in {"idle", "available", "unavailable"} : RequestEnds(k, to)

Manage(k) ==
    \/ \E u \in Servers : Del(k, u) \/ \E p \in Params : Add(k, u, p)
    \/ \E a \in Addresses : DisableServer(k, a) \/ EnableServer(k, a)

Next ==
    \/ Tick
    \/ \E k \in Threads : Get(k) \/ Notify(k)
    \/ \E k \in Managers : Manage(k)

Spec == Init /\ [][Next]_vars

-----------------------------------------------------------------------------
(***************************************************************************)
(* The counters that get_one, __is_alive_or_group_alive and the weighted   *)
(* selection trust instead of looking at the servers are right, however    *)
(* failures, successes, expiries, disable_server and removals of the same  *)
(* server interleave: nalive is the number of servers of the group that    *)
(* are up, weight is that of its masters, and in an upstream without       *)
(* groups available_weight_ is the weight of the masters that are up,      *)
(* whenever nobody holds the mutex it is changed under.                    *)
(***************************************************************************)
CountersRight ==
    /\ \A g \in Groups :
           /\ nalive[g] = Cardinality({u \in Members : group[u] = g /\ ~Down(u)})
           /\ weight[g] = Weight({u \in Masters : group[u] = g})
    /\ (\A u \in Added : ~Grouped(u)) /\ Free({Default}) =>
           available = OwnWeight({u \in Members : ~Down(u)})

(***************************************************************************)
(* No server stays down for ever: one that is down is on the breaker list  *)
(* of its group and due no later than MTTR from now, and the group's       *)
(* nbreak, which makes check_one_breaker skip it, is not 0.                *)
(***************************************************************************)
DownIsListed ==
    \A u \in Members :
        Down(u) => listed[u] /\ brokenTimeout[u] <= now + MTTR /\ nbreak[group[u]] > 0
=============================================================================
