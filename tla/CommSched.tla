----------------------------- MODULE CommSched -----------------------------
(***************************************************************************)
(* kernel/CommScheduler.cc: targets with a bounded number of connections,  *)
(* groups of targets kept in a heap ordered by relative load, and callers  *)
(* that acquire a slot of a target, or of the least loaded target of a     *)
(* group, and wait on a condition variable when there is none.             *)
(*                                                                         *)
(* Each operation holds the mutex of the target or, when the target is in  *)
(* a group, of the group, and changing the membership takes both: what is  *)
(* done between lock and unlock (or a wait) is one step.                   *)
(***************************************************************************)
EXTENDS Naturals, Sequences, FiniteSets

CONSTANTS
    Targets, Groups,
    MaxLoad,    \* max_load of each target
    Callers,    \* threads that send requests
    NoGroup, NoObject

ASSUME CommSchedAssumption ==
    /\ IsFiniteSet(Targets) /\ IsFiniteSet(Callers)
    /\ MaxLoad \in [Targets -> Nat \ {0}]
    /\ Targets \cap Groups = {}
    /\ NoGroup \notin Groups
    /\ NoObject \notin Targets \cup Groups

Objects == Targets \cup Groups

VARIABLES
    cur,        \* cur_load of each target and group
    groupMax,   \* max_load of each group
    waitCnt,    \* wait_cnt of each target and group
    group,      \* target->group
    index,      \* target->index, counted from 1
    heap,       \* group->tg_heap
    pc,         \* each caller: idle, waiting on a cond, woken, or using a slot
    object,     \* the target or group it waits for, or the target it uses
    timed       \* it waits with a timeout

objVars == <<cur, groupMax, waitCnt, group, index, heap>>
vars == <<objVars, pc, object, timed>>

Init ==
    /\ cur = [o \in Objects |-> 0]
    /\ groupMax = [g \in Groups |-> 0]
    /\ waitCnt = [o \in Objects |-> 0]
    /\ group = [t \in Targets |-> NoGroup]
    /\ index = [t \in Targets |-> 0]
    /\ heap = [g \in Groups |-> <<>>]
    /\ pc = [c \in Callers |-> "idle"]
    /\ object = [c \in Callers |-> NoObject]
    /\ timed = [c \in Callers |-> FALSE]

-----------------------------------------------------------------------------
(* The heap: positions 1 .. Len(h), the parent of p at p \div 2.  load is  *)
(* the cur_load at the time of the comparison.                             *)

(* Mutant of Less: compares loads, not relative loads.                     *)
LessAbsolute(load, a, b) == load[a] < load[b]

(* target_cmp(a, b) < 0: cross-multiplied relative loads.                  *)
Less(load, a, b) == load[a] * MaxLoad[b] < load[b] * MaxLoad[a]

(* heap_adjust moves the target at i on from p to its parent while it is   *)
(* less than that; next[p] = p is where it stops.                          *)
Up(load, h, i) ==
    [p \in DOMAIN h |-> IF p > 1 /\ Less(load, h[i], h[p \div 2]) THEN p \div 2 ELSE p]

(* heapify moves it to the lesser child that is less than it; the last     *)
(* position may have one child only.                                       *)
Down(load, h, i) ==
    [p \in DOMAIN h |->
        LET l == 2 * p
            r == 2 * p + 1
            both == r <= Len(h)
        IN  IF both /\ Less(load, h[r], IF Less(load, h[l], h[i]) THEN h[l] ELSE h[i])
            THEN r
            ELSE IF l <= Len(h) /\ Less(load, h[l], h[i]) THEN l ELSE p]

(* The positions that a target passes on its way from i: the smallest set  *)
(* with i and with next[p] for each p in it.                               *)
Way(next, i) ==
    {p \in DOMAIN next :
        \A S \in SUBSET DOMAIN next :
            i \in S /\ (\A q \in S : next[q] \in S) => p \in S}

(* Each target on the way moves one place back and tg_heap[i] ends where   *)
(* the way does.                                                           *)
Moved(h, i, next) ==
    [p \in DOMAIN h |-> IF p \notin Way(next, i) THEN h[p]
                        ELSE IF next[p] = p THEN h[i] ELSE h[next[p]]]

HeapAdjust(load, h, i) == Moved(h, i, Up(load, h, i))
Heapify(load, h, i)    == Moved(h, i, Down(load, h, i))

(* Every write of a slot of tg_heap is paired with a write of the index of *)
(* the target put there.                                                   *)
Indexed(h, ix, written) ==
    [t \in Targets |->
        IF \E p \in written : h[p] = t THEN CHOOSE p \in written : h[p] = t
        ELSE ix[t]]

-----------------------------------------------------------------------------
(* acquire.                                                                *)

ObjectMax(o) == IF o \in Targets THEN MaxLoad[o] ELSE groupMax[o]

HasRoom(o) == cur[o] < ObjectMax(o)

(* Mutant of Load: the load of the group is not counted.                   *)
LoadUngrouped(t) ==
    LET g == group[t]
        load == [cur EXCEPT ![t] = @ + 1]
    IN  IF g = NoGroup
        THEN cur' = load /\ UNCHANGED <<index, heap>>
        ELSE LET h == Heapify(load, heap[g], index[t]) IN
             /\ cur' = load
             /\ heap' = [heap EXCEPT ![g] = h]
             /\ index' = Indexed(h, index, Way(Down(load, heap[g], index[t]), index[t]))

(* Count one more on target t and on its group, and let t sink.            *)
Load(t) ==
    LET g == group[t]
        load == [cur EXCEPT ![t] = @ + 1]
    IN  IF g = NoGroup
        THEN cur' = load /\ UNCHANGED <<index, heap>>
        ELSE LET h == Heapify(load, heap[g], index[t]) IN
             /\ cur' = [load EXCEPT ![g] = @ + 1]
             /\ heap' = [heap EXCEPT ![g] = h]
             /\ index' = Indexed(h, index, Way(Down(load, heap[g], index[t]), index[t]))

(* The target an acquire of o uses: o itself, or the top of its heap.      *)
Chosen(o) == IF o \in Targets THEN o ELSE heap[o][1]

Take(c, o) ==
    /\ Load(Chosen(o))
    /\ pc' = [pc EXCEPT ![c] = "using"]
    /\ object' = [object EXCEPT ![c] = Chosen(o)]
    /\ timed' = [timed EXCEPT ![c] = FALSE]
    /\ UNCHANGED <<groupMax, group>>

Acquire(c, o) ==
    /\ pc[c] = "idle"
    /\ HasRoom(o)
    /\ Take(c, o)
    /\ UNCHANGED waitCnt

(* No room and wait_timeout # 0 (with 0 it returns EAGAIN at once).        *)
AcquireWaits(c, o, t) ==
    /\ pc[c] = "idle"
    /\ ~HasRoom(o)
    /\ waitCnt' = [waitCnt EXCEPT ![o] = @ + 1]
    /\ pc' = [pc EXCEPT ![c] = "waiting"]
    /\ object' = [object EXCEPT ![c] = o]
    /\ timed' = [timed EXCEPT ![c] = t]
    /\ UNCHANGED <<cur, groupMax, group, index, heap>>

(* Woken: wait_cnt-- and either the slot or, with no timeout, wait again.  *)
Resume(c) ==
    LET o == object[c] IN
    /\ pc[c] = "woken"
    /\ HasRoom(o)
    /\ waitCnt' = [waitCnt EXCEPT ![o] = @ - 1]
    /\ Take(c, o)

ResumeWaits(c) ==
    /\ pc[c] = "woken"
    /\ ~HasRoom(object[c])
    /\ pc' = [pc EXCEPT ![c] = "waiting"]
    /\ UNCHANGED <<objVars, object, timed>>

(* The wait ends by its timeout: the slot is still taken if there is one.  *)
TimesOut(c) ==
    LET o == object[c] IN
    /\ pc[c] = "waiting"
    /\ timed[c]
    /\ waitCnt' = [waitCnt EXCEPT ![o] = @ - 1]
    /\ IF HasRoom(o)
       THEN Take(c, o)
       ELSE /\ pc' = [pc EXCEPT ![c] = "idle"]
            /\ object' = [object EXCEPT ![c] = NoObject]
            /\ timed' = [timed EXCEPT ![c] = FALSE]
            /\ UNCHANGED <<cur, groupMax, group, index, heap>>

SpuriousWakeup(c) ==
    /\ pc[c] = "waiting"
    /\ pc' = [pc EXCEPT ![c] = "woken"]
    /\ UNCHANGED <<objVars, object, timed>>

-----------------------------------------------------------------------------
(* pthread_cond_signal on the condition variable of o: one of those who    *)
(* wait on it, if any.                                                     *)
Waiting(o) == {c \in Callers : pc[c] = "waiting" /\ object[c] = o}
Woken(o)   == {c \in Callers : pc[c] = "woken" /\ object[c] = o}

(* Mutant of Signalled: the signal is forgotten.                           *)
Unsignalled(o, from, new) == new = from

Signalled(o, from, new) ==
    IF Waiting(o) = {} THEN new = from
    ELSE \E c \in Waiting(o) : new = [from EXCEPT ![c] = "woken"]

(* CommSchedTarget::release.  The target's own waiters go first.           *)
Release(c) ==
    LET t == object[c]
        g == group[t]
        load == [cur EXCEPT ![t] = @ - 1]
        left == [pc EXCEPT ![c] = "idle"]
    IN
    /\ pc[c] = "using"
    /\ object' = [object EXCEPT ![c] = NoObject]
    /\ IF waitCnt[t] > 0 THEN Signalled(t, left, pc')
       ELSE IF g # NoGroup /\ waitCnt[g] > 0 THEN Signalled(g, left, pc')
       ELSE pc' = left
    /\ IF g = NoGroup
       THEN cur' = load /\ UNCHANGED <<index, heap>>
       ELSE LET h == HeapAdjust(load, heap[g], index[t]) IN
            /\ cur' = [load EXCEPT ![g] = @ - 1]
            /\ heap' = [heap EXCEPT ![g] = h]
            /\ index' = Indexed(h, index, Way(Up(load, heap[g], index[t]), index[t]))
    /\ UNCHANGED <<groupMax, waitCnt, group, timed>>

-----------------------------------------------------------------------------
(* CommSchedGroup::add and remove.  Neither touches a target that somebody *)
(* waits for (EBUSY), or one that is not in the right place (EEXIST,       *)
(* EINVAL, ENOENT).                                                        *)

Add(g, t) ==
    LET h == Append(heap[g], t)
        n == Len(h)
        inserted == HeapAdjust(cur, h, n)
    IN
    /\ group[t] = NoGroup
    /\ waitCnt[t] = 0
    /\ heap' = [heap EXCEPT ![g] = inserted]
    /\ index' = Indexed(inserted, index, Way(Up(cur, h, n), n))
    /\ group' = [group EXCEPT ![t] = g]
    /\ groupMax' = [groupMax EXCEPT ![g] = @ + MaxLoad[t]]
    /\ cur' = [cur EXCEPT ![g] = @ + cur[t]]
    /\ IF waitCnt[g] > 0 /\ cur'[g] < groupMax'[g]
       THEN Signalled(g, pc, pc')
       ELSE UNCHANGED pc
    /\ UNCHANGED <<waitCnt, object, timed>>

(* heap_remove: the last target fills the gap, climbs and then sinks.      *)
Remove(g, t) ==
    LET i == index[t]
        n == Len(heap[g]) - 1
        last == heap[g][n + 1]
        filled == [SubSeq(heap[g], 1, n) EXCEPT ![i] = last]
        climbed == HeapAdjust(cur, filled, i)
        ix == Indexed(climbed, index, Way(Up(cur, filled, i), i))
        h == Heapify(cur, climbed, ix[last])
    IN
    /\ group[t] = g
    /\ waitCnt[t] = 0
    /\ IF i = n + 1
       THEN /\ heap' = [heap EXCEPT ![g] = SubSeq(heap[g], 1, n)]
            /\ UNCHANGED index
       ELSE /\ heap' = [heap EXCEPT ![g] = h]
            /\ index' = Indexed(h, ix, Way(Down(cur, climbed, ix[last]), ix[last]))
    /\ groupMax' = [groupMax EXCEPT ![g] = @ - MaxLoad[t]]
    /\ cur' = [cur EXCEPT ![g] = @ - cur[t]]
    /\ group' = [group EXCEPT ![t] = NoGroup]
    /\ UNCHANGED <<waitCnt, pc, object, timed>>

-----------------------------------------------------------------------------
CallerStep(c) == Resume(c) \/ ResumeWaits(c)

Next ==
    \/ \E c \in Callers :
           \/ CallerStep(c) \/ TimesOut(c) \/ SpuriousWakeup(c) \/ Release(c)
           \/ \E o \in Objects :
                  Acquire(c, o) \/ \E t \in BOOLEAN : AcquireWaits(c, o, t)
    \/ \E g \in Groups, t \in Targets : Add(g, t) \/ Remove(g, t)

Spec == Init /\ [][Next]_vars

-----------------------------------------------------------------------------
(* Loads, heaps and callers are in states the code can be in; no counter   *)
(* underflows.                                                             *)
TypeOK ==
    /\ cur \in [Objects -> Nat]
    /\ groupMax \in [Groups -> Nat]
    /\ waitCnt \in [Objects -> Nat]
    /\ group \in [Targets -> Groups \cup {NoGroup}]
    /\ index \in [Targets -> Nat]
    /\ heap \in [Groups -> Seq(Targets)]
    /\ pc \in [Callers -> {"idle", "waiting", "woken", "using"}]
    /\ object \in [Callers -> Objects \cup {NoObject}]
    /\ timed \in [Callers -> BOOLEAN]

Members(g) == {t \in Targets : group[t] = g}

(* Who uses a slot of a target, or of a member of a group.                 *)
Using(t)      == {c \in Callers : pc[c] = "using" /\ object[c] = t}
UsingGroup(g) == {c \in Callers : pc[c] = "using" /\ object[c] \in Members(g)}

(* The slots of a group: those of its members.                             *)
Slots(g) == UNION {{t} \X (1 .. MaxLoad[t]) : t \in Members(g)}

(***************************************************************************)
(* The loads are the slots in use, and the figures of a group are those of *)
(* its members taken together, whatever order of acquire, release, add and *)
(* remove led here (a slot may be released after its target left the       *)
(* group).  So no target ever serves more connections than its maximum,    *)
(* even when a group hands it out after looking only at its own figures.   *)
(***************************************************************************)
LoadsAddUp ==
    /\ \A t \in Targets : cur[t] = Cardinality(Using(t)) /\ cur[t] <= MaxLoad[t]
    /\ \A g \in Groups : /\ cur[g] = Cardinality(UsingGroup(g))
                         /\ groupMax[g] = Cardinality(Slots(g))

(***************************************************************************)
(* The heap of a group holds its members, each where its index says, no    *)
(* target less loaded than its parent; so the target the group would hand  *)
(* out next is one with the lowest relative load, and it has room whenever *)
(* the group as a whole has.                                               *)
(***************************************************************************)
HeapSound ==
    \A g \in Groups :
        LET h == heap[g] IN
        /\ Len(h) = Cardinality(Members(g))
        /\ \A t \in Members(g) : index[t] \in DOMAIN h /\ h[index[t]] = t
        /\ \A p \in 2 .. Len(h) : ~Less(cur, h[p], h[p \div 2])
        /\ h # <<>> => \A t \in Members(g) : ~Less(cur, t, Chosen(g))
        /\ HasRoom(g) => HasRoom(Chosen(g))

(***************************************************************************)
(* A slot freed while a caller waits for its target is never overlooked:   *)
(* for each free slot a caller has been woken.  Callers who wait for a     *)
(* group have no such guarantee: release prefers a target with wait_cnt    *)
(* above 0 even when the caller counted there is already awake.            *)
(***************************************************************************)
FreeSlotsNoticed ==
    \A t \in Targets :
        Waiting(t) # {} => MaxLoad[t] - cur[t] <= Cardinality(Woken(t))
=============================================================================
