------------------------------- MODULE Router -------------------------------
(***************************************************************************)
(* manager/RouteManager.cc: the targets of one host name, and the breaker  *)
(* that takes a target which failed out of the scheduling group for        *)
(* MTTR_SECOND seconds.  Tasks ask the manager for the router, acquire one *)
(* of the targets in the group, and report when they end how the target    *)
(* did; a target may be reported long after others have moved it.          *)
(*                                                                         *)
(* A step is what is done under router->mutex, or the tests before it: the *)
(* fast path of get and notify_available reads nbreak, and check_breaker   *)
(* reads the clock, before the mutex is taken.  get holds the manager's    *)
(* mutex_ to its end.  The group is CommSched's; here it is the set of its *)
(* targets, since nobody waits for a target itself (wait_cnt is 0): add    *)
(* fails exactly for a member, remove for a target that is not one.        *)
(***************************************************************************)
EXTENDS Integers, FiniteSets

CONSTANTS
    Targets,    \* the targets init creates, one for each address
    Tasks,      \* client tasks, each making one request after the other
    Nodes,      \* bound: the __breaker_node objects that can exist at a time
    MTTR,       \* MTTR_SECOND
    MaxTime,    \* bound: the last second counted to
    NoTarget

ASSUME RouterAssumption ==
    /\ IsFiniteSet(Targets) /\ Targets # {} /\ NoTarget \notin Targets
    /\ IsFiniteSet(Nodes)
    /\ MTTR \in Nat /\ MaxTime \in Nat

VARIABLES
    exists,     \* the router is in the manager's tree
    inGroup,    \* the targets in router->group
    nleft,      \* router->nleft
    breaker,    \* the nodes on router->breaker_list
    nodeTarget, \* node->target
    nodeTimeout,\* node->timeout
    nbreak,     \* router->nbreak
    now,        \* GET_CURRENT_SECOND
    pc,         \* where each task is
    target,     \* task->target
    curTime     \* the local cur_time of check_breaker

breakerVars == <<breaker, nodeTarget, nodeTimeout, nbreak>>
routerVars == <<exists, inGroup, nleft, breakerVars>>
taskVars == <<pc, target, curTime>>
vars == <<routerVars, now, taskVars>>

(* With one address there is no group and nothing to break.                *)
Single == Cardinality(Targets) <= 1

Init ==
    /\ exists = FALSE
    /\ inGroup = {}
    /\ nleft = 0
    /\ breaker = {}
    /\ nodeTarget = [n \in Nodes |-> NoTarget]
    /\ nodeTimeout = [n \in Nodes |-> 0]
    /\ nbreak = 0
    /\ now = 0
    /\ pc = [k \in Tasks |-> "idle"]
    /\ target = [k \in Tasks |-> NoTarget]
    /\ curTime = [k \in Tasks |-> 0]

(* A second passes.  At MaxTime the count starts again, when nobody keeps  *)
(* a time to compare with: MaxTime bounds what is remembered at a time and *)
(* not how long the system runs.                                           *)
Tick ==
    /\ \/ now < MaxTime /\ now' = now + 1
       \/ /\ now = MaxTime /\ now' = 0
          /\ breaker = {} /\ \A k \in Tasks : pc[k] # "check"
    /\ UNCHANGED <<routerVars, taskVars>>

-----------------------------------------------------------------------------
(* RouteManager::get, under mutex_.                                        *)

MayGet(k) == pc[k] = "idle" /\ \A j \in Tasks : pc[j] # "check"

(* Router::init puts every target in the group.  A router that cannot be   *)
(* initialised is deleted again and get fails: nothing changes.            *)
GetCreates(k) ==
    /\ MayGet(k)
    /\ ~exists
    /\ exists' = TRUE
    /\ inGroup' = IF Single THEN {} ELSE Targets
    /\ nleft' = IF Single THEN 0 ELSE Cardinality(Targets)
    /\ pc' = [pc EXCEPT ![k] = "routed"]
    /\ UNCHANGED <<breakerVars, now, target, curTime>>

(* The router is known and nothing is broken, read without the mutex.      *)
GetFinds(k) ==
    /\ MayGet(k)
    /\ exists
    /\ Single \/ nbreak = 0
    /\ pc' = [pc EXCEPT ![k] = "routed"]
    /\ UNCHANGED <<routerVars, now, target, curTime>>

(* Something is broken: check_breaker reads the clock, then locks.         *)
GetReadsClock(k) ==
    /\ MayGet(k)
    /\ exists
    /\ ~Single /\ nbreak # 0
    /\ curTime' = [curTime EXCEPT ![k] = now]
    /\ pc' = [pc EXCEPT ![k] = "check"]
    /\ UNCHANGED <<routerVars, now, target>>

(* Mutant of Expired: the comparison is the wrong way round.               *)
ExpiredSwapped(time) == {n \in breaker : time < nodeTimeout[n]}

Expired(time) == {n \in breaker : time >= nodeTimeout[n]}

(* Mutant of BroughtBack: expired nodes are deleted and nothing else.      *)
BroughtBackNone(time) == {}

(* The targets of expired nodes that are not back already.                 *)
BroughtBack(time) == {nodeTarget[n] : n \in Expired(time)} \ inGroup

(* Expired nodes are deleted, and what they held is gone.                  *)
CheckBreaker(k) ==
    LET time == curTime[k] IN
    /\ pc[k] = "check"
    /\ inGroup' = inGroup \cup BroughtBack(time)
    /\ nleft' = nleft + Cardinality(BroughtBack(time))
    /\ breaker' = breaker \ Expired(time)
    /\ nodeTarget' = [n \in Nodes |->
                          IF n \in Expired(time) THEN NoTarget ELSE nodeTarget[n]]
    /\ nodeTimeout' = [n \in Nodes |->
                          IF n \in Expired(time) THEN 0 ELSE nodeTimeout[n]]
    /\ nbreak' = nbreak - Cardinality(Expired(time))
    /\ pc' = [pc EXCEPT ![k] = "routed"]
    /\ curTime' = [curTime EXCEPT ![k] = 0]
    /\ UNCHANGED <<exists, now, target>>

-----------------------------------------------------------------------------
(* A task on its route: request_object->acquire, and done().               *)

Acquire(k) ==
    /\ pc[k] = "routed"
    /\ \E t \in IF Single THEN Targets ELSE inGroup :
           target' = [target EXCEPT ![k] = t]
    /\ pc' = [pc EXCEPT ![k] = "busy"]
    /\ UNCHANGED <<routerVars, now, curTime>>

(* No target is free in time, or there is a shortage: acquire fails, and   *)
(* the notifications are without effect for a target that is NULL.         *)
AcquireFails(k) ==
    /\ pc[k] = "routed"
    /\ pc' = [pc EXCEPT ![k] = "idle"]
    /\ UNCHANGED <<routerVars, now, target, curTime>>

(* The exchange is over; the task ends, or goes on with the route it has.  *)
Ends(k, next) ==
    /\ pc' = [pc EXCEPT ![k] = next]
    /\ target' = [target EXCEPT ![k] = NoTarget]

(* WFT_STATE_SUCCESS, up to the mutex of notify_available.                 *)
Succeed(k, next) ==
    /\ pc[k] = "busy"
    /\ IF Single \/ nbreak = 0 THEN Ends(k, next)
       ELSE pc' = [pc EXCEPT ![k] = "available"] /\ UNCHANGED target
    /\ UNCHANGED <<routerVars, now, curTime>>

(* Mutant of NotifyAvailable: nleft is incremented although add failed.    *)
NotifyAvailableCounts(k, next) ==
    /\ pc[k] = "available"
    /\ inGroup' = inGroup \cup {target[k]}
    /\ nleft' = nleft + 1
    /\ Ends(k, next)
    /\ UNCHANGED <<exists, breakerVars, now, curTime>>

(* notify_available, under the mutex.  The target's node stays.            *)
NotifyAvailable(k, next) ==
    /\ pc[k] = "available"
    /\ inGroup' = inGroup \cup {target[k]}
    /\ nleft' = IF target[k] \in inGroup THEN nleft ELSE nleft + 1
    /\ Ends(k, next)
    /\ UNCHANGED <<exists, breakerVars, now, curTime>>

(* Mutant of MayRemove: nleft == 0 instead of nleft <= 1.                  *)
MayRemoveLast(t) == ~Single /\ nleft > 0 /\ t \in inGroup

MayRemove(t) == ~Single /\ nleft > 1 /\ t \in inGroup

NewNode == CHOOSE n \in Nodes : n \notin breaker

(* WFT_STATE_SYS_ERROR: notify_unavailable, under the mutex.  (The first   *)
(* two conjuncts under THEN keep the nodes within their bounds.)           *)
NotifyUnavailable(k) ==
    /\ pc[k] = "busy"
    /\ IF MayRemove(target[k])
       THEN /\ breaker # Nodes
            /\ now + MTTR <= MaxTime
            /\ inGroup' = inGroup \ {target[k]}
            /\ nleft' = nleft - 1
            /\ breaker' = breaker \cup {NewNode}
            /\ nodeTarget' = [nodeTarget EXCEPT ![NewNode] = target[k]]
            /\ nodeTimeout' = [nodeTimeout EXCEPT ![NewNode] = now + MTTR]
            /\ nbreak' = nbreak + 1
       ELSE UNCHANGED <<inGroup, nleft, breakerVars>>
    /\ Ends(k, "idle")
    /\ UNCHANGED <<exists, now, curTime>>

(* Any other state: nobody is told.                                        *)
EndOtherwise(k) ==
    /\ pc[k] = "busy"
    /\ Ends(k, "idle")
    /\ UNCHANGED <<routerVars, now, curTime>>

-----------------------------------------------------------------------------
TaskStep(k) ==
    \/ GetCreates(k) \/ GetFinds(k) \/ GetReadsClock(k) \/ CheckBreaker(k)
    \/ Acquire(k) \/ AcquireFails(k) \/ NotifyUnavailable(k) \/ EndOtherwise(k)
    \/ \E next \in {"idle", "routed"} : Succeed(k, next) \/ NotifyAvailable(k, next)

Next == Tick \/ \E k \in Tasks : TaskStep(k)

Spec == Init /\ [][Next]_vars

(***************************************************************************)
(* Time passes, a task makes progress and comes to an end after however    *)
(* many exchanges, and there are always new requests: it is only a request *)
(* that looks at the breaker list.                                         *)
(***************************************************************************)
FairSpec ==
    /\ Spec
    /\ WF_vars(Tick)
    /\ \A k \in Tasks : WF_vars(TaskStep(k)) /\ SF_vars(TaskStep(k) /\ pc'[k] = "idle")

-----------------------------------------------------------------------------
(* The router and the tasks are in states the code can be in.              *)
TypeOK ==
    /\ exists \in BOOLEAN
    /\ inGroup \subseteq Targets
    /\ nleft \in Int
    /\ breaker \subseteq Nodes
    /\ nodeTarget \in [Nodes -> Targets \cup {NoTarget}]
    /\ nodeTimeout \in [Nodes -> Nat]
    /\ nbreak \in Int
    /\ now \in Nat
    /\ pc \in [Tasks -> {"idle", "check", "routed", "busy", "available"}]
    /\ target \in [Tasks -> Targets \cup {NoTarget}]
    /\ curTime \in [Tasks -> Nat]

(***************************************************************************)
(* nleft and nbreak, kept beside the group and the list and, in the fast   *)
(* paths, trusted instead of them, are what they stand for, whatever the   *)
(* order in which failures, successes and expiries of a target arrive.     *)
(***************************************************************************)
CountsAgree == nleft = Cardinality(inGroup) /\ nbreak = Cardinality(breaker)

(***************************************************************************)
(* The breaker never empties the group: a request always has a target to   *)
(* wait for, however many targets fail at the same time.                   *)
(***************************************************************************)
GroupNeverEmpty == exists /\ ~Single => inGroup # {}

(***************************************************************************)
(* No target is forgotten: one that is out of the group has a node on the  *)
(* breaker list that will bring it back no later than MTTR from now.       *)
(***************************************************************************)
NoneForgotten ==
    exists /\ ~Single =>
        \A t \in Targets \ inGroup :
            \E n \in breaker : nodeTarget[n] = t /\ nodeTimeout[n] <= now + MTTR

(***************************************************************************)
(* A target that was taken out comes back to the group, as long as         *)
(* requests are made.                                                      *)
(***************************************************************************)
TargetsReturn ==
    \A t \in Targets : exists /\ ~Single /\ t \notin inGroup ~> t \in inGroup
=============================================================================
