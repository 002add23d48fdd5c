-------------------------- MODULE ClientTaskProofs --------------------------
(***************************************************************************)
(* Proofs about Router and ClientTask, for any number of targets, tasks    *)
(* and nodes and any MTTR.                                                 *)
(*                                                                         *)
(* The first part is about Router alone: the counters agree with the group *)
(* and the breaker list, the group is never emptied, and no target that    *)
(* was taken out is forgotten.  The second shows that ClientTask           *)
(* implements Router, so that this holds with client tasks that retry and  *)
(* redirect, and that a route is used for one exchange.                    *)
(***************************************************************************)
EXTENDS ClientTask, FiniteSetTheorems, TLAPS

-----------------------------------------------------------------------------
(* The router.                                                             *)

(* A task between acquire and done() has a target, and a node on the list  *)
(* has one: what is added to the group is a target.                        *)
TargetsKnown ==
    /\ \A k \in Tasks : pc[k] \in {"busy", "available"} => target[k] \in Targets
    /\ \A n \in breaker : nodeTarget[n] \in Targets

IInv == TypeOK /\ TargetsKnown /\ CountsAgree /\ GroupNeverEmpty /\ NoneForgotten

(* The group and the breaker list are finite.                              *)
LEMMA FiniteParts ==
    ASSUME TypeOK
    PROVE  /\ IsFiniteSet(inGroup) /\ IsFiniteSet(breaker)
           /\ Cardinality(inGroup) \in Nat /\ Cardinality(breaker) \in Nat
<1>1. IsFiniteSet(inGroup) /\ IsFiniteSet(breaker)
    BY RouterAssumption, FS_Subset DEF TypeOK
<1> QED
    BY <1>1, FS_CardinalityType

(* The state before the first request satisfies the invariant.             *)
LEMMA InitIInv == Init => IInv
<1> SUFFICES ASSUME Init PROVE IInv
    OBVIOUS
<1>1. TypeOK
    <2>1. exists \in BOOLEAN
        BY Zenon DEF Init
    <2>2. /\ inGroup \subseteq Targets /\ breaker \subseteq Nodes
          /\ nleft \in Int /\ nbreak \in Int /\ now \in Nat
        BY DEF Init
    <2>3. /\ nodeTarget \in [Nodes -> Targets \cup {NoTarget}]
          /\ nodeTimeout \in [Nodes -> Nat]
        BY DEF Init
    <2>4. /\ pc \in [Tasks -> {"idle", "check", "routed", "busy", "available"}]
          /\ target \in [Tasks -> Targets \cup {NoTarget}]
          /\ curTime \in [Tasks -> Nat]
        BY DEF Init
    <2> QED
        BY <2>1, <2>2, <2>3, <2>4, Zenon DEF TypeOK
<1>2. CountsAgree
    BY FS_EmptySet DEF Init, CountsAgree
<1>3. TargetsKnown /\ GroupNeverEmpty /\ NoneForgotten
    BY DEF Init, TargetsKnown, GroupNeverEmpty, NoneForgotten
<1> QED
    BY <1>1, <1>2, <1>3 DEF IInv

(* Router::init puts all targets in the group and counts them.             *)
LEMMA GetCreatesIInv ==
    ASSUME IInv, NEW k \in Tasks, GetCreates(k)
    PROVE  IInv'
<1>1. Cardinality(Targets) \in Nat
    BY RouterAssumption, FS_CardinalityType
<1>2. TypeOK' /\ TargetsKnown'
    BY <1>1 DEF IInv, TypeOK, TargetsKnown, GetCreates, breakerVars
<1>3. CountsAgree'
    BY FS_EmptySet DEF IInv, CountsAgree, GetCreates, breakerVars
<1>4. GroupNeverEmpty' /\ NoneForgotten'
    BY RouterAssumption DEF GroupNeverEmpty, NoneForgotten, GetCreates, Single
<1> QED
    BY <1>2, <1>3, <1>4 DEF IInv

(* check_breaker, with whatever time it has read, brings back exactly the  *)
(* targets it counts and keeps the nodes of the others.                    *)
LEMMA CheckBreakerIInv ==
    ASSUME IInv, NEW k \in Tasks, CheckBreaker(k)
    PROVE  IInv'
<1> DEFINE E == Expired(curTime[k])
           B == BroughtBack(curTime[k])
<1>1. E \subseteq breaker
    BY DEF Expired
<1>2. B \subseteq Targets /\ B \cap inGroup = {}
    BY <1>1 DEF BroughtBack, IInv, TargetsKnown
<1>3. /\ IsFiniteSet(E) /\ Cardinality(E) \in Nat
      /\ IsFiniteSet(B) /\ Cardinality(B) \in Nat
    BY <1>1, <1>2, FiniteParts, RouterAssumption, FS_Subset, FS_CardinalityType DEF IInv
<1>4. /\ inGroup' = inGroup \cup B /\ nleft' = nleft + Cardinality(B)
      /\ breaker' = breaker \ E /\ nbreak' = nbreak - Cardinality(E)
      /\ exists' = exists /\ now' = now /\ target' = target
      /\ pc' = [pc EXCEPT ![k] = "routed"]
      /\ curTime' = [curTime EXCEPT ![k] = 0]
      /\ nodeTarget' = [n \in Nodes |-> IF n \in E THEN NoTarget ELSE nodeTarget[n]]
      /\ nodeTimeout' = [n \in Nodes |-> IF n \in E THEN 0 ELSE nodeTimeout[n]]
    BY DEF CheckBreaker
<1>5. \A n \in breaker' : /\ n \in breaker
                          /\ nodeTarget'[n] = nodeTarget[n]
                          /\ nodeTimeout'[n] = nodeTimeout[n]
    BY <1>4 DEF IInv, TypeOK
<1>6. \A n \in E : nodeTarget[n] \in inGroup'
    BY <1>4 DEF BroughtBack
<1> HIDE DEF E, B
<1>7. TypeOK'
    BY <1>1, <1>2, <1>3, <1>4 DEF IInv, TypeOK
<1>8. TargetsKnown'
    BY <1>4, <1>5 DEF IInv, TypeOK, TargetsKnown
<1>9. CountsAgree'
    <2>1. Cardinality(inGroup \cup B) = Cardinality(inGroup) + Cardinality(B)
        <3>1. inGroup \cap B = {} /\ IsFiniteSet(inGroup) /\ Cardinality(inGroup) \in Nat
            BY <1>2, FiniteParts DEF IInv
        <3>2. Cardinality(inGroup \cup B)
                  = Cardinality(inGroup) + Cardinality(B) - Cardinality(inGroup \cap B)
            BY <1>3, <3>1, FS_Union
        <3>3. Cardinality(inGroup \cap B) = 0
            BY <3>1, FS_EmptySet
        <3> QED
            BY <1>3, <3>1, <3>2, <3>3
    <2>2. breaker \cap E = E
        BY <1>1
    <2>3. Cardinality(breaker \ E) = Cardinality(breaker) - Cardinality(E)
        BY <2>2, FiniteParts, FS_Difference DEF IInv
    <2> QED
        BY <1>4, <2>1, <2>3 DEF IInv, CountsAgree
<1>10. GroupNeverEmpty'
    BY <1>4 DEF IInv, GroupNeverEmpty
<1>11. NoneForgotten'
    <2> SUFFICES ASSUME exists, ~Single, NEW t \in Targets \ inGroup'
                 PROVE  \E n \in breaker' :
                            nodeTarget'[n] = t /\ nodeTimeout'[n] <= now' + MTTR
        BY <1>4 DEF NoneForgotten, Single
    <2>1. PICK n \in breaker : nodeTarget[n] = t /\ nodeTimeout[n] <= now + MTTR
        BY <1>4 DEF IInv, NoneForgotten
    <2>2. n \in breaker'
        BY <1>4, <1>6, <2>1
    <2> QED
        BY <1>4, <1>5, <2>1, <2>2
<1> QED
    BY <1>7, <1>8, <1>9, <1>10, <1>11 DEF IInv

(* notify_available counts the target exactly when it is new in the group. *)
LEMMA NotifyAvailableIInv ==
    ASSUME IInv, NEW k \in Tasks, NEW next \in {"idle", "routed"},
           NotifyAvailable(k, next)
    PROVE  IInv'
<1>1. target[k] \in Targets
    BY DEF IInv, TargetsKnown, NotifyAvailable
<1>2. TypeOK' /\ TargetsKnown'
    BY <1>1 DEF IInv, TypeOK, TargetsKnown, NotifyAvailable, Ends, breakerVars
<1>3. CountsAgree'
    BY FiniteParts, FS_AddElement
    DEF IInv, CountsAgree, NotifyAvailable, breakerVars
<1>4. GroupNeverEmpty' /\ NoneForgotten'
    BY DEF IInv, GroupNeverEmpty, NoneForgotten, NotifyAvailable, breakerVars, Single
<1> QED
    BY <1>2, <1>3, <1>4 DEF IInv

(* notify_unavailable takes out a target only when another is left, and    *)
(* leaves a node for it.                                                   *)
LEMMA NotifyUnavailableIInv ==
    ASSUME IInv, NEW k \in Tasks, NotifyUnavailable(k)
    PROVE  IInv'
<1> DEFINE t == target[k]
<1>1. t \in Targets
    BY DEF IInv, TargetsKnown, NotifyUnavailable
<1>2. CASE ~MayRemove(t)
    <2>1. /\ UNCHANGED <<inGroup, nleft, breakerVars, exists, now, curTime>>
          /\ Ends(k, "idle")
        BY <1>2 DEF NotifyUnavailable
    <2>2. TypeOK' /\ TargetsKnown'
        BY <2>1 DEF IInv, TypeOK, TargetsKnown, Ends, breakerVars
    <2> QED
        BY <2>1, <2>2
        DEF IInv, CountsAgree, GroupNeverEmpty, NoneForgotten, breakerVars, Single
<1>3. CASE MayRemove(t)
    <2>1. /\ breaker # Nodes
          /\ inGroup' = inGroup \ {t} /\ nleft' = nleft - 1
          /\ breaker' = breaker \cup {NewNode} /\ nbreak' = nbreak + 1
          /\ nodeTarget' = [nodeTarget EXCEPT ![NewNode] = t]
          /\ nodeTimeout' = [nodeTimeout EXCEPT ![NewNode] = now + MTTR]
          /\ Ends(k, "idle")
          /\ UNCHANGED <<exists, now, curTime>>
        BY <1>3 DEF NotifyUnavailable
    <2>2. NewNode \in Nodes /\ NewNode \notin breaker
        BY <2>1 DEF NewNode, IInv, TypeOK
    <2>3. t \in inGroup /\ nleft > 1
        BY <1>3 DEF MayRemove
    <2>4. \A n \in breaker : /\ nodeTarget'[n] = nodeTarget[n]
                             /\ nodeTimeout'[n] = nodeTimeout[n]
        BY <2>1, <2>2 DEF IInv, TypeOK
    <2>5. nodeTarget'[NewNode] = t /\ nodeTimeout'[NewNode] = now + MTTR
        BY <2>1, <2>2 DEF IInv, TypeOK
    <2> HIDE DEF t
    <2>6. TypeOK'
        BY <1>1, <2>1, <2>2, RouterAssumption DEF IInv, TypeOK, Ends
    <2>7. TargetsKnown'
        BY <1>1, <2>1, <2>4, <2>5 DEF IInv, TypeOK, TargetsKnown, Ends
    <2>8. CountsAgree'
        BY <2>1, <2>2, <2>3, FiniteParts, FS_AddElement, FS_RemoveElement
        DEF IInv, CountsAgree
    <2>9. inGroup' # {}
        <3>1. Cardinality(inGroup') > 0
            BY <2>1, <2>3, <2>8 DEF IInv, TypeOK, CountsAgree
        <3> QED
            BY <3>1, FS_EmptySet
    <2>10. NoneForgotten'
        <3> SUFFICES ASSUME exists, ~Single, NEW u \in Targets \ inGroup'
                     PROVE  \E n \in breaker' :
                                nodeTarget'[n] = u /\ nodeTimeout'[n] <= now' + MTTR
            BY <2>1 DEF NoneForgotten, Single
        <3>1. CASE u = t
            BY <2>1, <2>5, <3>1, RouterAssumption DEF IInv, TypeOK
        <3>2. CASE u # t
            BY <2>1, <2>4, <3>2 DEF IInv, NoneForgotten
        <3> QED
            BY <3>1, <3>2
    <2> QED
        BY <2>6, <2>7, <2>8, <2>9, <2>10 DEF IInv, GroupNeverEmpty
<1> QED
    BY <1>2, <1>3

(* The steps that leave the router alone, and the passing of time.         *)
LEMMA OtherIInv ==
    ASSUME IInv, UNCHANGED routerVars, now' \in Nat, now' >= now \/ breaker = {},
           TypeOK', TargetsKnown'
    PROVE  IInv'
<1>1. CountsAgree' /\ GroupNeverEmpty'
    BY DEF IInv, CountsAgree, GroupNeverEmpty, routerVars, breakerVars, Single
<1>2. NoneForgotten'
    <2> SUFFICES ASSUME exists, ~Single, NEW t \in Targets \ inGroup
                 PROVE  \E n \in breaker :
                            nodeTarget[n] = t /\ nodeTimeout[n] <= now' + MTTR
        BY DEF NoneForgotten, routerVars, breakerVars, Single
    <2>1. PICK n \in breaker : nodeTarget[n] = t /\ nodeTimeout[n] <= now + MTTR
        BY DEF IInv, NoneForgotten
    <2>2. nodeTimeout[n] \in Nat /\ now \in Nat
        BY DEF IInv, TypeOK
    <2> QED
        BY <2>1, <2>2, RouterAssumption
<1> QED
    BY <1>1, <1>2 DEF IInv

(* The invariant is inductive: every step of every task keeps it, and so   *)
(* does the passing of time.                                               *)
THEOREM RouterInductive == IInv /\ [Next]_vars => IInv'
<1> SUFFICES ASSUME IInv, [Next]_vars
             PROVE  IInv'
    OBVIOUS
<1>1. CASE UNCHANGED vars
    <2>1. UNCHANGED routerVars /\ UNCHANGED now
        BY <1>1 DEF vars
    <2>2. TypeOK' /\ TargetsKnown'
        BY <1>1 DEF IInv, TypeOK, TargetsKnown, vars, routerVars, breakerVars, taskVars
    <2> QED
        BY <2>1, <2>2, OtherIInv DEF IInv, TypeOK
<1>2. CASE Tick
    <2>1. TypeOK' /\ TargetsKnown'
        BY <1>2
        DEF Tick, IInv, TypeOK, TargetsKnown, routerVars, breakerVars, taskVars
    <2> QED
        BY <1>2, <2>1, OtherIInv DEF Tick, IInv, TypeOK
<1>3. ASSUME NEW k \in Tasks, GetFinds(k) \/ GetReadsClock(k)
      PROVE  IInv'
    <2>1. UNCHANGED <<routerVars, now>>
        BY <1>3 DEF GetFinds, GetReadsClock
    <2>2. TypeOK' /\ TargetsKnown'
        BY <1>3 DEF GetFinds, GetReadsClock, IInv, TypeOK, TargetsKnown,
                    routerVars, breakerVars
    <2> QED
        BY <2>1, <2>2, OtherIInv DEF IInv, TypeOK
<1>4. ASSUME NEW k \in Tasks, Acquire(k)
      PROVE  IInv'
    <2>1. UNCHANGED <<routerVars, now>>
        BY <1>4 DEF Acquire
    <2>2. PICK t \in Targets : target' = [target EXCEPT ![k] = t]
        BY <1>4 DEF Acquire, IInv, TypeOK
    <2>3. TypeOK' /\ TargetsKnown'
        BY <1>4, <2>1, <2>2
        DEF Acquire, IInv, TypeOK, TargetsKnown, routerVars, breakerVars
    <2> QED
        BY <2>1, <2>3, OtherIInv DEF IInv, TypeOK
<1>5. ASSUME NEW k \in Tasks, NEW next \in {"idle", "routed"},
             Succeed(k, next) \/ EndOtherwise(k) \/ AcquireFails(k)
      PROVE  IInv'
    <2>1. UNCHANGED <<routerVars, now>>
        BY <1>5 DEF Succeed, EndOtherwise, AcquireFails
    <2>2. TypeOK' /\ TargetsKnown'
        BY <1>5 DEF Succeed, EndOtherwise, AcquireFails, Ends, IInv, TypeOK, TargetsKnown,
                    routerVars, breakerVars
    <2> QED
        BY <2>1, <2>2, OtherIInv DEF IInv, TypeOK
<1> QED
    BY <1>1, <1>2, <1>3, <1>4, <1>5, GetCreatesIInv, CheckBreakerIInv,
       NotifyAvailableIInv, NotifyUnavailableIInv
    DEF Next, TaskStep

(* The invariant holds in every reachable state.                           *)
LEMMA RouterInvariance == Spec => []IInv
BY InitIInv, RouterInductive, PTL DEF Spec

(***************************************************************************)
(* nleft and nbreak are what they stand for, for any number of targets and *)
(* tasks: the fast paths that trust them are right to.                     *)
(***************************************************************************)
THEOREM CountsCorrect == Spec => []CountsAgree
<1>1. IInv => CountsAgree
    BY DEF IInv
<1> QED
    BY <1>1, RouterInvariance, PTL

(***************************************************************************)
(* The breaker never takes the last target out of the group.               *)
(***************************************************************************)
THEOREM NeverEmpty == Spec => []GroupNeverEmpty
<1>1. IInv => GroupNeverEmpty
    BY DEF IInv
<1> QED
    BY <1>1, RouterInvariance, PTL

(***************************************************************************)
(* Every target that is out of the group is on the breaker list with a     *)
(* timeout at most MTTR ahead.                                             *)
(***************************************************************************)
THEOREM NeverForgotten == Spec => []NoneForgotten
<1>1. IInv => NoneForgotten
    BY DEF IInv
<1> QED
    BY <1>1, RouterInvariance, PTL

-----------------------------------------------------------------------------
(* Client tasks.                                                           *)

(* What a client task does to the router is what Router lets a task do.    *)
LEMMA ClientStepIsTaskStep ==
    ASSUME NEW k \in Clients, ClientStep(k)
    PROVE  [Next]_vars
<1>1. k \in Tasks
    BY ClientAssumption
<1>2. CASE DispatchRouter(k) \/ DispatchFails(k) \/ RouterFails(k)
    BY <1>2 DEF DispatchRouter, DispatchFails, RouterFails
<1>3. CASE ~(DispatchRouter(k) \/ DispatchFails(k) \/ RouterFails(k))
    <2>1. TaskStep(k)
        BY <1>3 DEF ClientStep, DispatchRequest, RequestFails, RouterAsks, Succeeds,
                    Redirected, BadRedirect, Failed, Aborted, TaskStep
    <2> QED
        BY <1>1, <2>1 DEF Next
<1> QED
    BY <1>2, <1>3

(***************************************************************************)
(* Client tasks with their retries and redirections implement the requests *)
(* of Router: however often done() sends a task round again, the manager   *)
(* sees the gets and notifications that Router allows.                     *)
(***************************************************************************)
THEOREM ClientImplementsRouter == ClientSpec => Spec
<1>1. ClientInit => Init
    BY DEF ClientInit
<1>2. [ClientNext]_allVars => [Next]_vars
    <2> SUFFICES ASSUME [ClientNext]_allVars
                 PROVE  [Next]_vars
        OBVIOUS
    <2>1. CASE UNCHANGED allVars
        BY <2>1 DEF allVars
    <2>2. CASE Tick \/ \E k \in Tasks \ Clients : TaskStep(k)
        BY <2>2 DEF Next
    <2>3. CASE \E k \in Clients : ClientStep(k)
        BY <2>3, ClientStepIsTaskStep
    <2> QED
        BY <2>1, <2>2, <2>3 DEF ClientNext
<1> QED
    BY <1>1, <1>2, PTL DEF ClientSpec, Spec

(***************************************************************************)
(* The breaker's counters agree with its group and list, its group is      *)
(* never empty and no target is forgotten, with client tasks too.          *)
(***************************************************************************)
THEOREM ClientBreakerSound == ClientSpec => [](CountsAgree /\ GroupNeverEmpty /\ NoneForgotten)
BY ClientImplementsRouter, CountsCorrect, NeverEmpty, NeverForgotten, PTL

-----------------------------------------------------------------------------
(* Where a task is, what route it has and what it holds of the router go   *)
(* together; a task whose init() failed has not been anywhere yet.         *)
PlaceInv ==
    /\ TypeOK
    /\ at \in [Clients -> {"queued", "routing", "exchange", "deleted", "left"}]
    /\ hasRoute \in [Clients -> BOOLEAN]
    /\ initState \in [Clients -> {0, 1, 2}]
    /\ \A k \in Clients : initState[k] = 0 => at[k] \in {"queued", "left"} /\ ~hasRoute[k]
    /\ RouteForOneExchange

(* What the invariant says of a task at a, inited to i, with a route or    *)
(* not, for which the router is at p and which has target t.               *)
Fits(a, i, r, p, t) ==
    /\ i = 0 => a \in {"queued", "left"} /\ ~r
    /\ a = "queued" => p = IF r THEN "routed" ELSE "idle"
    /\ a = "routing" => p \in {"idle", "check"} /\ ~r
    /\ a = "exchange" => p \in {"busy", "available"}
    /\ a \in {"deleted", "left"} => p = "idle"
    /\ a = "exchange" <=> t # NoTarget

(* Before a step, it says so of every task, and of no more than its type.  *)
LEMMA PlaceFacts ==
    ASSUME PlaceInv, NEW k \in Clients
    PROVE  /\ k \in Tasks
           /\ Fits(at[k], initState[k], hasRoute[k], pc[k], target[k])
           /\ at[k] \in {"queued", "routing", "exchange", "deleted", "left"}
           /\ hasRoute[k] \in BOOLEAN /\ initState[k] \in {0, 1, 2}
           /\ at = [at EXCEPT ![k] = at[k]]
           /\ hasRoute = [hasRoute EXCEPT ![k] = hasRoute[k]]
           /\ initState = [initState EXCEPT ![k] = initState[k]]
           /\ pc = [pc EXCEPT ![k] = pc[k]]
           /\ target = [target EXCEPT ![k] = target[k]]
BY ClientAssumption DEF PlaceInv, RouteForOneExchange, Fits, TypeOK

(* A step of one task that keeps the invariant for that task keeps it.     *)
LEMMA PlaceStep ==
    ASSUME PlaceInv, TypeOK', NEW k \in Clients,
           NEW a \in {"queued", "routing", "exchange", "deleted", "left"},
           NEW i \in {0, 1, 2}, NEW r \in BOOLEAN, NEW p, NEW t, Fits(a, i, r, p, t),
           at' = [at EXCEPT ![k] = a], initState' = [initState EXCEPT ![k] = i],
           hasRoute' = [hasRoute EXCEPT ![k] = r],
           pc' = [pc EXCEPT ![k] = p], target' = [target EXCEPT ![k] = t]
    PROVE  PlaceInv'
<1>1. /\ at' \in [Clients -> {"queued", "routing", "exchange", "deleted", "left"}]
      /\ hasRoute' \in [Clients -> BOOLEAN]
      /\ initState' \in [Clients -> {0, 1, 2}]
    BY DEF PlaceInv
<1>2. ASSUME NEW j \in Clients
      PROVE  Fits(at'[j], initState'[j], hasRoute'[j], pc'[j], target'[j])
    <2>1. CASE j = k
        <3>1. /\ at'[j] = a /\ initState'[j] = i /\ hasRoute'[j] = r
              /\ pc'[j] = p /\ target'[j] = t
            BY <2>1, ClientAssumption DEF PlaceInv, TypeOK
        <3> QED
            BY <3>1
    <2>2. CASE j # k
        <3>1. /\ at'[j] = at[j] /\ initState'[j] = initState[j]
              /\ hasRoute'[j] = hasRoute[j]
              /\ pc'[j] = pc[j] /\ target'[j] = target[j]
            BY <2>2, ClientAssumption DEF PlaceInv, TypeOK
        <3> QED
            BY <3>1, PlaceFacts
    <2> QED
        BY <2>1, <2>2
<1> QED
    BY <1>1, <1>2 DEF PlaceInv, RouteForOneExchange, Fits

(* Running the callback of a task that has let go of its target.           *)
LEMMA CallBackPlace ==
    ASSUME PlaceInv, TypeOK', NEW k \in Clients, CallBack(k), initState[k] # 0,
           pc' = [pc EXCEPT ![k] = "idle"], target' = [target EXCEPT ![k] = NoTarget]
    PROVE  PlaceInv'
<1>1. CASE at' = [at EXCEPT ![k] = "deleted"] /\ UNCHANGED <<hasRoute, initState>>
    <2>1. Fits("deleted", initState[k], hasRoute[k], "idle", NoTarget)
        BY DEF Fits
    <2>2. /\ hasRoute' = [hasRoute EXCEPT ![k] = hasRoute[k]]
          /\ initState' = [initState EXCEPT ![k] = initState[k]]
        BY <1>1, PlaceFacts
    <2>3. hasRoute[k] \in BOOLEAN /\ initState[k] \in {0, 1, 2}
        BY PlaceFacts
    <2> QED
        BY <1>1, <2>1, <2>2, <2>3, PlaceStep
<1>2. CASE PushFront(k)
    <2>1. Fits("queued", 1, FALSE, "idle", NoTarget)
        BY DEF Fits
    <2> QED
        BY <1>2, <2>1, PlaceStep DEF PushFront
<1> QED
    BY <1>1, <1>2 DEF CallBack

(* Every step of dispatch keeps the task in its place.                     *)
LEMMA DispatchPlace ==
    ASSUME PlaceInv, TypeOK', NEW k \in Clients,
           \/ DispatchRequest(k) \/ RequestFails(k)
           \/ DispatchRouter(k) \/ DispatchFails(k)
    PROVE  PlaceInv'
<1>1. CASE DispatchRequest(k)
    <2>1. PICK t \in Targets : target' = [target EXCEPT ![k] = t]
        BY <1>1, PlaceFacts DEF DispatchRequest, Acquire, PlaceInv, TypeOK
    <2>2. Fits("exchange", 2, hasRoute[k], "busy", t)
        BY RouterAssumption DEF Fits
    <2>3. /\ at' = [at EXCEPT ![k] = "exchange"] /\ initState' = [initState EXCEPT ![k] = 2]
          /\ pc' = [pc EXCEPT ![k] = "busy"]
          /\ hasRoute' = [hasRoute EXCEPT ![k] = hasRoute[k]]
        BY <1>1, PlaceFacts DEF DispatchRequest, Acquire
    <2>4. hasRoute[k] \in BOOLEAN
        BY PlaceFacts
    <2> QED
        BY <2>1, <2>2, <2>3, <2>4, PlaceStep
<1>2. CASE RequestFails(k)
    <2>0. target[k] = NoTarget
        BY <1>2, PlaceFacts DEF RequestFails, Fits
    <2>1. /\ at' = [at EXCEPT ![k] = "left"] /\ pc' = [pc EXCEPT ![k] = "idle"]
          /\ target' = [target EXCEPT ![k] = NoTarget]
          /\ hasRoute' = [hasRoute EXCEPT ![k] = hasRoute[k]]
          /\ initState' = [initState EXCEPT ![k] = initState[k]]
        BY <1>2, <2>0, PlaceFacts DEF RequestFails, AcquireFails, Leave
    <2>2. Fits("left", initState[k], hasRoute[k], "idle", NoTarget)
        BY <1>2, PlaceFacts DEF RequestFails, Fits
    <2>3. hasRoute[k] \in BOOLEAN /\ initState[k] \in {0, 1, 2}
        BY PlaceFacts
    <2> QED
        BY <2>1, <2>2, <2>3, PlaceStep
<1>3. CASE DispatchRouter(k)
    <2>1. /\ at' = [at EXCEPT ![k] = "routing"] /\ initState' = [initState EXCEPT ![k] = 2]
          /\ pc' = [pc EXCEPT ![k] = pc[k]]
          /\ target' = [target EXCEPT ![k] = target[k]]
          /\ hasRoute' = [hasRoute EXCEPT ![k] = hasRoute[k]]
        BY <1>3, PlaceFacts DEF DispatchRouter, vars, taskVars
    <2>2. Fits("routing", 2, hasRoute[k], pc[k], target[k])
        BY <1>3, PlaceFacts DEF DispatchRouter, Fits
    <2>3. hasRoute[k] \in BOOLEAN
        BY PlaceFacts
    <2> QED
        BY <2>1, <2>2, <2>3, PlaceStep
<1>4. CASE DispatchFails(k)
    <2>0. pc[k] = "idle" /\ target[k] = NoTarget
        BY <1>4, PlaceFacts DEF DispatchFails, Fits
    <2>1. /\ at' = [at EXCEPT ![k] = "left"]
          /\ initState' = [initState EXCEPT ![k] = initState[k]]
          /\ pc' = [pc EXCEPT ![k] = "idle"]
          /\ target' = [target EXCEPT ![k] = NoTarget]
          /\ hasRoute' = [hasRoute EXCEPT ![k] = hasRoute[k]]
        BY <1>4, <2>0, PlaceFacts DEF DispatchFails, vars, taskVars, Leave
    <2>2. Fits("left", initState[k], hasRoute[k], "idle", NoTarget)
        BY <1>4, PlaceFacts DEF DispatchFails, Fits
    <2>3. hasRoute[k] \in BOOLEAN /\ initState[k] \in {0, 1, 2}
        BY PlaceFacts
    <2> QED
        BY <2>1, <2>2, <2>3, PlaceStep
<1> QED
    BY <1>1, <1>2, <1>3, <1>4

(* So does what the router task does,                                      *)
LEMMA RoutingPlace ==
    ASSUME PlaceInv, TypeOK', NEW k \in Clients, RouterAsks(k) \/ RouterFails(k)
    PROVE  PlaceInv'
<1>1. CASE RouterAsks(k)
    <2>1. PICK p \in {"routed", "check"} : pc' = [pc EXCEPT ![k] = p]
        BY <1>1 DEF RouterAsks, GetCreates, GetFinds, GetReadsClock, CheckBreaker
    <2>2. pc'[k] = p
        BY <2>1, ClientAssumption DEF PlaceInv, TypeOK
    <2>3. /\ at[k] = "routing" /\ initState[k] \in {0, 1, 2}
          /\ target' = [target EXCEPT ![k] = target[k]]
          /\ initState' = [initState EXCEPT ![k] = initState[k]]
        BY <1>1, PlaceFacts
        DEF RouterAsks, GetCreates, GetFinds, GetReadsClock, CheckBreaker
    <2>4. CASE p = "routed"
        <3>1. /\ at' = [at EXCEPT ![k] = "queued"]
              /\ hasRoute' = [hasRoute EXCEPT ![k] = TRUE]
            BY <1>1, <2>2, <2>4 DEF RouterAsks
        <3>2. Fits("queued", initState[k], TRUE, p, target[k])
            BY <2>3, <2>4, PlaceFacts DEF Fits
        <3> QED
            BY <2>1, <2>3, <3>1, <3>2, PlaceStep
    <2>5. CASE p = "check"
        <3>1. /\ at' = [at EXCEPT ![k] = "routing"]
              /\ hasRoute' = [hasRoute EXCEPT ![k] = FALSE]
            BY <1>1, <2>2, <2>3, <2>5, PlaceFacts DEF RouterAsks, Fits
        <3>2. Fits("routing", initState[k], FALSE, p, target[k])
            BY <2>3, <2>5, PlaceFacts DEF Fits
        <3> QED
            BY <2>1, <2>3, <3>1, <3>2, PlaceStep
    <2> QED
        BY <2>4, <2>5
<1>2. CASE RouterFails(k)
    <2>1. /\ pc[k] = "idle" /\ at[k] = "routing" /\ CallBack(k)
          /\ pc' = pc /\ target' = target
        BY <1>2 DEF RouterFails, vars, taskVars
    <2>2. initState[k] # 0 /\ target[k] = NoTarget
        BY <2>1, PlaceFacts DEF Fits
    <2>3. /\ pc' = [pc EXCEPT ![k] = "idle"]
          /\ target' = [target EXCEPT ![k] = NoTarget]
        BY <2>1, <2>2, PlaceFacts
    <2> QED
        BY <2>1, <2>2, <2>3, CallBackPlace
<1> QED
    BY <1>1, <1>2

(* and the end of an exchange, however it comes.                           *)
LEMMA DonePlace ==
    ASSUME PlaceInv, TypeOK', NEW k \in Clients,
           \/ Succeeds(k) \/ Redirected(k) \/ BadRedirect(k)
           \/ Failed(k) \/ Aborted(k)
    PROVE  PlaceInv'
<1>1. at[k] = "exchange" /\ initState[k] # 0
    <2>1. at[k] = "exchange"
        BY DEF Succeeds, Redirected, BadRedirect, Failed, Aborted
    <2> QED
        BY <2>1, PlaceFacts DEF Fits
<1>2. CASE Ends(k, "idle") /\ (CallBack(k) \/ PushFront(k))
    <2>1. /\ pc' = [pc EXCEPT ![k] = "idle"]
          /\ target' = [target EXCEPT ![k] = NoTarget]
        BY <1>2 DEF Ends
    <2>2. Fits("queued", 1, FALSE, "idle", NoTarget)
        BY DEF Fits
    <2>3. CASE PushFront(k)
        BY <2>1, <2>2, <2>3, PlaceStep DEF PushFront
    <2> QED
        BY <1>1, <1>2, <2>1, <2>3, CallBackPlace
<1>3. CASE Redirected(k) \/ BadRedirect(k) \/ Failed(k) \/ Aborted(k)
    <2>1. Ends(k, "idle") /\ (CallBack(k) \/ PushFront(k))
        BY <1>3 DEF Redirected, BadRedirect, Failed, Aborted, EndOtherwise, NotifyUnavailable
    <2> QED
        BY <1>2, <2>1
<1>4. CASE Succeeds(k)
    <2>1. CASE Ends(k, "idle")
        <3>1. pc'[k] = "idle"
            BY <2>1, ClientAssumption DEF Ends, PlaceInv, TypeOK
        <3> QED
            BY <1>2, <1>4, <2>1, <3>1 DEF Succeeds
    <2>2. CASE pc' = [pc EXCEPT ![k] = "available"] /\ UNCHANGED target
        <3>1. pc'[k] = "available"
            BY <2>2, ClientAssumption DEF PlaceInv, TypeOK
        <3>2. PICK i \in {0, 1, 2}, r \in BOOLEAN, t \in Targets \cup {NoTarget} :
                  i = initState[k] /\ r = hasRoute[k] /\ t = target[k]
            BY PlaceFacts DEF PlaceInv, TypeOK
        <3>3. /\ at' = [at EXCEPT ![k] = "exchange"]
              /\ initState' = [initState EXCEPT ![k] = i]
              /\ hasRoute' = [hasRoute EXCEPT ![k] = r]
              /\ pc' = [pc EXCEPT ![k] = "available"]
              /\ target' = [target EXCEPT ![k] = t]
            BY <1>1, <1>4, <2>2, <3>1, <3>2, PlaceFacts DEF Succeeds
        <3>4. Fits("exchange", i, r, "available", t)
            BY <1>1, <3>2, PlaceFacts DEF Fits
        <3> QED
            BY <3>3, <3>4, PlaceStep, Zenon
    <2> QED
        BY <1>4, <2>1, <2>2 DEF Succeeds, Succeed, NotifyAvailable
<1> QED
    BY <1>3, <1>4

(* The other tasks leave the client tasks where they are.                  *)
LEMMA OtherPlace ==
    ASSUME PlaceInv, TypeOK', UNCHANGED clientVars,
           Tick \/ \E k \in Tasks \ Clients : TaskStep(k)
    PROVE  PlaceInv'
<1>1. \A j \in Clients : pc'[j] = pc[j] /\ target'[j] = target[j]
    <2>1. CASE Tick
        BY <2>1 DEF Tick, taskVars
    <2>2. ASSUME NEW k \in Tasks \ Clients, TaskStep(k)
          PROVE  \A j \in Clients : pc'[j] = pc[j] /\ target'[j] = target[j]
        <3>1. \E p : pc' = [pc EXCEPT ![k] = p]
            BY <2>2 DEF TaskStep, GetCreates, GetFinds, GetReadsClock, CheckBreaker, Acquire,
                        AcquireFails, NotifyUnavailable, EndOtherwise, Succeed,
                        NotifyAvailable, Ends
        <3>2. target' = target \/ \E t : target' = [target EXCEPT ![k] = t]
            BY <2>2 DEF TaskStep, GetCreates, GetFinds, GetReadsClock, CheckBreaker, Acquire,
                        AcquireFails, NotifyUnavailable, EndOtherwise, Succeed,
                        NotifyAvailable, Ends
        <3> QED
            BY <3>1, <3>2, ClientAssumption DEF PlaceInv, TypeOK
    <2> QED
        BY <2>1, <2>2
<1>2. UNCHANGED <<at, hasRoute, initState>>
    BY DEF clientVars
<1> QED
    BY <1>1, <1>2 DEF PlaceInv, RouteForOneExchange

(***************************************************************************)
(* For any number of client tasks, targets, retries and redirections, a    *)
(* client task goes into an exchange with the route made for its present   *)
(* URI and out of it with neither route nor target, whichever way it ends. *)
(***************************************************************************)
THEOREM RouteCorrect == ClientSpec => []RouteForOneExchange
<1>1. ClientInit => PlaceInv
    <2> SUFFICES ASSUME ClientInit PROVE PlaceInv
        OBVIOUS
    <2>1. TypeOK
        BY InitIInv DEF ClientInit, IInv
    <2>2. /\ at \in [Clients -> {"queued", "routing", "exchange", "deleted", "left"}]
          /\ hasRoute \in [Clients -> BOOLEAN] /\ initState \in [Clients -> {0, 1, 2}]
          /\ \A k \in Clients : at[k] = "queued" /\ ~hasRoute[k]
        BY DEF ClientInit
    <2>3. \A k \in Clients : pc[k] = "idle" /\ target[k] = NoTarget
        BY ClientAssumption DEF ClientInit, Init
    <2> QED
        BY <2>1, <2>2, <2>3 DEF PlaceInv, RouteForOneExchange
<1>2. PlaceInv /\ TypeOK' /\ [ClientNext]_allVars => PlaceInv'
    <2> SUFFICES ASSUME PlaceInv, TypeOK', [ClientNext]_allVars
                 PROVE  PlaceInv'
        OBVIOUS
    <2>1. CASE UNCHANGED allVars
        BY <2>1 DEF allVars, clientVars, vars, taskVars, PlaceInv, RouteForOneExchange
    <2>2. ASSUME NEW k \in Clients, ClientStep(k)
          PROVE  PlaceInv'
        BY <2>2, DispatchPlace, RoutingPlace, DonePlace DEF ClientStep
    <2> QED
        BY <2>1, <2>2, OtherPlace DEF ClientNext
<1>3. PlaceInv => RouteForOneExchange
    BY DEF PlaceInv
<1>4. IInv => TypeOK
    BY DEF IInv
<1>5. ClientSpec => []TypeOK
    BY <1>4, ClientImplementsRouter, RouterInvariance, PTL
<1> QED
    BY <1>1, <1>2, <1>3, <1>5, PTL DEF ClientSpec
=============================================================================
