----------------------------- MODULE ClientTask -----------------------------
(***************************************************************************)
(* WFComplexClientTask (factory/WFTaskFactory.inl) as the HTTP task of     *)
(* factory/HttpTaskImpl.cc uses it, on top of Router: a task that is       *)
(* initialised from a URI, routed by a router task in front of it in its   *)
(* series, makes its exchange with a target, is retried or redirected, and *)
(* ends with its callback.  Other requests for the same host are made by   *)
(* the tasks of Router.                                                    *)
(*                                                                         *)
(* A task is in one place at a time, so its series is left implicit: it is *)
(* at the front of the series ("queued"), behind its router task and the   *)
(* DNS task of that ("routing"), in an exchange, or the series has gone on *)
(* without it ("deleted", or "left" when nobody deleted it).  What the     *)
(* cache, DNS, the upstream and the network answer is left open;           *)
(* allocation failures, but for those in init(), and tasks for a fixed     *)
(* sockaddr are left out.                                                  *)
(***************************************************************************)
EXTENDS Router

CONSTANTS
    Clients,        \* the tasks of Router that are complex client tasks
    RetryMax,       \* retry_max_
    RedirectMax,    \* redirect_max_
    MaxUser         \* bound: redirections by the user's callback

ASSUME ClientAssumption ==
    /\ Clients \subseteq Tasks
    /\ RetryMax \in Nat /\ RedirectMax \in Nat /\ MaxUser \in Nat

VARIABLES
    at,             \* where each client task is
    initState,      \* init_state_
    uriValid,       \* uri_.state = URI_STATE_SUCCESS
    hasRoute,       \* route_result_.request_object # NULL
    retryTimes,     \* retry_times_
    redirectCount,  \* redirect_count_
    calls,          \* history: how often the callback ran,
    users,          \*   how often it redirected the task,
    outcome         \*   and how the last exchange went

clientVars == <<at, initState, uriValid, hasRoute, retryTimes, redirectCount, calls,
                users, outcome>>

(* init() with the URI the task is created for, which is valid or not; for *)
(* a valid one the upstream of that name may still have no server.         *)
ClientInit ==
    /\ Init
    /\ at = [k \in Clients |-> "queued"]
    /\ uriValid \in [Clients -> BOOLEAN]
    /\ initState \in [Clients -> 0 .. 1]
    /\ \A k \in Clients : initState[k] = 1 => uriValid[k]
    /\ hasRoute = [k \in Clients |-> FALSE]
    /\ retryTimes = [k \in Clients |-> 0]
    /\ redirectCount = [k \in Clients |-> 0]
    /\ calls = [k \in Clients |-> 0]
    /\ users = [k \in Clients |-> 0]
    /\ outcome = [k \in Clients |-> "none"]

-----------------------------------------------------------------------------
(* Mutant of PushFront: route_result_ is not cleared.                      *)
PushFrontRouted(k) ==
    /\ at' = [at EXCEPT ![k] = "queued"]
    /\ initState' = [initState EXCEPT ![k] = 1]
    /\ UNCHANGED hasRoute

(* Back to the front of the series, without a route and, since             *)
(* HttpTaskImpl's init_success is always true, inited whatever init found. *)
PushFront(k) ==
    /\ at' = [at EXCEPT ![k] = "queued"]
    /\ hasRoute' = [hasRoute EXCEPT ![k] = FALSE]
    /\ initState' = [initState EXCEPT ![k] = 1]

(* init(uri), for a URI that is valid or not.                              *)
InitUri(k) == \E valid \in BOOLEAN : uriValid' = [uriValid EXCEPT ![k] = valid]

(* set_redirect(uri).                                                      *)
SetRedirect(k) ==
    /\ InitUri(k)
    /\ retryTimes' = [retryTimes EXCEPT ![k] = 0]

(* set_redirect(uri) whose init() is short of memory: a system error, on   *)
(* which done() goes on to set_retry, and so to another init().            *)
SetRedirectThenRetry(k) ==
    /\ RetryMax > 0
    /\ InitUri(k)
    /\ retryTimes' = [retryTimes EXCEPT ![k] = 1]

(* this->callback(this), which may set_redirect; then the task goes to its *)
(* series again or is deleted.                                             *)
CallBack(k) ==
    /\ calls' = [calls EXCEPT ![k] = @ + 1]
    /\ \/ /\ at' = [at EXCEPT ![k] = "deleted"]
          /\ UNCHANGED <<users, initState, uriValid, hasRoute, retryTimes>>
       \/ /\ users[k] < MaxUser
          /\ users' = [users EXCEPT ![k] = @ + 1]
          /\ SetRedirect(k)
          /\ PushFront(k)

(* done() without a target: the timer that was to run switch_callback is   *)
(* commented out, and the series goes on.                                  *)
Leave(k) == at' = [at EXCEPT ![k] = "left"]

-----------------------------------------------------------------------------
(* dispatch().  The request object is acquired, or it cannot be: that is a *)
(* system error, for which done() prepares a retry that does not come.     *)
DispatchRequest(k) ==
    /\ at[k] = "queued"
    /\ initState[k] # 0 /\ hasRoute[k]
    /\ Acquire(k)
    /\ at' = [at EXCEPT ![k] = "exchange"]
    /\ initState' = [initState EXCEPT ![k] = 2]
    /\ UNCHANGED <<uriValid, hasRoute, retryTimes, redirectCount, calls, users, outcome>>

RequestFails(k) ==
    /\ at[k] = "queued"
    /\ initState[k] # 0 /\ hasRoute[k]
    /\ AcquireFails(k)
    /\ Leave(k)
    /\ redirectCount' = [redirectCount EXCEPT ![k] = 0]
    /\ outcome' = [outcome EXCEPT ![k] = "failed"]
    /\ UNCHANGED <<initState, uriValid, hasRoute, retryTimes, calls, users>>

(* A router task is put in front, and done() lets the series go on to it.  *)
DispatchRouter(k) ==
    /\ at[k] = "queued"
    /\ initState[k] # 0 /\ ~hasRoute[k] /\ uriValid[k]
    /\ at' = [at EXCEPT ![k] = "routing"]
    /\ initState' = [initState EXCEPT ![k] = 2]
    /\ UNCHANGED <<vars, uriValid, hasRoute, retryTimes, redirectCount, calls, users,
                   outcome>>

(* No route and no URI to make one from, or init failed.                   *)
DispatchFails(k) ==
    /\ at[k] = "queued"
    /\ initState[k] = 0 \/ (~hasRoute[k] /\ ~uriValid[k])
    /\ Leave(k)
    /\ redirectCount' = [redirectCount EXCEPT ![k] = IF initState[k] = 0 THEN @ ELSE 0]
    /\ UNCHANGED <<vars, initState, uriValid, hasRoute, retryTimes, calls, users, outcome>>

-----------------------------------------------------------------------------
(* The router task has the addresses, from the cache or from DNS, and asks *)
(* the route manager; router_callback puts the client task in front.       *)
RouterAsks(k) ==
    /\ at[k] = "routing"
    /\ GetCreates(k) \/ GetFinds(k) \/ GetReadsClock(k) \/ CheckBreaker(k)
    /\ IF pc'[k] = "routed"
       THEN /\ at' = [at EXCEPT ![k] = "queued"]
            /\ hasRoute' = [hasRoute EXCEPT ![k] = TRUE]
       ELSE UNCHANGED <<at, hasRoute>>
    /\ UNCHANGED <<initState, uriValid, retryTimes, redirectCount, calls, users, outcome>>

(* It has none, or the manager fails: router_callback runs the callback.   *)
RouterFails(k) ==
    /\ at[k] = "routing" /\ pc[k] = "idle"
    /\ CallBack(k)
    /\ UNCHANGED <<vars, redirectCount, outcome>>

-----------------------------------------------------------------------------
(* done() after an exchange: finish_once, the notifications, and           *)
(* switch_callback.                                                        *)

(* A reply that is no redirection, or one too many.                        *)
Succeeds(k) ==
    /\ at[k] = "exchange"
    /\ Succeed(k, "idle") \/ NotifyAvailable(k, "idle")
    /\ IF pc'[k] = "idle"
       THEN /\ CallBack(k)
            /\ outcome' = [outcome EXCEPT ![k] = "ok"]
       ELSE UNCHANGED <<at, initState, uriValid, hasRoute, retryTimes, calls, users,
                        outcome>>
    /\ UNCHANGED redirectCount

MayRedirect(k) == redirectCount[k] < RedirectMax

(* 30x with a Location, valid or not: set_redirect clears the route before *)
(* the route manager would be told about the target.                       *)
Redirected(k) ==
    /\ at[k] = "exchange"
    /\ MayRedirect(k)
    /\ EndOtherwise(k)
    /\ redirectCount' = [redirectCount EXCEPT ![k] = @ + 1]
    /\ SetRedirect(k) \/ SetRedirectThenRetry(k)
    /\ PushFront(k)
    /\ outcome' = [outcome EXCEPT ![k] = "redirected"]
    /\ UNCHANGED <<calls, users>>

(* 30x without a Location: a task error, nobody is told.  (disable_retry   *)
(* has no effect: the task is deleted, or redirected and counts anew.)     *)
BadRedirect(k) ==
    /\ at[k] = "exchange"
    /\ MayRedirect(k)
    /\ EndOtherwise(k)
    /\ redirectCount' = [redirectCount EXCEPT ![k] = @ + 1]
    /\ outcome' = [outcome EXCEPT ![k] = "ok"]
    /\ CallBack(k)

(* Mutant of CountRetry: retry_times_ is not incremented.                  *)
CountRetryNot(k) == UNCHANGED retryTimes

CountRetry(k) == retryTimes' = [retryTimes EXCEPT ![k] = @ + 1]

MayRetry(k) == retryTimes[k] < RetryMax

(* A system error: the target is reported, and the task retried from       *)
(* original_uri_, which every init() sets: the URI it is at.               *)
Failed(k) ==
    /\ at[k] = "exchange"
    /\ NotifyUnavailable(k)
    /\ redirectCount' = [redirectCount EXCEPT ![k] = 0]
    /\ outcome' = [outcome EXCEPT ![k] = "failed"]
    /\ IF MayRetry(k)
       THEN /\ CountRetry(k)
            /\ PushFront(k)
            /\ UNCHANGED <<uriValid, calls, users>>
       ELSE CallBack(k)

(* Another state, such as WFT_STATE_ABORTED: neither.                      *)
Aborted(k) ==
    /\ at[k] = "exchange"
    /\ EndOtherwise(k)
    /\ redirectCount' = [redirectCount EXCEPT ![k] = 0]
    /\ outcome' = [outcome EXCEPT ![k] = "ok"]
    /\ CallBack(k)

-----------------------------------------------------------------------------
ClientStep(k) ==
    \/ DispatchRequest(k) \/ RequestFails(k) \/ DispatchRouter(k) \/ DispatchFails(k)
    \/ RouterAsks(k) \/ RouterFails(k)
    \/ Succeeds(k) \/ Redirected(k) \/ BadRedirect(k) \/ Failed(k) \/ Aborted(k)

ClientNext ==
    \/ \E k \in Clients : ClientStep(k)
    \/ (Tick \/ \E k \in Tasks \ Clients : TaskStep(k)) /\ UNCHANGED clientVars

allVars == <<vars, clientVars>>

(***************************************************************************)
(* As in Router; and a client task goes on while it can: its steps are the *)
(* handlers' and those of threads which get the mutexes they wait for.     *)
(***************************************************************************)
ClientSpec ==
    /\ ClientInit /\ [][ClientNext]_allVars
    /\ WF_allVars(Tick /\ UNCHANGED clientVars)
    /\ \A k \in Clients : WF_allVars(ClientStep(k))
    /\ \A k \in Tasks \ Clients :
           /\ WF_allVars(TaskStep(k) /\ UNCHANGED clientVars)
           /\ SF_allVars(TaskStep(k) /\ pc'[k] = "idle" /\ UNCHANGED clientVars)

-----------------------------------------------------------------------------
(* The client tasks are in states the code can be in.                      *)
ClientTypeOK ==
    /\ at \in [Clients -> {"queued", "routing", "exchange", "deleted", "left"}]
    /\ initState \in [Clients -> 0 .. 2]
    /\ uriValid \in [Clients -> BOOLEAN]
    /\ hasRoute \in [Clients -> BOOLEAN]
    /\ retryTimes \in [Clients -> 0 .. RetryMax]
    /\ redirectCount \in [Clients -> 0 .. RedirectMax]
    /\ calls \in [Clients -> Nat]
    /\ users \in [Clients -> 0 .. MaxUser]
    /\ outcome \in [Clients -> {"none", "ok", "redirected", "failed"}]

(***************************************************************************)
(* A route is for one exchange and a target for as long as it lasts.  A    *)
(* task goes from its router to its exchange with the route made for its   *)
(* present URI; whichever way the exchange ends, by a reply, a retry, a    *)
(* redirection of the server or of the callback, or an error, it goes on   *)
(* with neither, so that a URI is never asked for at the target of another *)
(* and done() takes no old target for one of this round.                   *)
(***************************************************************************)
RouteForOneExchange ==
    \A k \in Clients :
        /\ at[k] = "queued" => pc[k] = IF hasRoute[k] THEN "routed" ELSE "idle"
        /\ at[k] = "routing" => pc[k] \in {"idle", "check"} /\ ~hasRoute[k]
        /\ at[k] = "exchange" => pc[k] \in {"busy", "available"}
        /\ at[k] \in {"deleted", "left"} => pc[k] = "idle"
        /\ at[k] = "exchange" <=> target[k] # NoTarget

(* Left by done(), not called back and not deleted: no target could be     *)
(* acquired, or init() has failed, or there was no URI to find a route by. *)
LeftBehind(k) ==
    /\ at[k] = "left" /\ calls[k] = users[k]
    /\ hasRoute[k] \/ initState[k] = 0 \/ ~uriValid[k]

(***************************************************************************)
(* Every request is called back and its task deleted, with two exceptions: *)
(* the task is left behind for want of a target (the comment in done()     *)
(* says that a timer will run its callback; the timer is commented out),   *)
(* or failures and redirections alternate for ever, since a redirection    *)
(* resets retry_times_ and a failure redirect_count_.  Each limit alone    *)
(* ends a task, and the two together do not.                               *)
(***************************************************************************)
RequestEnds ==
    \A k \in Clients :
        \/ <>(at[k] = "deleted" /\ calls[k] = users[k] + 1)
        \/ <>LeftBehind(k)
        \/ []<>(outcome[k] = "failed") /\ []<>(outcome[k] = "redirected")

=============================================================================
