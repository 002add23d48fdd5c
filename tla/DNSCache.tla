------------------------------ MODULE DNSCache ------------------------------
(***************************************************************************)
(* manager/DNSCache.cc on top of LRUCache, used by router tasks            *)
(* (WFRouterTask in factory/WFTaskFactory.cc): a task looks its host up,   *)
(* and when there is nothing to be used resolves it, puts the addresses    *)
(* in the cache and routes by them while it holds the handle.              *)
(*                                                                         *)
(* Each entry has a time to live (expire_time, for get_ttl) and a shorter  *)
(* time for tasks that retry (confident_time, for get_confident).  A task  *)
(* that finds it over moves it on by an increment and is to resolve anew;  *)
(* the others go on with the old addresses, until the new time is over     *)
(* too: at once, when the entry was late by more than the increment.  The  *)
(* times are read without mutex_, and once more under it.                  *)
(* The cache's own mutex makes its operations single steps; prune and      *)
(* set_max_size, which DNSCache does not call, are kept, so that what is   *)
(* said of LRUCache is checked for every use of it.                        *)
(***************************************************************************)
EXTENDS LRUCache

CONSTANTS
    Routers,    \* router tasks, one request after the other
    Lives,      \* pairs of dns_ttl_default and dns_ttl_min
    Forever,    \* (unsigned int)-1, and INT64_MAX of the times
    Increment,  \* TTL_INC and CONFIDENT_INC
    MaxTime     \* bound: the last second considered

ASSUME DNSCacheAssumption ==
    /\ \A l \in Lives : \A i \in 1 .. 2 : l[i] = Forever \/ l[i] \in Nat
    /\ Increment \in Nat \ {0} /\ MaxTime \in Nat
    /\ IsFiniteSet(Routers)

Kinds == {"ttl", "confident"}

VARIABLES
    limit,      \* of each handle: expire_time ("ttl") and confident_time
    since,      \* history: its limits when it was put
    moved,      \*   and how often a lookup has moved each on
    now,        \* GET_CURRENT_SECOND
    pc,         \* where each router task is,
    host,       \*   its host and port,
    kind,       \*   what its lookup goes by,
    handle,     \*   the handle it holds
    time        \*   and its cur_time

taskVars == <<pc, host, kind, handle, time>>
entryVars == <<limit, since, moved>>
dnsVars == <<entryVars, now, taskVars>>

DNSInit ==
    /\ Init
    /\ limit = [h \in Handles |-> [x \in Kinds |-> 0]]
    /\ since = limit
    /\ moved = [h \in Handles |-> [x \in Kinds |-> 0]]
    /\ now = 0
    /\ pc = [r \in Routers |-> "idle"]
    /\ host = [r \in Routers |-> NoKey]
    /\ kind = [r \in Routers |-> "ttl"]
    /\ handle = [r \in Routers |-> NoHandle]
    /\ time = [r \in Routers |-> 0]

Tick ==
    /\ now < MaxTime
    /\ now' = now + 1
    /\ UNCHANGED <<vars, entryVars, taskVars>>

Over(t, l) == l # Forever /\ t > l

-----------------------------------------------------------------------------
(* WFRouterTask::dispatch at level 0, which passes the cache by.  (Nothing *)
(* in the repository asks for it or for level 3; client tasks use 1 and 2.)*)
Bypass(r, k) ==
    /\ pc[r] = "idle" /\ ~destroyed
    /\ host' = [host EXCEPT ![r] = k]
    /\ pc' = [pc EXCEPT ![r] = "resolve"]
    /\ UNCHANGED <<vars, entryVars, now, kind, handle, time>>

(* WFRouterTask::dispatch: get (level 3) finds an entry or not.            *)
Lookup(r, k) ==
    /\ pc[r] = "idle" /\ ~destroyed
    /\ host' = [host EXCEPT ![r] = k]
    /\ IF cacheMap[k] = NoHandle
       THEN /\ pc' = [pc EXCEPT ![r] = "resolve"]
            /\ UNCHANGED <<vars, handle>>
       ELSE /\ Get(k)
            /\ handle' = [handle EXCEPT ![r] = cacheMap[k]]
            /\ pc' = [pc EXCEPT ![r] = "route"]
    /\ UNCHANGED <<entryVars, now, kind, time>>

(* get_inner, for levels 1 and 2: an entry that was found is looked at.    *)
LookupTimed(r, k, x) ==
    /\ pc[r] = "idle"
    /\ Get(k)
    /\ host' = [host EXCEPT ![r] = k]
    /\ kind' = [kind EXCEPT ![r] = x]
    /\ handle' = [handle EXCEPT ![r] = cacheMap[k]]
    /\ time' = [time EXCEPT ![r] = now]
    /\ pc' = [pc EXCEPT ![r] = "check"]
    /\ UNCHANGED <<entryVars, now>>

(* The first test, without mutex_.                                         *)
Check(r) ==
    /\ pc[r] = "check"
    /\ pc' = [pc EXCEPT ![r] = IF Over(time[r], limit[handle[r]][kind[r]])
                               THEN "recheck" ELSE "route"]
    /\ UNCHANGED <<vars, entryVars, now, host, kind, handle, time>>

(* Mutant of StillOver: the second test is left out.                       *)
StillOverAlways(r) == TRUE

(* The second test, under mutex_.                                          *)
StillOver(r) == Over(time[r], limit[handle[r]][kind[r]])

(* Mutant of MoveOn: get_inner returns without the release.                *)
MoveOnHolding(r) ==
    LET h == handle[r] IN
    /\ pc[r] = "recheck" /\ StillOver(r)
    /\ limit' = [limit EXCEPT ![h][kind[r]] = @ + Increment]
    /\ moved' = [moved EXCEPT ![h][kind[r]] = @ + 1]
    /\ handle' = [handle EXCEPT ![r] = NoHandle]
    /\ pc' = [pc EXCEPT ![r] = "resolve"]
    /\ UNCHANGED <<vars, since, now, host, kind, time>>

(* The task that is to resolve moves the time on and gives the handle up.  *)
MoveOn(r) ==
    LET h == handle[r] IN
    /\ pc[r] = "recheck" /\ StillOver(r)
    /\ limit' = [limit EXCEPT ![h][kind[r]] = @ + Increment]
    /\ moved' = [moved EXCEPT ![h][kind[r]] = @ + 1]
    /\ Release(h)
    /\ handle' = [handle EXCEPT ![r] = NoHandle]
    /\ pc' = [pc EXCEPT ![r] = "resolve"]
    /\ UNCHANGED <<since, now, host, kind, time>>

MovedByAnother(r) ==
    /\ pc[r] = "recheck" /\ ~StillOver(r)
    /\ pc' = [pc EXCEPT ![r] = "route"]
    /\ UNCHANGED <<vars, entryVars, now, host, kind, handle, time>>

(* put, from dns_callback_internal.  An address literal is put with both   *)
(* times unlimited.                                                        *)
Limit(ttl) == IF ttl = Forever THEN Forever ELSE now + ttl

Resolved(r, h, default, min) ==
    LET over == min = Forever \/ (default # Forever /\ min > default)
        least == IF over THEN default ELSE min
    IN  /\ pc[r] = "resolve"
        /\ PutCached(h, host[r]) \/ PutUncached(h, host[r])
        /\ limit' = [limit EXCEPT ![h] = [x \in Kinds |-> IF x = "ttl" THEN Limit(default)
                                                          ELSE Limit(least)]]
        /\ since' = [since EXCEPT ![h] = limit'[h]]
        /\ handle' = [handle EXCEPT ![r] = h]
        /\ pc' = [pc EXCEPT ![r] = "route"]
        /\ UNCHANGED <<moved, now, host, kind, time>>

Idle(r) ==
    /\ pc' = [pc EXCEPT ![r] = "idle"]
    /\ host' = [host EXCEPT ![r] = NoKey]
    /\ kind' = [kind EXCEPT ![r] = "ttl"]
    /\ handle' = [handle EXCEPT ![r] = NoHandle]
    /\ time' = [time EXCEPT ![r] = 0]

(* The DNS task failed: nothing is put.                                    *)
Unresolved(r) ==
    /\ pc[r] = "resolve"
    /\ Idle(r)
    /\ UNCHANGED <<vars, entryVars, now>>

(* route_manager->get reads the addrinfo of the handle, then release.      *)
Route(r) ==
    /\ pc[r] = "route"
    /\ Release(handle[r])
    /\ Idle(r)
    /\ UNCHANGED <<entryVars, now>>

-----------------------------------------------------------------------------
RouterStep(r) ==
    \/ Check(r) \/ MoveOn(r) \/ MovedByAnother(r) \/ Unresolved(r) \/ Route(r)
    \/ \E k \in Keys : Bypass(r, k) \/ Lookup(r, k) \/ \E x \in Kinds : LookupTimed(r, k, x)
    \/ \E h \in Handles, l \in Lives : Resolved(r, h, l[1], l[2])

(* The cache goes only when the process does, with no task under way.      *)
Manage ==
    /\ \/ \E n \in MaxSizes : SetMaxSize(n)
       \/ \E k \in Keys : Del(k)
       \/ Prune
       \/ (\A r \in Routers : pc[r] = "idle") /\ Destroy
       \/ Destroyed
    /\ UNCHANGED dnsVars

DNSNext == Tick \/ Manage \/ \E r \in Routers : RouterStep(r)

DNSSpec == DNSInit /\ [][DNSNext]_<<vars, dnsVars>>

-----------------------------------------------------------------------------
(***************************************************************************)
(* However many tasks find an entry over, the lookups send at most one of  *)
(* them to resolve it for each increment that it is late, begun or full:   *)
(* the n-th move comes after n - 1 increments and more.  That is what the  *)
(* second test under mutex_ is for.  (It is not one task for one expiry:   *)
(* the increment is added to the old time, so an entry that nobody asked   *)
(* for in a long time sends many tasks to resolve it, one after another.)  *)
(***************************************************************************)
OneMoveForEachIncrement ==
    \A h \in Handles : \A x \in Kinds :
        moved[h][x] > 0 => since[h][x] + Increment * (moved[h][x] - 1) < now

(***************************************************************************)
(* Every reference the cache handed out is held by a task that will        *)
(* release it, and what a task holds is not freed: no path through         *)
(* get_inner and the router task forgets a release or releases twice.      *)
(***************************************************************************)
HeldByTasks ==
    \A h \in Handles :
        /\ held[h] = Cardinality({r \in Routers : handle[r] = h})
        /\ held[h] > 0 => freed[h] = 0

(***************************************************************************)
(* The cache under the lookups stays consistent through any sequence of    *)
(* put, get, del, release and prune: LRUCache's own reference counts, its  *)
(* two lists, its map and size_ agree, and no handle is freed under a      *)
(* caller that holds it, freed twice or leaked.                            *)
(***************************************************************************)
CacheSound == RefCounted /\ FreedWhenUnreferenced /\ ListsSplitCache /\ MapIsCache
=============================================================================
