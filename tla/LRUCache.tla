------------------------------ MODULE LRUCache ------------------------------
(***************************************************************************)
(* util/LRUCache.h: a map from keys to reference-counted handles.  A       *)
(* handle in the cache is on one of two lists: in_use when a caller holds  *)
(* it, not_use, oldest first, when only the cache does.  A handle that     *)
(* leaves the cache lives on until its last holder releases it.            *)
(*                                                                         *)
(* Every operation runs under mutex_, so it is one step, and callers are   *)
(* known only by the references they hold: a caller releases only handles  *)
(* it got from put or get, and the destructor runs when none is held.      *)
(***************************************************************************)
EXTENDS Naturals, Sequences, FiniteSets

CONSTANTS
    Keys,
    Handles,    \* the LRUHandle objects that put allocates
    MaxSizes,   \* the arguments of set_max_size
    MaxHeld,    \* bound: references to one handle that callers hold
    NoHandle, NoKey

ASSUME LRUCacheAssumption ==
    /\ IsFiniteSet(Handles)
    /\ NoHandle \notin Handles
    /\ NoKey \notin Keys
    /\ MaxSizes \subseteq Nat
    /\ MaxHeld \in Nat

VARIABLES
    maxSize,    \* max_size_
    size,       \* size_
    cacheMap,   \* cache_map_
    inUse,      \* the in_use_ list (its order is never used)
    notUse,     \* the not_use_ list
    key,        \* of each handle: key,
    ref,        \*   ref
    inCache,    \*   and in_cache
    held,       \* history: the references callers hold to each handle
    freed,      \* history: how often each handle was deleted
    destroyed   \* the destructor has run

lists == <<inUse, notUse>>
vars == <<maxSize, size, cacheMap, inUse, notUse, key, ref, inCache, held, freed,
          destroyed>>

(* The handles put has allocated so far have a key.                        *)
Allocated == {h \in Handles : key[h] \in Keys}
Unused == {notUse[i] : i \in DOMAIN notUse}

Init ==
    /\ maxSize = 0
    /\ size = 0
    /\ cacheMap = [k \in Keys |-> NoHandle]
    /\ inUse = {}
    /\ notUse = <<>>
    /\ key = [h \in Handles |-> NoKey]
    /\ ref = [h \in Handles |-> 0]
    /\ inCache = [h \in Handles |-> FALSE]
    /\ held = [h \in Handles |-> 0]
    /\ freed = [h \in Handles |-> 0]
    /\ destroyed = FALSE

-----------------------------------------------------------------------------

(* list_remove: not_use_ without the node h, if that is the list it is on. *)
Unlinked(h) ==
    IF h \in Unused
    THEN LET n == CHOOSE i \in DOMAIN notUse : notUse[i] = h
         IN  [i \in 1 .. Len(notUse) - 1 |-> IF i < n THEN notUse[i] ELSE notUse[i + 1]]
    ELSE notUse

(***************************************************************************)
(* erase_node for every handle of S (all of them in the cache), with the   *)
(* removal from the map that goes with it: out of the cache, and the       *)
(* cache's reference given up, which deletes a handle nobody holds.  Off   *)
(* its list, and size_, are with the operations that erase.                *)
(***************************************************************************)
MapWithout(S) == [k \in Keys |-> IF cacheMap[k] \in S THEN NoHandle ELSE cacheMap[k]]

RefWithout(S) == [h \in Handles |-> IF h \in S THEN ref[h] - 1 ELSE ref[h]]
CacheWithout(S) == [h \in Handles |-> IF h \in S THEN FALSE ELSE inCache[h]]
(* Mutant of FreedWithout: deleted without looking at the count.           *)
FreedAnyway(S) == [h \in Handles |-> IF h \in S THEN freed[h] + 1 ELSE freed[h]]

FreedWithout(S) ==
    [h \in Handles |-> IF h \in S /\ ref[h] = 1 THEN freed[h] + 1 ELSE freed[h]]

Erase(S) ==
    /\ cacheMap' = MapWithout(S)
    /\ inCache' = CacheWithout(S)
    /\ ref' = RefWithout(S)
    /\ freed' = FreedWithout(S)

-----------------------------------------------------------------------------
SetMaxSize(n) ==
    /\ ~destroyed
    /\ maxSize' = n
    /\ UNCHANGED <<size, cacheMap, inUse, notUse, key, ref, inCache, held, freed,
                   destroyed>>

Prune ==
    /\ ~destroyed
    /\ Erase(Unused)
    /\ notUse' = <<>>
    /\ size' = size - Len(notUse)
    /\ UNCHANGED <<maxSize, inUse, key, held, destroyed>>

(* ref(): a handle that only the cache held moves to in_use.               *)
Get(k) ==
    LET h == cacheMap[k] IN
    /\ ~destroyed
    /\ h # NoHandle
    /\ held[h] < MaxHeld
    /\ IF inCache[h] /\ ref[h] = 1
       THEN inUse' = inUse \cup {h} /\ notUse' = Unlinked(h)
       ELSE UNCHANGED lists
    /\ ref' = [ref EXCEPT ![h] = @ + 1]
    /\ held' = [held EXCEPT ![h] = @ + 1]
    /\ UNCHANGED <<maxSize, size, cacheMap, key, inCache, freed, destroyed>>

(* put when there is room: the new handle replaces the one its key had.    *)
PutCached(h, k) ==
    LET old == {cacheMap[k]} \ {NoHandle} IN
    /\ ~destroyed
    /\ h \notin Allocated
    /\ maxSize = 0 \/ size < maxSize
    /\ key' = [key EXCEPT ![h] = k]
    /\ held' = [held EXCEPT ![h] = 1]
    /\ cacheMap' = [cacheMap EXCEPT ![k] = h]
    /\ inUse' = (inUse \cup {h}) \ old
    /\ notUse' = Unlinked(cacheMap[k])
    /\ inCache' = [CacheWithout(old) EXCEPT ![h] = TRUE]
    /\ size' = IF old = {} THEN size + 1 ELSE size
    /\ ref' = [RefWithout(old) EXCEPT ![h] = 2]
    /\ freed' = FreedWithout(old)
    /\ UNCHANGED <<maxSize, destroyed>>

(* put when the cache is full: the handle is not cached, and if max_size   *)
(* was lowered the oldest unused handles go until the size fits.           *)
Excess == IF size - maxSize < Len(notUse) THEN size - maxSize ELSE Len(notUse)
Oldest == {notUse[i] : i \in 1 .. Excess}

PutUncached(h, k) ==
    /\ ~destroyed
    /\ h \notin Allocated
    /\ maxSize # 0 /\ size >= maxSize
    /\ key' = [key EXCEPT ![h] = k]
    /\ held' = [held EXCEPT ![h] = 1]
    /\ cacheMap' = MapWithout(Oldest)
    /\ notUse' = SubSeq(notUse, Excess + 1, Len(notUse))
    /\ inCache' = CacheWithout(Oldest)
    /\ size' = size - Excess
    /\ ref' = [RefWithout(Oldest) EXCEPT ![h] = 1]
    /\ freed' = FreedWithout(Oldest)
    /\ UNCHANGED <<maxSize, inUse, destroyed>>

Del(k) ==
    /\ ~destroyed
    /\ cacheMap[k] # NoHandle
    /\ Erase({cacheMap[k]})
    /\ inUse' = inUse \ {cacheMap[k]}
    /\ notUse' = Unlinked(cacheMap[k])
    /\ size' = size - 1
    /\ UNCHANGED <<maxSize, key, held, destroyed>>

(* release: unref.                                                         *)
Release(h) ==
    /\ held[h] > 0
    /\ held' = [held EXCEPT ![h] = @ - 1]
    /\ ref' = [ref EXCEPT ![h] = @ - 1]
    /\ IF ref[h] = 1
       THEN freed' = [freed EXCEPT ![h] = @ + 1] /\ UNCHANGED lists
       ELSE /\ IF inCache[h] /\ ref[h] = 2
               THEN inUse' = inUse \ {h} /\ notUse' = Append(Unlinked(h), h)
               ELSE UNCHANGED lists
            /\ UNCHANGED freed
    /\ UNCHANGED <<maxSize, size, cacheMap, key, inCache, destroyed>>

(* ~LRUCache, which needs every handle released.  The lists, the map and   *)
(* size_ are left as they are.                                             *)
Destroy ==
    /\ ~destroyed
    /\ \A h \in Handles : held[h] = 0
    /\ destroyed' = TRUE
    /\ inCache' = CacheWithout(Unused)
    /\ ref' = RefWithout(Unused)
    /\ freed' = FreedWithout(Unused)
    /\ UNCHANGED <<maxSize, size, cacheMap, inUse, notUse, key, held>>

Destroyed == destroyed /\ UNCHANGED vars

Next ==
    \/ \E n \in MaxSizes : SetMaxSize(n)
    \/ \E k \in Keys : Get(k) \/ Del(k)
    \/ \E h \in Handles :
           Release(h) \/ \E k \in Keys : PutCached(h, k) \/ PutUncached(h, k)
    \/ Prune \/ Destroy \/ Destroyed

Spec == Init /\ [][Next]_vars

-----------------------------------------------------------------------------
(* The lists, the map and the handles are in states the code can be in.    *)
TypeOK ==
    /\ maxSize \in Nat
    /\ size \in Nat
    /\ cacheMap \in [Keys -> Handles \cup {NoHandle}]
    /\ inUse \subseteq Handles
    /\ notUse \in Seq(Handles)
    /\ key \in [Handles -> Keys \cup {NoKey}]
    /\ ref \in [Handles -> Nat]
    /\ inCache \in [Handles -> BOOLEAN]
    /\ held \in [Handles -> Nat]
    /\ freed \in [Handles -> Nat]
    /\ destroyed \in BOOLEAN

(***************************************************************************)
(* The reference count is what it stands for: the callers' references and  *)
(* the cache's own.                                                        *)
(***************************************************************************)
RefCounted ==
    \A h \in Handles : ref[h] = held[h] + (IF inCache[h] THEN 1 ELSE 0)

(***************************************************************************)
(* A handle is deleted exactly when the last reference to it goes, and     *)
(* never twice: no use after free by a holder, and no leak.                *)
(***************************************************************************)
FreedWhenUnreferenced ==
    \A h \in Allocated : freed[h] = IF ref[h] = 0 THEN 1 ELSE 0

(***************************************************************************)
(* Until the destructor runs the two lists split the cached handles by     *)
(* whether a caller holds them, which is what prune, put and the           *)
(* destructor assert (ref == 1 on not_use_, in_cache for both) and what    *)
(* makes list_remove safe; size_ counts both lists.                        *)
(***************************************************************************)
ListsSplitCache ==
    ~destroyed =>
        /\ inUse = {h \in Handles : inCache[h] /\ ref[h] > 1}
        /\ Unused = {h \in Handles : inCache[h] /\ ref[h] = 1}
        /\ size = Cardinality(inUse) + Len(notUse)
        /\ \A i, j \in DOMAIN notUse : i # j => notUse[i] # notUse[j]

(***************************************************************************)
(* The map leads to exactly the cached handles, each under its own key, so *)
(* that erasing a handle by its key erases that handle and no other.       *)
(***************************************************************************)
MapIsCache ==
    ~destroyed =>
        /\ \A h \in Handles :
               inCache[h] => key[h] \in Keys /\ cacheMap[key[h]] = h
        /\ \A k \in Keys :
               cacheMap[k] # NoHandle => inCache[cacheMap[k]] /\ key[cacheMap[k]] = k

=============================================================================
