--------------------------- MODULE DNSCacheProofs ---------------------------
(***************************************************************************)
(* Proofs about LRUCache and about DNSCache on top of it, for any number   *)
(* of keys, handles and router tasks and any times to live: the reference  *)
(* counts, the two lists, the map and size_ of the cache agree and no      *)
(* handle is freed under its holder, twice or never; every reference is    *)
(* held by a task; and of the tasks that find an entry over, at most one   *)
(* is sent to resolve it for each increment that it is late.               *)
(*                                                                         *)
(* The cache is first shown to keep CacheInv under every operation, then   *)
(* DNSCache, whose steps take at most one operation of the cache each, to  *)
(* keep TasksInv and EntriesInv.                                           *)
(***************************************************************************)
EXTENDS DNSCache, FiniteSetTheorems, TLAPS

(* A handle that put has not yet allocated is in nobody's hands.           *)
FreshUnknown ==
    \A h \in Handles \ Allocated : held[h] = 0 /\ ~inCache[h] /\ freed[h] = 0

NothingAfterwards == destroyed => \A h \in Handles : ~inCache[h] /\ held[h] = 0

CacheInv ==
    /\ TypeOK
    /\ RefCounted
    /\ FreedWhenUnreferenced
    /\ ListsSplitCache
    /\ MapIsCache
    /\ FreshUnknown
    /\ NothingAfterwards

Times == Nat \cup {Forever}

(* What a router task knows in each of its states.                         *)
TasksType ==
    /\ now \in Nat
    /\ pc \in [Routers -> {"idle", "check", "recheck", "resolve", "route"}]
    /\ host \in [Routers -> Keys \cup {NoKey}]
    /\ kind \in [Routers -> Kinds]
    /\ handle \in [Routers -> Handles \cup {NoHandle}]
    /\ time \in [Routers -> Nat]
    /\ \A r \in Routers : time[r] <= now

TasksHold ==
    \A r \in Routers :
        /\ pc[r] \in {"check", "recheck", "route"} <=> handle[r] # NoHandle
        /\ pc[r] # "idle" => host[r] \in Keys

HeldCounted == \A h \in Handles : held[h] = Cardinality({r \in Routers : handle[r] = h})

TasksInv == TasksType /\ TasksHold /\ HeldCounted

(* A limit l that was s when the entry was put and has been moved m times: *)
(* each move adds an increment to it, and the last found it over.          *)
Timely(l, s, m, t) ==
    /\ m = 0 => s = l
    /\ m > 0 => s \in Nat /\ l \in Nat /\ l = s + Increment * m /\ l < t + Increment

EntriesInv ==
    /\ limit \in [Handles -> [Kinds -> Times]]
    /\ since \in [Handles -> [Kinds -> Times]]
    /\ moved \in [Handles -> [Kinds -> Nat]]
    /\ \A h \in Handles \ Allocated : \A x \in Kinds : moved[h][x] = 0
    /\ \A h \in Handles : \A x \in Kinds :
           Timely(limit[h][x], since[h][x], moved[h][x], now)

IInv == CacheInv /\ TasksInv /\ EntriesInv

-----------------------------------------------------------------------------
(* not_use_ as a list without repetitions.                                 *)

Elems(q) == {q[i] : i \in 1..Len(q)}
Distinct(q) == \A i, j \in 1..Len(q) : i # j => q[i] # q[j]

Cut(q, n) == [i \in 1 .. Len(q) - 1 |-> IF i < n THEN q[i] ELSE q[i + 1]]

LEMMA CutOut ==
    ASSUME NEW S, NEW q \in Seq(S), Distinct(q), NEW n \in 1..Len(q)
    PROVE  /\ Cut(q, n) \in Seq(S) /\ Len(Cut(q, n)) = Len(q) - 1 /\ Distinct(Cut(q, n))
           /\ Elems(Cut(q, n)) = Elems(q) \ {q[n]}
<1>0. PICK r : r = Cut(q, n)
    OBVIOUS
<1>1. Len(q) \in Nat /\ Len(q) - 1 \in Nat /\ \A i \in 1..Len(q) : q[i] \in S
    OBVIOUS
<1>2. \A i \in 1 .. Len(q) - 1 :
          /\ r[i] = IF i < n THEN q[i] ELSE q[i + 1]
          /\ i \in 1..Len(q) /\ i + 1 \in 1..Len(q)
    BY <1>0, <1>1 DEF Cut
<1>3. r \in Seq(S) /\ Len(r) = Len(q) - 1
    <2>1. r \in [1 .. Len(q) - 1 -> S]
        BY <1>0, <1>1 DEF Cut
    <2> QED
        BY <1>1, <2>1
<1>4. Distinct(r)
    <2> SUFFICES ASSUME NEW i \in 1 .. Len(q) - 1, NEW j \in 1 .. Len(q) - 1, i # j
                 PROVE  r[i] # r[j]
        BY <1>3 DEF Distinct
    <2>1. PICK a \in 1..Len(q) : r[i] = q[a] /\ a = IF i < n THEN i ELSE i + 1
        BY <1>2
    <2>2. PICK b \in 1..Len(q) : r[j] = q[b] /\ b = IF j < n THEN j ELSE j + 1
        BY <1>2
    <2>3. a # b
        BY <1>1, <2>1, <2>2
    <2> QED
        BY <2>1, <2>2, <2>3 DEF Distinct
<1>5. Elems(r) \subseteq Elems(q) \ {q[n]}
    <2> SUFFICES ASSUME NEW i \in 1 .. Len(q) - 1 PROVE r[i] \in Elems(q) \ {q[n]}
        BY <1>3 DEF Elems
    <2>1. PICK a \in 1..Len(q) : r[i] = q[a] /\ a = IF i < n THEN i ELSE i + 1
        BY <1>2
    <2>2. a # n
        BY <1>1, <2>1
    <2> QED
        BY <2>1, <2>2 DEF Elems, Distinct
<1>6. Elems(q) \ {q[n]} \subseteq Elems(r)
    <2> SUFFICES ASSUME NEW a \in 1..Len(q), a # n PROVE q[a] \in Elems(r)
        BY DEF Elems
    <2>1. PICK i \in 1 .. Len(q) - 1 : i = IF a < n THEN a ELSE a - 1
        BY <1>1
    <2>2. r[i] = q[a]
        BY <1>1, <1>2, <2>1
    <2> QED
        BY <1>3, <2>2 DEF Elems
<1> QED
    BY <1>0, <1>3, <1>4, <1>5, <1>6

Rest(q, n) == SubSeq(q, n + 1, Len(q))

LEMMA CutFront ==
    ASSUME NEW S, NEW q \in Seq(S), Distinct(q), NEW n \in 0..Len(q)
    PROVE  /\ Rest(q, n) \in Seq(S) /\ Len(Rest(q, n)) = Len(q) - n /\ Distinct(Rest(q, n))
           /\ Elems(Rest(q, n)) = Elems(q) \ {q[i] : i \in 1..n}
<1>0. PICK r : r = Rest(q, n)
    OBVIOUS
<1>1. Len(q) \in Nat /\ Len(q) - n \in Nat /\ \A i \in 1..Len(q) : q[i] \in S
    OBVIOUS
<1>2. r \in Seq(S) /\ Len(r) = Len(q) - n
    BY <1>0, <1>1 DEF Rest
<1>3. \A i \in 1 .. Len(q) - n : r[i] = q[i + n] /\ i + n \in 1..Len(q)
    BY <1>0, <1>1 DEF Rest
<1>4. Distinct(r)
    BY <1>1, <1>2, <1>3 DEF Distinct
<1>5. Elems(r) \subseteq Elems(q) \ {q[i] : i \in 1..n}
    <2> SUFFICES ASSUME NEW j \in 1 .. Len(q) - n
                 PROVE  r[j] \in Elems(q) /\ \A i \in 1..n : r[j] # q[i]
        BY <1>2 DEF Elems
    <2>1. \A i \in 1..n : i \in 1..Len(q) /\ i # j + n
        BY <1>1
    <2> QED
        BY <1>3, <2>1 DEF Elems, Distinct
<1>6. Elems(q) \ {q[i] : i \in 1..n} \subseteq Elems(r)
    <2> SUFFICES ASSUME NEW a \in 1..Len(q), ~(a \in 1..n) PROVE q[a] \in Elems(r)
        BY DEF Elems
    <2>1. PICK i \in 1 .. Len(q) - n : i = a - n
        BY <1>1
    <2>2. r[i] = q[a]
        BY <1>1, <1>3, <2>1
    <2> QED
        BY <1>2, <2>2 DEF Elems
<1> QED
    BY <1>0, <1>2, <1>4, <1>5, <1>6

LEMMA PutLast ==
    ASSUME NEW S, NEW q \in Seq(S), Distinct(q), NEW x \in S, x \notin Elems(q)
    PROVE  /\ Append(q, x) \in Seq(S) /\ Len(Append(q, x)) = Len(q) + 1
           /\ Distinct(Append(q, x)) /\ Elems(Append(q, x)) = Elems(q) \cup {x}
<1>1. /\ Append(q, x) \in Seq(S) /\ Len(q) \in Nat /\ Len(Append(q, x)) = Len(q) + 1
      /\ \A i \in 1..Len(q) : Append(q, x)[i] = q[i]
      /\ Append(q, x)[Len(q) + 1] = x
    OBVIOUS
<1>2. Elems(Append(q, x)) = Elems(q) \cup {x}
    BY <1>1 DEF Elems
<1>3. Distinct(Append(q, x))
    BY <1>1 DEF Distinct, Elems
<1> QED
    BY <1>1, <1>2, <1>3

LEMMA UnlinkedFacts ==
    ASSUME notUse \in Seq(Handles), Distinct(notUse), NEW h
    PROVE  /\ Unlinked(h) \in Seq(Handles) /\ Distinct(Unlinked(h))
           /\ Len(Unlinked(h)) = IF h \in Elems(notUse) THEN Len(notUse) - 1 ELSE Len(notUse)
           /\ Elems(Unlinked(h)) = Elems(notUse) \ {h}
<1>1. DOMAIN notUse = 1..Len(notUse) /\ Unused = Elems(notUse)
    BY DEF Unused, Elems
<1>2. CASE h \in Elems(notUse)
    <2>1. PICK n \in 1..Len(notUse) : notUse[n] = h /\
              n = CHOOSE i \in DOMAIN notUse : notUse[i] = h
        BY <1>1, <1>2 DEF Elems
    <2>2. Unlinked(h) = Cut(notUse, n)
        BY <1>1, <1>2, <2>1 DEF Unlinked, Cut
    <2>3. /\ Unlinked(h) \in Seq(Handles) /\ Distinct(Unlinked(h))
          /\ Len(Unlinked(h)) = Len(notUse) - 1
          /\ Elems(Unlinked(h)) = Elems(notUse) \ {notUse[n]}
        BY <2>2, CutOut
    <2> QED
        BY <1>2, <2>1, <2>3
<1>3. CASE h \notin Elems(notUse)
    BY <1>1, <1>3 DEF Unlinked
<1> QED
    BY <1>2, <1>3

-----------------------------------------------------------------------------
(* The lists, by the references that callers hold instead of the counts.   *)
Split ==
    /\ Distinct(notUse)
    /\ Elems(notUse) = {h \in Handles : inCache[h] /\ held[h] = 0}
    /\ inUse = {h \in Handles : inCache[h] /\ held[h] > 0}
    /\ size = Cardinality(inUse) + Len(notUse)

LEMMA SplitLists ==
    TypeOK /\ RefCounted => (ListsSplitCache <=> (~destroyed => Split))
<1> SUFFICES ASSUME TypeOK, RefCounted PROVE ListsSplitCache <=> (~destroyed => Split)
    OBVIOUS
<1>1. DOMAIN notUse = 1..Len(notUse) /\ Unused = Elems(notUse)
    BY DEF TypeOK, Unused, Elems
<1>2. \A h \in Handles : inCache[h] => (ref[h] > 1 <=> held[h] > 0) /\ (ref[h] = 1 <=> held[h] = 0)
    BY DEF TypeOK, RefCounted
<1>3. /\ {h \in Handles : inCache[h] /\ ref[h] > 1} = {h \in Handles : inCache[h] /\ held[h] > 0}
      /\ {h \in Handles : inCache[h] /\ ref[h] = 1} = {h \in Handles : inCache[h] /\ held[h] = 0}
    BY <1>2
<1>4. Distinct(notUse) <=> \A i, j \in DOMAIN notUse : i # j => notUse[i] # notUse[j]
    BY <1>1 DEF Distinct
<1> QED
    BY <1>1, <1>3, <1>4 DEF ListsSplitCache, Split

LEMMA SplitListsNext ==
    ASSUME TypeOK', RefCounted', ~destroyed' => Split'
    PROVE  ListsSplitCache'
BY SplitLists, PTL

(* What is known of the cache before an operation.                         *)
LEMMA CacheFacts ==
    ASSUME CacheInv, ~destroyed
    PROVE  /\ Split /\ Unused = Elems(notUse)
           /\ Len(notUse) \in Nat /\ notUse \in Seq(Handles)
           /\ IsFiniteSet(inUse) /\ Cardinality(inUse) \in Nat
           /\ \A h \in Handles : held[h] \in Nat /\ ref[h] \in Nat /\ freed[h] \in Nat
           /\ \A h \in Handles : inCache[h] \in BOOLEAN
<1>1. Split
    BY SplitLists DEF CacheInv
<1>2. Unused = Elems(notUse)
    BY DEF CacheInv, TypeOK, Unused, Elems
<1>3. IsFiniteSet(inUse) /\ Cardinality(inUse) \in Nat
    BY LRUCacheAssumption, FS_Subset, FS_CardinalityType DEF CacheInv, TypeOK
<1>4. \A h \in Handles : inCache[h] \in BOOLEAN
    BY Zenon DEF CacheInv, TypeOK
<1> QED
    BY <1>1, <1>2, <1>3, <1>4 DEF CacheInv, TypeOK

(* erase_node keeps the counts, the frees and the map right, for whatever  *)
(* cached handles it is called.                                            *)
LEMMA ErasePointwise ==
    ASSUME CacheInv, ~destroyed, NEW S, \A h \in S : h \in Handles /\ inCache[h]
    PROVE  /\ CacheWithout(S) \in [Handles -> BOOLEAN]
           /\ RefWithout(S) \in [Handles -> Nat]
           /\ FreedWithout(S) \in [Handles -> Nat]
           /\ MapWithout(S) \in [Keys -> Handles \cup {NoHandle}]
           /\ \A h \in Handles :
                  /\ CacheWithout(S)[h] <=> inCache[h] /\ h \notin S
                  /\ RefWithout(S)[h] = held[h] + (IF CacheWithout(S)[h] THEN 1 ELSE 0)
                  /\ h \notin S => FreedWithout(S)[h] = freed[h]
           /\ \A h \in Allocated : FreedWithout(S)[h] = IF RefWithout(S)[h] = 0 THEN 1 ELSE 0
           /\ \A k \in Keys : MapWithout(S)[k] = IF cacheMap[k] \in S THEN NoHandle
                                                 ELSE cacheMap[k]
<1>1. \A h \in Handles : inCache[h] \in BOOLEAN /\ held[h] \in Nat /\ ref[h] \in Nat /\ freed[h] \in Nat
    BY CacheFacts
<1>2. \A h \in Handles : ref[h] = held[h] + (IF inCache[h] THEN 1 ELSE 0)
    BY DEF CacheInv, RefCounted
<1>3. /\ CacheWithout(S) \in [Handles -> BOOLEAN]
      /\ \A h \in Handles : CacheWithout(S)[h] <=> inCache[h] /\ h \notin S
    <2>1. \A h \in Handles : CacheWithout(S)[h] = IF h \in S THEN FALSE ELSE inCache[h]
        BY Zenon DEF CacheWithout
    <2>2. \A h \in Handles : (IF h \in S THEN FALSE ELSE inCache[h]) \in BOOLEAN
        BY <1>1, Zenon
    <2>3. CacheWithout(S) \in [Handles -> BOOLEAN]
        BY <2>2, Zenon DEF CacheWithout
    <2> QED
        BY <2>1, <2>3
<1>4. \A h \in Handles : RefWithout(S)[h] = IF h \in S THEN ref[h] - 1 ELSE ref[h]
    BY DEF RefWithout
<1>5. /\ RefWithout(S) \in [Handles -> Nat]
      /\ \A h \in Handles : RefWithout(S)[h] = held[h] + (IF CacheWithout(S)[h] THEN 1 ELSE 0)
    <2>1. \A h \in S : ref[h] >= 1
        BY <1>1, <1>2
    <2>2. RefWithout(S) \in [Handles -> Nat]
        BY <1>1, <2>1 DEF RefWithout
    <2>3. ASSUME NEW h \in Handles
          PROVE  RefWithout(S)[h] = held[h] + (IF CacheWithout(S)[h] THEN 1 ELSE 0)
        <3>1. CASE h \in S
            BY <1>1, <1>2, <1>3, <1>4, <3>1
        <3>2. CASE h \notin S
            BY <1>1, <1>2, <1>3, <1>4, <3>2
        <3> QED
            BY <3>1, <3>2
    <2> QED
        BY <2>2, <2>3
<1>6. /\ FreedWithout(S) \in [Handles -> Nat]
      /\ \A h \in Handles :
             FreedWithout(S)[h] = IF h \in S /\ ref[h] = 1 THEN freed[h] + 1 ELSE freed[h]
    BY <1>1 DEF FreedWithout
<1>7. \A h \in Allocated : FreedWithout(S)[h] = IF RefWithout(S)[h] = 0 THEN 1 ELSE 0
    <2> SUFFICES ASSUME NEW h \in Handles, h \in Allocated
                 PROVE  FreedWithout(S)[h] = IF RefWithout(S)[h] = 0 THEN 1 ELSE 0
        BY DEF Allocated
    <2>1. freed[h] = IF ref[h] = 0 THEN 1 ELSE 0
        BY DEF CacheInv, FreedWhenUnreferenced
    <2>2. h \in S => ref[h] >= 1
        BY <1>1, <1>2
    <2> QED
        BY <1>1, <1>4, <1>6, <2>1, <2>2
<1>8. /\ MapWithout(S) \in [Keys -> Handles \cup {NoHandle}]
      /\ \A k \in Keys : MapWithout(S)[k] = IF cacheMap[k] \in S THEN NoHandle
                                            ELSE cacheMap[k]
    BY DEF CacheInv, TypeOK, MapWithout
<1> QED
    BY <1>3, <1>5, <1>6, <1>7, <1>8

-----------------------------------------------------------------------------
(* prune, del and the eviction in put: cached handles are erased, and      *)
(* perhaps a new one that is not cached is handed out.                     *)
LEMMA EraseInv ==
    ASSUME CacheInv, ~destroyed, NEW S, \A h \in S : h \in Handles /\ inCache[h],
           Erase(S), UNCHANGED <<key, held, destroyed>>, maxSize' \in Nat,
           notUse' \in Seq(Handles), Distinct(notUse'), Elems(notUse') = Elems(notUse) \ S,
           inUse' = inUse \ S, size' \in Nat, size' = Cardinality(inUse') + Len(notUse')
    PROVE  CacheInv'
<1>1. /\ cacheMap' = MapWithout(S) /\ inCache' = CacheWithout(S)
      /\ ref' = RefWithout(S) /\ freed' = FreedWithout(S)
    BY DEF Erase
<1>2. /\ inCache' \in [Handles -> BOOLEAN] /\ ref' \in [Handles -> Nat]
      /\ freed' \in [Handles -> Nat] /\ cacheMap' \in [Keys -> Handles \cup {NoHandle}]
    BY <1>1, ErasePointwise
<1>3. \A h \in Handles :
          /\ inCache'[h] <=> inCache[h] /\ h \notin S
          /\ ref'[h] = held[h] + (IF inCache'[h] THEN 1 ELSE 0)
          /\ h \notin S => freed'[h] = freed[h]
    BY <1>1, ErasePointwise
<1>4. /\ \A h \in Allocated : freed'[h] = IF ref'[h] = 0 THEN 1 ELSE 0
      /\ \A k \in Keys : cacheMap'[k] = IF cacheMap[k] \in S THEN NoHandle ELSE cacheMap[k]
    BY <1>1, ErasePointwise
<1>5. Allocated' = Allocated
    BY DEF Allocated
<1>6. TypeOK'
    BY <1>2 DEF CacheInv, TypeOK
<1>7. RefCounted'
    BY <1>3 DEF RefCounted
<1>8. FreedWhenUnreferenced'
    BY <1>4, <1>5 DEF FreedWhenUnreferenced
<1>9. Split'
    BY <1>3, CacheFacts DEF Split
<1>10. MapIsCache'
    BY <1>3, <1>4, LRUCacheAssumption DEF CacheInv, TypeOK, MapIsCache
<1>11. FreshUnknown'
    BY <1>3, <1>5 DEF CacheInv, FreshUnknown
<1>12. NothingAfterwards'
    BY DEF NothingAfterwards
<1> QED
    BY <1>6, <1>7, <1>8, <1>9, <1>10, <1>11, <1>12, SplitListsNext DEF CacheInv

LEMMA PruneInv == ASSUME CacheInv, Prune PROVE CacheInv'
<1>1. /\ ~destroyed /\ Erase(Unused) /\ notUse' = <<>> /\ size' = size - Len(notUse)
      /\ UNCHANGED <<maxSize, inUse, key, held, destroyed>>
    BY DEF Prune
<1>2. Split /\ Unused = Elems(notUse) /\ Len(notUse) \in Nat /\ Cardinality(inUse) \in Nat
    BY <1>1, CacheFacts
<1>3. \A h \in Unused : h \in Handles /\ inCache[h]
    BY <1>2 DEF Split
<1>4. notUse' \in Seq(Handles) /\ Len(notUse') = 0 /\ Elems(notUse') = {} /\ Distinct(notUse')
    BY <1>1 DEF Elems, Distinct
<1>5. inUse' = inUse \ Unused
    BY <1>1, <1>2 DEF Split, CacheInv, TypeOK
<1>6. size' \in Nat /\ size' = Cardinality(inUse') + Len(notUse')
    BY <1>1, <1>2, <1>4 DEF Split
<1>7. maxSize' \in Nat
    BY <1>1 DEF CacheInv, TypeOK
<1> QED
    BY <1>1, <1>2, <1>3, <1>4, <1>5, <1>6, <1>7, EraseInv

(* A handle taken off whichever list it is on.                             *)
LEMMA OneErased ==
    ASSUME CacheInv, ~destroyed, NEW h \in Handles, inCache[h]
    PROVE  /\ Unlinked(h) \in Seq(Handles) /\ Distinct(Unlinked(h))
           /\ Elems(Unlinked(h)) = Elems(notUse) \ {h}
           /\ size >= 1 /\ Len(Unlinked(h)) \in Nat /\ Cardinality(inUse \ {h}) \in Nat
           /\ size - 1 = Cardinality(inUse \ {h}) + Len(Unlinked(h))
<1>1. /\ Split /\ Len(notUse) \in Nat /\ notUse \in Seq(Handles)
      /\ IsFiniteSet(inUse) /\ Cardinality(inUse) \in Nat
    BY CacheFacts
<1>2. /\ Unlinked(h) \in Seq(Handles) /\ Distinct(Unlinked(h))
      /\ Len(Unlinked(h)) = IF h \in Elems(notUse) THEN Len(notUse) - 1 ELSE Len(notUse)
      /\ Elems(Unlinked(h)) = Elems(notUse) \ {h}
    BY <1>1, UnlinkedFacts DEF Split
<1>3. Len(Unlinked(h)) \in Nat
    BY <1>2
<1>4. CASE held[h] = 0
    <2>1. h \in Elems(notUse) /\ inUse \ {h} = inUse
        BY <1>1, <1>4 DEF Split
    <2>2. Cardinality(inUse \ {h}) = Cardinality(inUse) /\ Len(Unlinked(h)) = Len(notUse) - 1
        BY <1>2, <2>1
    <2>3. size = Cardinality(inUse) + Len(notUse)
        BY <1>1 DEF Split
    <2> QED
        BY <1>1, <1>2, <1>3, <2>2, <2>3
<1>5. CASE held[h] # 0
    <2>1. h \notin Elems(notUse) /\ h \in inUse
        BY <1>1, <1>5 DEF Split, CacheInv, TypeOK
    <2>2. IsFiniteSet(inUse \ {h}) /\ Cardinality(inUse \ {h}) = Cardinality(inUse) - 1
        BY <1>1, <2>1, FS_RemoveElement
    <2>3. Cardinality(inUse \ {h}) \in Nat
        BY <2>2, FS_CardinalityType
    <2> QED
        BY <1>1, <1>2, <1>3, <2>1, <2>2, <2>3 DEF Split
<1> QED
    BY <1>4, <1>5

LEMMA DelInv == ASSUME CacheInv, NEW k \in Keys, Del(k) PROVE CacheInv'
<1>1. PICK h : h = cacheMap[k]
    OBVIOUS
<1>2. /\ ~destroyed /\ h # NoHandle /\ Erase({h})
      /\ inUse' = inUse \ {h} /\ notUse' = Unlinked(h) /\ size' = size - 1
      /\ UNCHANGED <<maxSize, key, held, destroyed>>
    BY <1>1 DEF Del
<1>3. h \in Handles /\ inCache[h]
    BY <1>1, <1>2 DEF CacheInv, TypeOK, MapIsCache
<1>4. maxSize' \in Nat /\ size \in Nat
    BY <1>2 DEF CacheInv, TypeOK
<1>5. /\ notUse' \in Seq(Handles) /\ Distinct(notUse') /\ Elems(notUse') = Elems(notUse) \ {h}
      /\ size' \in Nat /\ size' = Cardinality(inUse') + Len(notUse')
    BY <1>2, <1>3, <1>4, OneErased
<1> QED
    BY <1>2, <1>3, <1>4, <1>5, EraseInv

LEMMA SetMaxSizeInv == ASSUME CacheInv, NEW n \in MaxSizes, SetMaxSize(n) PROVE CacheInv'
<1>1. /\ maxSize' \in Nat
      /\ UNCHANGED <<size, cacheMap, inUse, notUse, key, ref, inCache, held, freed, destroyed>>
    BY LRUCacheAssumption DEF SetMaxSize
<1> QED
    BY <1>1 DEF CacheInv, TypeOK, RefCounted, FreedWhenUnreferenced, ListsSplitCache,
        MapIsCache, FreshUnknown, NothingAfterwards, Allocated, Unused

(* get: one more reference, and a handle nobody held moves to in_use_.     *)
LEMMA GetInv == ASSUME CacheInv, NEW k \in Keys, Get(k) PROVE CacheInv'
<1>1. PICK h : h = cacheMap[k]
    OBVIOUS
<1>2. /\ ~destroyed /\ h # NoHandle
      /\ IF inCache[h] /\ ref[h] = 1
         THEN inUse' = inUse \cup {h} /\ notUse' = Unlinked(h)
         ELSE UNCHANGED lists
      /\ ref' = [ref EXCEPT ![h] = @ + 1]
      /\ held' = [held EXCEPT ![h] = @ + 1]
      /\ UNCHANGED <<maxSize, size, cacheMap, key, inCache, freed, destroyed>>
    BY <1>1, Zenon DEF Get
<1>3. h \in Handles /\ inCache[h] /\ h \in Allocated
    BY <1>1, <1>2 DEF CacheInv, TypeOK, MapIsCache, Allocated
<1>4. /\ Split /\ Len(notUse) \in Nat /\ notUse \in Seq(Handles)
      /\ IsFiniteSet(inUse) /\ Cardinality(inUse) \in Nat
      /\ \A x \in Handles : held[x] \in Nat /\ ref[x] \in Nat /\ freed[x] \in Nat
    BY <1>2, CacheFacts
<1>5. \A x \in Handles :
          /\ held'[x] = IF x = h THEN held[x] + 1 ELSE held[x]
          /\ ref'[x] = IF x = h THEN ref[x] + 1 ELSE ref[x]
    BY <1>2 DEF CacheInv, TypeOK
<1>6. ref[h] = held[h] + 1
    BY <1>3 DEF CacheInv, RefCounted
<1>7. RefCounted'
    BY <1>2, <1>3, <1>4, <1>5 DEF CacheInv, RefCounted
<1>8. FreedWhenUnreferenced'
    BY <1>2, <1>3, <1>4, <1>5, <1>6 DEF CacheInv, FreedWhenUnreferenced, Allocated
<1>13. held' \in [Handles -> Nat] /\ ref' \in [Handles -> Nat]
    BY <1>2, <1>3, <1>4 DEF CacheInv, TypeOK
<1>9. ASSUME held[h] = 0 PROVE TypeOK' /\ Split'
    <2>1. inUse' = inUse \cup {h} /\ notUse' = Unlinked(h)
        BY <1>2, <1>3, <1>6, <1>9
    <2>2. h \in Elems(notUse) /\ h \notin inUse
        BY <1>3, <1>4, <1>9 DEF Split
    <2>3. /\ notUse' \in Seq(Handles) /\ Distinct(notUse')
          /\ Len(notUse') = Len(notUse) - 1 /\ Elems(notUse') = Elems(notUse) \ {h}
        BY <1>4, <2>1, <2>2, UnlinkedFacts DEF Split
    <2>4. Cardinality(inUse') = Cardinality(inUse) + 1
        BY <1>4, <2>1, <2>2, FS_AddElement
    <2>5. size' = Cardinality(inUse') + Len(notUse')
        BY <1>2, <1>4, <2>3, <2>4 DEF Split
    <2>6. Split'
        BY <1>2, <1>3, <1>4, <1>5, <1>9, <2>1, <2>3, <2>5 DEF Split
    <2>7. TypeOK'
        BY <1>2, <1>3, <1>13, <2>1, <2>3 DEF CacheInv, TypeOK
    <2> QED
        BY <2>6, <2>7
<1>10. ASSUME held[h] # 0 PROVE TypeOK' /\ Split'
    <2>1. UNCHANGED <<inUse, notUse>>
        <3>1. ref[h] # 1
            BY <1>3, <1>4, <1>6, <1>10
        <3> QED
            BY <1>2, <3>1 DEF lists
    <2>2. Split'
        BY <1>2, <1>3, <1>4, <1>5, <1>10, <2>1 DEF Split
    <2>3. TypeOK'
        BY <1>2, <1>13, <2>1 DEF CacheInv, TypeOK
    <2> QED
        BY <2>2, <2>3
<1>11. TypeOK' /\ Split'
    BY <1>9, <1>10
<1>12. MapIsCache' /\ FreshUnknown' /\ NothingAfterwards'
    BY <1>2, <1>3, <1>5 DEF CacheInv, MapIsCache, FreshUnknown, NothingAfterwards, Allocated
<1> QED
    BY <1>7, <1>8, <1>11, <1>12, SplitListsNext DEF CacheInv

(* release: one reference less.                                            *)
LEMMA ReleaseInv == ASSUME CacheInv, NEW h \in Handles, Release(h) PROVE CacheInv'
<1>1. /\ held[h] > 0
      /\ held' = [held EXCEPT ![h] = @ - 1] /\ ref' = [ref EXCEPT ![h] = @ - 1]
      /\ IF ref[h] = 1
         THEN freed' = [freed EXCEPT ![h] = @ + 1] /\ UNCHANGED lists
         ELSE /\ IF inCache[h] /\ ref[h] = 2
                 THEN inUse' = inUse \ {h} /\ notUse' = Append(Unlinked(h), h)
                 ELSE UNCHANGED lists
              /\ UNCHANGED freed
      /\ UNCHANGED <<maxSize, size, cacheMap, key, inCache, destroyed>>
    BY Zenon DEF Release
<1>2. held[h] \in Nat /\ ~destroyed
    BY <1>1 DEF CacheInv, TypeOK, NothingAfterwards
<1>3. /\ Split /\ Len(notUse) \in Nat /\ notUse \in Seq(Handles)
      /\ IsFiniteSet(inUse) /\ Cardinality(inUse) \in Nat
      /\ \A x \in Handles : held[x] \in Nat /\ ref[x] \in Nat /\ freed[x] \in Nat
    BY <1>2, CacheFacts
<1>4. ref[h] = held[h] + (IF inCache[h] THEN 1 ELSE 0) /\ h \in Allocated
    BY <1>1, <1>2 DEF CacheInv, RefCounted, FreshUnknown
<1>5. \A x \in Handles :
          /\ held'[x] = IF x = h THEN held[x] - 1 ELSE held[x]
          /\ ref'[x] = IF x = h THEN ref[x] - 1 ELSE ref[x]
          /\ freed'[x] = IF x = h /\ ref[x] = 1 THEN freed[x] + 1 ELSE freed[x]
    BY <1>1 DEF CacheInv, TypeOK
<1>6. RefCounted'
    BY <1>1, <1>3, <1>4, <1>5 DEF CacheInv, RefCounted
<1>7. FreedWhenUnreferenced'
    <2> SUFFICES ASSUME NEW x \in Handles, x \in Allocated
                 PROVE  freed'[x] = IF ref'[x] = 0 THEN 1 ELSE 0
        BY <1>1 DEF FreedWhenUnreferenced, Allocated
    <2>1. freed[x] = IF ref[x] = 0 THEN 1 ELSE 0
        BY DEF CacheInv, FreedWhenUnreferenced
    <2> QED
        BY <1>1, <1>2, <1>3, <1>4, <1>5, <2>1
<1>13. /\ held' \in [Handles -> Nat] /\ ref' \in [Handles -> Nat]
       /\ freed' \in [Handles -> Nat]
    <2>1. held[h] - 1 \in Nat /\ ref[h] - 1 \in Nat
        BY <1>1, <1>2, <1>3, <1>4
    <2>2. /\ held \in [Handles -> Nat] /\ ref \in [Handles -> Nat]
          /\ freed \in [Handles -> Nat]
        BY DEF CacheInv, TypeOK
    <2>3. freed' = [freed EXCEPT ![h] = @ + 1] \/ freed' = freed
        BY <1>1
    <2>4. freed' \in [Handles -> Nat]
        BY <2>2, <2>3
    <2> QED
        BY <1>1, <2>1, <2>2, <2>4
<1>8. ASSUME inCache[h], held[h] = 1 PROVE TypeOK' /\ Split'
    <2>1. /\ inUse' = inUse \ {h} /\ notUse' = Append(Unlinked(h), h) /\ UNCHANGED freed
        BY <1>1, <1>4, <1>8
    <2>2. h \notin Elems(notUse) /\ h \in inUse
        BY <1>3, <1>8 DEF Split
    <2>3. /\ Unlinked(h) \in Seq(Handles) /\ Distinct(Unlinked(h))
          /\ Len(Unlinked(h)) = Len(notUse) /\ Elems(Unlinked(h)) = Elems(notUse)
        BY <1>3, <2>2, UnlinkedFacts DEF Split
    <2>4. /\ notUse' \in Seq(Handles) /\ Distinct(notUse')
          /\ Len(notUse') = Len(notUse) + 1 /\ Elems(notUse') = Elems(notUse) \cup {h}
        BY <2>1, <2>2, <2>3, PutLast
    <2>5. Cardinality(inUse') = Cardinality(inUse) - 1
        BY <1>3, <2>1, <2>2, FS_RemoveElement
    <2>6. size' = Cardinality(inUse') + Len(notUse')
        BY <1>1, <1>3, <2>4, <2>5 DEF Split
    <2>7. Elems(notUse') = {x \in Handles : inCache'[x] /\ held'[x] = 0}
        BY <1>1, <1>3, <1>5, <1>8, <2>4 DEF Split
    <2>8. inUse' = {x \in Handles : inCache'[x] /\ held'[x] > 0}
        BY <1>1, <1>3, <1>5, <1>8, <2>1 DEF Split
    <2>9. TypeOK'
        BY <1>1, <1>13, <2>1, <2>4 DEF CacheInv, TypeOK
    <2> QED
        BY <2>4, <2>6, <2>7, <2>8, <2>9 DEF Split
<1>9. ASSUME ~(inCache[h] /\ held[h] = 1) PROVE TypeOK' /\ Split'
    <2>1. UNCHANGED <<inUse, notUse>>
        BY <1>1, <1>2, <1>4, <1>9 DEF lists
    <2>2. Elems(notUse) = {x \in Handles : inCache[x] /\ held'[x] = 0}
        BY <1>1, <1>2, <1>3, <1>5, <1>9 DEF Split
    <2>3. inUse = {x \in Handles : inCache[x] /\ held'[x] > 0}
        BY <1>1, <1>2, <1>3, <1>5, <1>9 DEF Split
    <2>4. Split'
        BY <1>1, <1>3, <2>1, <2>2, <2>3 DEF Split
    <2>5. TypeOK'
        BY <1>1, <1>13, <2>1 DEF CacheInv, TypeOK
    <2> QED
        BY <2>4, <2>5
<1>10. TypeOK' /\ Split'
    BY <1>8, <1>9
<1>11. MapIsCache' /\ NothingAfterwards'
    BY <1>1, <1>2 DEF CacheInv, MapIsCache, NothingAfterwards
<1>12. FreshUnknown'
    BY <1>1, <1>4, <1>5 DEF CacheInv, FreshUnknown, Allocated
<1> QED
    BY <1>6, <1>7, <1>10, <1>11, <1>12, SplitListsNext DEF CacheInv

(* put with room: the new handle takes the place of the old one.           *)
LEMMA PutCachedInv ==
    ASSUME CacheInv, NEW h \in Handles, NEW k \in Keys, PutCached(h, k)
    PROVE  CacheInv'
<1>1. PICK old : old = {cacheMap[k]} \ {NoHandle}
    OBVIOUS
<1>2. /\ ~destroyed /\ h \notin Allocated
      /\ key' = [key EXCEPT ![h] = k] /\ held' = [held EXCEPT ![h] = 1]
      /\ cacheMap' = [cacheMap EXCEPT ![k] = h]
      /\ inUse' = (inUse \cup {h}) \ old /\ notUse' = Unlinked(cacheMap[k])
      /\ inCache' = [CacheWithout(old) EXCEPT ![h] = TRUE]
      /\ size' = IF old = {} THEN size + 1 ELSE size
      /\ ref' = [RefWithout(old) EXCEPT ![h] = 2]
      /\ freed' = FreedWithout(old)
      /\ UNCHANGED <<maxSize, destroyed>>
    BY <1>1, Zenon DEF PutCached
<1>3. held[h] = 0 /\ ~inCache[h] /\ freed[h] = 0 /\ key[h] \notin Keys
    BY <1>2 DEF CacheInv, FreshUnknown, Allocated
<1>4. /\ Split /\ Len(notUse) \in Nat /\ notUse \in Seq(Handles)
      /\ IsFiniteSet(inUse) /\ Cardinality(inUse) \in Nat
      /\ \A x \in Handles : held[x] \in Nat /\ ref[x] \in Nat /\ freed[x] \in Nat
    BY <1>2, CacheFacts
<1>5. \A x \in old : x = cacheMap[k] /\ x \in Handles /\ inCache[x] /\ key[x] = k /\ x # h
    BY <1>1, <1>2, <1>3 DEF CacheInv, TypeOK, MapIsCache
<1>6. /\ CacheWithout(old) \in [Handles -> BOOLEAN] /\ RefWithout(old) \in [Handles -> Nat]
      /\ FreedWithout(old) \in [Handles -> Nat]
      /\ \A x \in Handles :
             /\ CacheWithout(old)[x] <=> inCache[x] /\ x \notin old
             /\ RefWithout(old)[x] = held[x] + (IF CacheWithout(old)[x] THEN 1 ELSE 0)
             /\ x \notin old => FreedWithout(old)[x] = freed[x]
      /\ \A x \in Allocated : FreedWithout(old)[x] = IF RefWithout(old)[x] = 0 THEN 1 ELSE 0
    BY <1>2, <1>5, ErasePointwise
<1>7. \A x \in Handles : inCache'[x] <=> x = h \/ (inCache[x] /\ x \notin old)
    BY <1>2, <1>6
<1>8. \A x \in Handles :
          /\ held'[x] = IF x = h THEN 1 ELSE held[x]
          /\ ref'[x] = IF x = h THEN 2 ELSE RefWithout(old)[x]
          /\ key'[x] = IF x = h THEN k ELSE key[x]
    BY <1>2, <1>6 DEF CacheInv, TypeOK
<1>9. Allocated' = Allocated \cup {h}
    BY <1>8 DEF Allocated
<1>10. RefCounted'
    BY <1>4, <1>6, <1>7, <1>8 DEF RefCounted
<1>11. FreedWhenUnreferenced'
    <2> SUFFICES ASSUME NEW x \in Allocated \cup {h}
                 PROVE  freed'[x] = IF ref'[x] = 0 THEN 1 ELSE 0
        BY <1>9 DEF FreedWhenUnreferenced
    <2>1. CASE x = h
        BY <1>2, <1>3, <1>5, <1>6, <1>8, <2>1
    <2>2. CASE x # h
        BY <1>2, <1>6, <1>8, <2>2 DEF Allocated
    <2> QED
        BY <2>1, <2>2
<1>12. /\ notUse' \in Seq(Handles) /\ Distinct(notUse')
       /\ Elems(notUse') = Elems(notUse) \ old
       /\ size' \in Nat /\ size' = Cardinality(inUse') + Len(notUse')
    <2>1. h \notin inUse /\ NoHandle \notin Handles /\ size \in Nat
        BY <1>3, <1>4, LRUCacheAssumption DEF Split, CacheInv, TypeOK
    <2>2. CASE cacheMap[k] = NoHandle
        <3>1. old = {} /\ NoHandle \notin Elems(notUse)
            BY <1>1, <1>4, <2>1, <2>2 DEF Split
        <3>2. /\ notUse' \in Seq(Handles) /\ Distinct(notUse')
              /\ Elems(notUse') = Elems(notUse) \ {NoHandle} /\ Len(notUse') = Len(notUse)
            BY <1>2, <1>4, <2>2, <3>1, UnlinkedFacts DEF Split
        <3>3. Cardinality(inUse') = Cardinality(inUse) + 1
            <4>1. inUse' = inUse \cup {h}
                BY <1>2, <3>1
            <4> QED
                BY <1>4, <2>1, <4>1, FS_AddElement
        <3>4. size = Cardinality(inUse) + Len(notUse)
            BY <1>4 DEF Split
        <3>5. size' \in Nat /\ size' = Cardinality(inUse') + Len(notUse')
            BY <1>2, <1>4, <2>1, <3>1, <3>2, <3>3, <3>4
        <3> QED
            BY <3>1, <3>2, <3>5
    <2>3. CASE cacheMap[k] # NoHandle
        <3>1. PICK o \in Handles : o = cacheMap[k] /\ old = {o} /\ inCache[o] /\ o # h
            BY <1>1, <1>5, <2>3
        <3>2. /\ notUse' \in Seq(Handles) /\ Distinct(notUse')
              /\ Elems(notUse') = Elems(notUse) \ {o}
              /\ size >= 1 /\ Len(notUse') \in Nat /\ Cardinality(inUse \ {o}) \in Nat
              /\ size - 1 = Cardinality(inUse \ {o}) + Len(notUse')
            BY <1>2, <3>1, OneErased
        <3>3. inUse' = (inUse \ {o}) \cup {h} /\ h \notin inUse \ {o}
            BY <1>2, <2>1, <3>1
        <3>4. IsFiniteSet(inUse \ {o})
            BY <1>4, FS_Subset
        <3>5. Cardinality(inUse') = Cardinality(inUse \ {o}) + 1
            BY <3>3, <3>4, FS_AddElement
        <3>6. size' = size
            BY <1>2, <3>1
        <3> QED
            BY <2>1, <3>1, <3>2, <3>5, <3>6
    <2> QED
        BY <2>2, <2>3
<1>13. Split'
    <2>1. Elems(notUse') = {x \in Handles : inCache'[x] /\ held'[x] = 0}
        BY <1>3, <1>4, <1>7, <1>8, <1>12 DEF Split
    <2>2. inUse' = {x \in Handles : inCache'[x] /\ held'[x] > 0}
        BY <1>2, <1>4, <1>5, <1>7, <1>8 DEF Split
    <2> QED
        BY <1>12, <2>1, <2>2 DEF Split
<1>14. TypeOK'
    <2>1. inCache' \in [Handles -> BOOLEAN] /\ destroyed' \in BOOLEAN
        BY <1>2, <1>6, Zenon DEF CacheInv, TypeOK
    <2>2. inUse' \subseteq Handles
        BY <1>2 DEF CacheInv, TypeOK
    <2>3. /\ key' \in [Handles -> Keys \cup {NoKey}] /\ held' \in [Handles -> Nat]
          /\ cacheMap' \in [Keys -> Handles \cup {NoHandle}] /\ ref' \in [Handles -> Nat]
          /\ freed' \in [Handles -> Nat] /\ maxSize' \in Nat
        BY <1>2, <1>6 DEF CacheInv, TypeOK
    <2> QED
        BY <1>12, <2>1, <2>2, <2>3 DEF TypeOK
<1>15. MapIsCache'
    <2>1. \A j \in Keys : cacheMap'[j] = IF j = k THEN h ELSE cacheMap[j]
        BY <1>2 DEF CacheInv, TypeOK
    <2>2. ASSUME NEW x \in Handles, inCache'[x]
          PROVE  key'[x] \in Keys /\ cacheMap'[key'[x]] = x
        <3>1. CASE x = h
            BY <1>8, <2>1, <3>1
        <3>2. CASE x # h
            <4>1. inCache[x] /\ x \notin old
                BY <1>7, <2>2, <3>2
            <4>2. key[x] \in Keys /\ cacheMap[key[x]] = x
                BY <1>2, <4>1 DEF CacheInv, MapIsCache
            <4>3. key[x] # k
                BY <1>1, <4>1, <4>2, LRUCacheAssumption
            <4> QED
                BY <1>8, <2>1, <3>2, <4>2, <4>3
        <3> QED
            BY <3>1, <3>2
    <2>3. ASSUME NEW j \in Keys, cacheMap'[j] # NoHandle
          PROVE  inCache'[cacheMap'[j]] /\ key'[cacheMap'[j]] = j
        <3>1. CASE j = k
            BY <1>7, <1>8, <2>1, <3>1
        <3>2. CASE j # k
            <4>1. cacheMap'[j] = cacheMap[j] /\ cacheMap[j] \in Handles
                BY <2>1, <2>3, <3>2 DEF CacheInv, TypeOK
            <4>2. inCache[cacheMap[j]] /\ key[cacheMap[j]] = j
                BY <1>2, <2>3, <4>1 DEF CacheInv, MapIsCache
            <4>3. cacheMap[j] # h /\ cacheMap[j] \notin old
                BY <1>3, <1>5, <3>2, <4>2
            <4> QED
                BY <1>7, <1>8, <4>1, <4>2, <4>3
        <3> QED
            BY <3>1, <3>2
    <2> QED
        BY <2>2, <2>3 DEF MapIsCache
<1>16. FreshUnknown'
    BY <1>2, <1>5, <1>6, <1>7, <1>8, <1>9 DEF CacheInv, FreshUnknown, Allocated, MapIsCache
<1>17. NothingAfterwards'
    BY <1>2 DEF NothingAfterwards
<1> QED
    BY <1>10, <1>11, <1>13, <1>14, <1>15, <1>16, <1>17, SplitListsNext DEF CacheInv

(* put without room: the oldest unused handles are evicted, as many as     *)
(* size_ is above the maximum, and the new handle is not cached.           *)
LEMMA PutUncachedInv ==
    ASSUME CacheInv, NEW h \in Handles, NEW k \in Keys, PutUncached(h, k)
    PROVE  CacheInv'
<1>1. PICK S, n : S = Oldest /\ n = Excess
    OBVIOUS
<1>2. /\ ~destroyed /\ h \notin Allocated /\ size >= maxSize
      /\ key' = [key EXCEPT ![h] = k] /\ held' = [held EXCEPT ![h] = 1]
      /\ cacheMap' = MapWithout(S) /\ notUse' = Rest(notUse, n)
      /\ inCache' = CacheWithout(S) /\ size' = size - n
      /\ ref' = [RefWithout(S) EXCEPT ![h] = 1] /\ freed' = FreedWithout(S)
      /\ UNCHANGED <<maxSize, inUse, destroyed>>
    BY <1>1 DEF PutUncached, Rest
<1>3. held[h] = 0 /\ ~inCache[h] /\ freed[h] = 0 /\ key[h] \notin Keys
    BY <1>2 DEF CacheInv, FreshUnknown, Allocated
<1>4. /\ Split /\ Len(notUse) \in Nat /\ notUse \in Seq(Handles)
      /\ IsFiniteSet(inUse) /\ Cardinality(inUse) \in Nat
      /\ \A x \in Handles : held[x] \in Nat /\ ref[x] \in Nat /\ freed[x] \in Nat
    BY <1>2, CacheFacts
<1>5. n \in 0..Len(notUse)
    BY <1>1, <1>2, <1>4 DEF Excess, CacheInv, TypeOK
<1>6. S = {notUse[i] : i \in 1..n} /\ S \subseteq Elems(notUse)
    <2>1. S = {notUse[i] : i \in 1..n}
        BY <1>1, Zenon DEF Oldest
    <2>2. \A i \in 1..n : i \in 1..Len(notUse)
        BY <1>4, <1>5
    <2> QED
        BY <2>1, <2>2 DEF Elems
<1>7. \A x \in S : x \in Handles /\ inCache[x] /\ held[x] = 0 /\ x # h
    BY <1>3, <1>4, <1>6 DEF Split
<1>8. /\ CacheWithout(S) \in [Handles -> BOOLEAN] /\ RefWithout(S) \in [Handles -> Nat]
      /\ FreedWithout(S) \in [Handles -> Nat]
      /\ MapWithout(S) \in [Keys -> Handles \cup {NoHandle}]
      /\ \A x \in Handles :
             /\ CacheWithout(S)[x] <=> inCache[x] /\ x \notin S
             /\ RefWithout(S)[x] = held[x] + (IF CacheWithout(S)[x] THEN 1 ELSE 0)
             /\ x \notin S => FreedWithout(S)[x] = freed[x]
      /\ \A x \in Allocated : FreedWithout(S)[x] = IF RefWithout(S)[x] = 0 THEN 1 ELSE 0
      /\ \A j \in Keys : MapWithout(S)[j] = IF cacheMap[j] \in S THEN NoHandle ELSE cacheMap[j]
    BY <1>2, <1>7, ErasePointwise
<1>9. \A x \in Handles :
          /\ inCache'[x] <=> inCache[x] /\ x \notin S
          /\ held'[x] = IF x = h THEN 1 ELSE held[x]
          /\ ref'[x] = IF x = h THEN 1 ELSE RefWithout(S)[x]
          /\ key'[x] = IF x = h THEN k ELSE key[x]
    BY <1>2, <1>8 DEF CacheInv, TypeOK
<1>10. Allocated' = Allocated \cup {h}
    BY <1>9 DEF Allocated
<1>11. RefCounted'
    BY <1>2, <1>3, <1>4, <1>8, <1>9 DEF RefCounted
<1>12. FreedWhenUnreferenced'
    <2> SUFFICES ASSUME NEW x \in Allocated \cup {h}
                 PROVE  freed'[x] = IF ref'[x] = 0 THEN 1 ELSE 0
        BY <1>10 DEF FreedWhenUnreferenced
    <2>1. CASE x = h
        BY <1>2, <1>3, <1>7, <1>8, <1>9, <2>1
    <2>2. CASE x # h
        BY <1>2, <1>8, <1>9, <2>2 DEF Allocated
    <2> QED
        BY <2>1, <2>2
<1>13. /\ notUse' \in Seq(Handles) /\ Distinct(notUse') /\ Len(notUse') = Len(notUse) - n
       /\ Elems(notUse') = Elems(notUse) \ S
    <2>1. notUse' = Rest(notUse, n) /\ Distinct(notUse)
        BY <1>2, <1>4 DEF Split
    <2>2. S = {notUse[i] : i \in 1..n}
        BY <1>6
    <2> QED
        BY <1>4, <1>5, <2>1, <2>2, CutFront, Zenon
<1>14. size' \in Nat /\ size' = Cardinality(inUse') + Len(notUse')
    <2>1. size = Cardinality(inUse) + Len(notUse)
        BY <1>4 DEF Split
    <2> QED
        BY <1>2, <1>4, <1>5, <1>13, <2>1
<1>15. Split'
    <2>1. Elems(notUse') = {x \in Handles : inCache'[x] /\ held'[x] = 0}
        BY <1>3, <1>4, <1>9, <1>13 DEF Split
    <2>2. inUse' = {x \in Handles : inCache'[x] /\ held'[x] > 0}
        BY <1>2, <1>3, <1>4, <1>7, <1>9 DEF Split
    <2> QED
        BY <1>13, <1>14, <2>1, <2>2 DEF Split
<1>16. TypeOK'
    <2>1. inCache' \in [Handles -> BOOLEAN] /\ destroyed' \in BOOLEAN
        BY <1>2, <1>8, Zenon DEF CacheInv, TypeOK
    <2>2. /\ key' \in [Handles -> Keys \cup {NoKey}] /\ held' \in [Handles -> Nat]
          /\ cacheMap' \in [Keys -> Handles \cup {NoHandle}] /\ ref' \in [Handles -> Nat]
          /\ freed' \in [Handles -> Nat] /\ maxSize' \in Nat /\ inUse' \subseteq Handles
        BY <1>2, <1>8 DEF CacheInv, TypeOK
    <2> QED
        BY <1>13, <1>14, <2>1, <2>2 DEF TypeOK
<1>17. MapIsCache'
    <2>1. \A x \in Handles : inCache'[x] => x # h /\ inCache[x] /\ x \notin S
        BY <1>3, <1>9
    <2>2. \A j \in Keys : cacheMap[j] # NoHandle =>
              /\ cacheMap[j] \in Handles /\ cacheMap[j] # h
              /\ inCache[cacheMap[j]] /\ key[cacheMap[j]] = j
        BY <1>2, <1>3 DEF CacheInv, TypeOK, MapIsCache
    <2>3. \A x \in Handles : inCache[x] => key[x] \in Keys /\ cacheMap[key[x]] = x
        BY <1>2 DEF CacheInv, MapIsCache
    <2> QED
        BY <1>2, <1>8, <1>9, <2>1, <2>2, <2>3 DEF MapIsCache
<1>18. FreshUnknown'
    BY <1>2, <1>7, <1>8, <1>9, <1>10 DEF CacheInv, FreshUnknown
<1>19. NothingAfterwards'
    BY <1>2 DEF NothingAfterwards
<1> QED
    BY <1>11, <1>12, <1>15, <1>16, <1>17, <1>18, <1>19, SplitListsNext DEF CacheInv

(* The destructor.                                                         *)
LEMMA DestroyInv == ASSUME CacheInv, Destroy PROVE CacheInv'
<1>1. /\ ~destroyed /\ \A h \in Handles : held[h] = 0
      /\ destroyed'
      /\ inCache' = CacheWithout(Unused) /\ ref' = RefWithout(Unused)
      /\ freed' = FreedWithout(Unused)
      /\ UNCHANGED <<maxSize, size, cacheMap, inUse, notUse, key, held>>
    BY Zenon DEF Destroy
<1>2. Split /\ Unused = Elems(notUse)
    BY <1>1, CacheFacts
<1>3. \A h \in Unused : h \in Handles /\ inCache[h]
    BY <1>2 DEF Split
<1>4. /\ inCache' \in [Handles -> BOOLEAN] /\ ref' \in [Handles -> Nat]
      /\ freed' \in [Handles -> Nat]
      /\ \A h \in Handles :
             /\ inCache'[h] <=> inCache[h] /\ h \notin Unused
             /\ ref'[h] = held[h] + (IF inCache'[h] THEN 1 ELSE 0)
             /\ h \notin Unused => freed'[h] = freed[h]
      /\ \A h \in Allocated : freed'[h] = IF ref'[h] = 0 THEN 1 ELSE 0
    BY <1>1, <1>3, ErasePointwise
<1>5. \A h \in Handles : ~inCache'[h]
    BY <1>1, <1>2, <1>4 DEF Split
<1>6. destroyed' \in BOOLEAN
    BY Zenon DEF Destroy
<1>7. TypeOK'
    BY <1>1, <1>4, <1>6 DEF CacheInv, TypeOK
<1>8. RefCounted' /\ FreedWhenUnreferenced'
    BY <1>1, <1>4 DEF RefCounted, FreedWhenUnreferenced, Allocated
<1>9. MapIsCache' /\ NothingAfterwards' /\ ListsSplitCache'
    BY <1>1, <1>5 DEF MapIsCache, NothingAfterwards, ListsSplitCache
<1>10. FreshUnknown'
    BY <1>1, <1>3, <1>4, <1>5 DEF CacheInv, FreshUnknown, Allocated, MapIsCache
<1> QED
    BY <1>7, <1>8, <1>9, <1>10 DEF CacheInv

(***************************************************************************)
(* Every operation of LRUCache keeps its counts, lists, map and size_      *)
(* right, whoever calls it.                                                *)
(***************************************************************************)
THEOREM CacheInductive == CacheInv /\ [Next]_vars => CacheInv'
<1> SUFFICES ASSUME CacheInv, [Next]_vars PROVE CacheInv'
    OBVIOUS
<1>1. CASE UNCHANGED vars
    <2>1. /\ UNCHANGED <<maxSize, size, cacheMap, inUse, notUse, key, ref, inCache>>
          /\ UNCHANGED <<held, freed, destroyed>>
        BY <1>1 DEF vars
    <2>2. TypeOK' /\ RefCounted' /\ MapIsCache'
        BY <2>1 DEF CacheInv, TypeOK, RefCounted, MapIsCache
    <2>3. ListsSplitCache' /\ FreedWhenUnreferenced' /\ FreshUnknown' /\ NothingAfterwards'
        BY <2>1 DEF CacheInv, FreedWhenUnreferenced, ListsSplitCache, FreshUnknown,
            NothingAfterwards, Allocated, Unused
    <2> QED
        BY <2>2, <2>3 DEF CacheInv
<1> QED
    BY <1>1, SetMaxSizeInv, GetInv, DelInv, ReleaseInv, PutCachedInv, PutUncachedInv,
        PruneInv, DestroyInv DEF Next, Destroyed

-----------------------------------------------------------------------------
(* The tasks on top of the cache.                                          *)

Holders(h) == {r \in Routers : handle[r] = h}

LEMMA HoldersFinite ==
    ASSUME NEW h
    PROVE  IsFiniteSet(Holders(h)) /\ Cardinality(Holders(h)) \in Nat
<1>1. Holders(h) \subseteq Routers
    BY DEF Holders
<1> QED
    BY <1>1, DNSCacheAssumption, FS_Subset, FS_CardinalityType

(* A task that gets a handle, with the reference that was counted for it.  *)
LEMMA OneMoreHolds ==
    ASSUME TasksInv, NEW r \in Routers, NEW h \in Handles, handle[r] = NoHandle,
           handle' = [handle EXCEPT ![r] = h],
           \A x \in Handles : held'[x] = IF x = h THEN held[x] + 1 ELSE held[x]
    PROVE  HeldCounted'
<1>1. handle \in [Routers -> Handles \cup {NoHandle}] /\ NoHandle \notin Handles
    BY LRUCacheAssumption DEF TasksInv, TasksType
<1>2. ASSUME NEW x \in Handles
      PROVE  held'[x] = Cardinality({q \in Routers : handle'[q] = x})
    <2>1. held[x] = Cardinality(Holders(x))
        BY DEF TasksInv, HeldCounted, Holders
    <2>2. CASE x = h
        <3>1. {q \in Routers : handle'[q] = x} = Holders(x) \cup {r} /\ r \notin Holders(x)
            BY <1>1, <2>2 DEF Holders
        <3>2. Cardinality(Holders(x) \cup {r}) = Cardinality(Holders(x)) + 1
            BY <3>1, HoldersFinite, FS_AddElement
        <3> QED
            BY <2>1, <2>2, <3>1, <3>2
    <2>3. CASE x # h
        <3>1. {q \in Routers : handle'[q] = x} = Holders(x)
            BY <1>1, <2>3 DEF Holders
        <3> QED
            BY <2>1, <2>3, <3>1
    <2> QED
        BY <2>2, <2>3
<1> QED
    BY <1>2 DEF HeldCounted

(* A task that releases the handle it holds.                               *)
LEMMA OneLessHolds ==
    ASSUME TasksInv, NEW r \in Routers, NEW h \in Handles, handle[r] = h,
           handle' = [handle EXCEPT ![r] = NoHandle],
           \A x \in Handles : held'[x] = IF x = h THEN held[x] - 1 ELSE held[x]
    PROVE  HeldCounted'
<1>1. handle \in [Routers -> Handles \cup {NoHandle}] /\ NoHandle \notin Handles
    BY LRUCacheAssumption DEF TasksInv, TasksType
<1>2. ASSUME NEW x \in Handles
      PROVE  held'[x] = Cardinality({q \in Routers : handle'[q] = x})
    <2>1. held[x] = Cardinality(Holders(x))
        BY DEF TasksInv, HeldCounted, Holders
    <2>2. CASE x = h
        <3>1. {q \in Routers : handle'[q] = x} = Holders(x) \ {r} /\ r \in Holders(x)
            BY <1>1, <2>2 DEF Holders
        <3>2. Cardinality(Holders(x) \ {r}) = Cardinality(Holders(x)) - 1
            BY <3>1, HoldersFinite, FS_RemoveElement
        <3> QED
            BY <2>1, <2>2, <3>1, <3>2
    <2>3. CASE x # h
        <3>1. {q \in Routers : handle'[q] = x} = Holders(x)
            BY <1>1, <2>3 DEF Holders
        <3> QED
            BY <2>1, <2>3, <3>1
    <2> QED
        BY <2>2, <2>3
<1> QED
    BY <1>2 DEF HeldCounted

(* Steps that leave the times of the entries alone.                        *)
LEMMA EntriesKept ==
    ASSUME IInv, UNCHANGED <<limit, since, moved, key>>, now' \in Nat, now' >= now
    PROVE  EntriesInv'
<1>1. Allocated' = Allocated /\ now \in Nat /\ Increment \in Nat
    BY DNSCacheAssumption DEF Allocated, IInv, TasksInv, TasksType
<1>2. ASSUME NEW h \in Handles, NEW x \in Kinds
      PROVE  Timely(limit[h][x], since[h][x], moved[h][x], now')
    <2>1. Timely(limit[h][x], since[h][x], moved[h][x], now)
        BY DEF IInv, EntriesInv
    <2> QED
        BY <1>1, <2>1 DEF Timely
<1> QED
    BY <1>1, <1>2 DEF IInv, EntriesInv

(* get, by a task that had nothing.                                        *)
LEMMA GetStep ==
    ASSUME IInv, NEW r \in Routers, NEW k \in Keys, Get(k), pc[r] = "idle",
           handle' = [handle EXCEPT ![r] = cacheMap[k]]
    PROVE  /\ CacheInv' /\ HeldCounted' /\ UNCHANGED key
           /\ cacheMap[k] \in Handles /\ handle[r] = NoHandle
<1>1. cacheMap[k] \in Handles
    BY DEF Get, IInv, CacheInv, TypeOK
<1>2. CacheInv'
    BY GetInv DEF IInv
<1>3. UNCHANGED key /\ held' = [held EXCEPT ![cacheMap[k]] = @ + 1]
    BY DEF Get
<1>4. handle[r] = NoHandle
    BY DEF IInv, TasksInv, TasksHold
<1>5. \A x \in Handles : held'[x] = IF x = cacheMap[k] THEN held[x] + 1 ELSE held[x]
    BY <1>3 DEF IInv, CacheInv, TypeOK
<1>6. HeldCounted'
    BY <1>1, <1>4, <1>5, OneMoreHolds DEF IInv
<1> QED
    BY <1>1, <1>2, <1>3, <1>4, <1>6

(* release, by a task of the handle it holds.                              *)
LEMMA ReleaseStep ==
    ASSUME IInv, NEW r \in Routers, pc[r] \in {"recheck", "route"}, Release(handle[r]),
           handle' = [handle EXCEPT ![r] = NoHandle]
    PROVE  /\ CacheInv' /\ HeldCounted' /\ UNCHANGED key
           /\ handle[r] \in Handles
<1>1. handle[r] \in Handles
    BY DEF IInv, TasksInv, TasksType, TasksHold
<1>2. CacheInv'
    BY <1>1, ReleaseInv DEF IInv
<1>3. UNCHANGED key /\ held' = [held EXCEPT ![handle[r]] = @ - 1]
    BY DEF Release
<1>4. \A x \in Handles : held'[x] = IF x = handle[r] THEN held[x] - 1 ELSE held[x]
    BY <1>3 DEF IInv, CacheInv, TypeOK
<1>5. HeldCounted'
    BY <1>1, <1>4, OneLessHolds DEF IInv
<1> QED
    BY <1>1, <1>2, <1>3, <1>5

LEMMA CacheKept == ASSUME IInv, UNCHANGED vars PROVE CacheInv' /\ UNCHANGED key
BY CacheInductive DEF IInv, vars

LEMMA LookupInv ==
    ASSUME IInv, NEW r \in Routers, NEW k \in Keys,
           Bypass(r, k) \/ Lookup(r, k) \/ \E x \in Kinds : LookupTimed(r, k, x)
    PROVE  IInv'
<1>1. /\ pc[r] = "idle" /\ UNCHANGED <<limit, since, moved, now>>
      /\ host' = [host EXCEPT ![r] = k]
    BY DEF Bypass, Lookup, LookupTimed, entryVars
<1>2. now \in Nat /\ handle[r] = NoHandle
    BY <1>1 DEF IInv, TasksInv, TasksType, TasksHold
<1>3. /\ kind' \in [Routers -> Kinds] /\ time' \in [Routers -> Nat]
      /\ \A q \in Routers : time'[q] <= now
    <2>1. /\ kind' = kind \/ \E x \in Kinds : kind' = [kind EXCEPT ![r] = x]
          /\ time' = time \/ time' = [time EXCEPT ![r] = now]
        BY DEF Bypass, Lookup, LookupTimed
    <2> QED
        BY <1>2, <2>1 DEF IInv, TasksInv, TasksType
<1>4. CASE UNCHANGED <<vars, handle>> /\ pc' = [pc EXCEPT ![r] = "resolve"]
    <2>1. CacheInv' /\ UNCHANGED <<key, held>>
        BY <1>4, CacheKept DEF vars
    <2>2. HeldCounted'
        BY <1>4, <2>1 DEF IInv, TasksInv, HeldCounted
    <2>3. TasksType' /\ TasksHold'
        BY <1>1, <1>2, <1>3, <1>4 DEF IInv, TasksInv, TasksType, TasksHold
    <2> QED
        BY <1>1, <1>2, <2>1, <2>2, <2>3, EntriesKept DEF IInv, TasksInv
<1>5. CASE /\ Get(k) /\ handle' = [handle EXCEPT ![r] = cacheMap[k]]
           /\ \E p \in {"route", "check"} : pc' = [pc EXCEPT ![r] = p]
    <2>1. CacheInv' /\ HeldCounted' /\ UNCHANGED key /\ cacheMap[k] \in Handles
        BY <1>1, <1>5, GetStep
    <2>2. TasksType' /\ TasksHold'
        BY <1>1, <1>2, <1>3, <1>5, <2>1, LRUCacheAssumption
        DEF IInv, TasksInv, TasksType, TasksHold
    <2> QED
        BY <1>1, <1>2, <2>1, <2>2, EntriesKept DEF IInv, TasksInv
<1> QED
    BY <1>4, <1>5 DEF Bypass, Lookup, LookupTimed

(* Steps that touch neither the cache nor an entry nor a handle.           *)
LEMMA TestInv ==
    ASSUME IInv, NEW r \in Routers, Check(r) \/ MovedByAnother(r) \/ Unresolved(r)
    PROVE  IInv'
<1>1. /\ UNCHANGED vars /\ UNCHANGED <<limit, since, moved, now>>
      /\ pc[r] \in {"check", "recheck", "resolve"}
    BY DEF Check, MovedByAnother, Unresolved, entryVars
<1>2. now \in Nat
    BY DEF IInv, TasksInv, TasksType
<1>3. CacheInv' /\ UNCHANGED <<key, held>>
    BY <1>1, CacheKept DEF vars
<1>4. EntriesInv'
    BY <1>1, <1>2, <1>3, EntriesKept
<1>5. CASE Check(r) \/ MovedByAnother(r)
    <2>1. /\ UNCHANGED <<host, kind, handle, time>> /\ pc[r] \in {"check", "recheck"}
          /\ \E p \in {"recheck", "route"} : pc' = [pc EXCEPT ![r] = p]
        BY <1>5 DEF Check, MovedByAnother
    <2>2. TasksType' /\ TasksHold'
        BY <1>1, <2>1 DEF IInv, TasksInv, TasksType, TasksHold
    <2>3. HeldCounted'
        BY <1>3, <2>1 DEF IInv, TasksInv, HeldCounted
    <2> QED
        BY <1>3, <1>4, <2>2, <2>3 DEF IInv, TasksInv
<1>6. CASE Unresolved(r)
    <2>1. pc[r] = "resolve" /\ Idle(r)
        BY <1>6 DEF Unresolved
    <2>2. handle[r] = NoHandle
        BY <2>1 DEF IInv, TasksInv, TasksHold
    <2>3. handle' = handle
        BY <2>1, <2>2 DEF Idle, IInv, TasksInv, TasksType
    <2>4. TasksType' /\ TasksHold'
        BY <1>1, <1>2, <2>1, <2>2, <2>3 DEF Idle, Kinds, IInv, TasksInv, TasksType, TasksHold
    <2>5. HeldCounted'
        BY <1>3, <2>3 DEF IInv, TasksInv, HeldCounted
    <2> QED
        BY <1>3, <1>4, <2>4, <2>5 DEF IInv, TasksInv
<1> QED
    BY <1>5, <1>6

LEMMA RouteInv == ASSUME IInv, NEW r \in Routers, Route(r) PROVE IInv'
<1>1. pc[r] = "route" /\ Release(handle[r]) /\ Idle(r) /\ UNCHANGED <<limit, since, moved, now>>
    BY DEF Route, entryVars
<1>2. now \in Nat /\ handle' = [handle EXCEPT ![r] = NoHandle]
    BY <1>1 DEF IInv, TasksInv, TasksType, Idle
<1>3. CacheInv' /\ HeldCounted' /\ UNCHANGED key
    BY <1>1, <1>2, ReleaseStep
<1>4. TasksType' /\ TasksHold'
    BY <1>1, <1>2 DEF Idle, Kinds, IInv, TasksInv, TasksType, TasksHold
<1> QED
    BY <1>1, <1>2, <1>3, <1>4, EntriesKept DEF IInv, TasksInv

(* The task that is to resolve moves a limit on that was over.             *)
LEMMA MoveOnInv == ASSUME IInv, NEW r \in Routers, MoveOn(r) PROVE IInv'
<1>1. PICK h, x : h = handle[r] /\ x = kind[r]
    OBVIOUS
<1>2. /\ pc[r] = "recheck" /\ Over(time[r], limit[h][x])
      /\ limit' = [limit EXCEPT ![h][x] = @ + Increment]
      /\ moved' = [moved EXCEPT ![h][x] = @ + 1]
      /\ Release(handle[r])
      /\ handle' = [handle EXCEPT ![r] = NoHandle]
      /\ pc' = [pc EXCEPT ![r] = "resolve"]
      /\ UNCHANGED <<since, now, host, kind, time>>
    BY <1>1 DEF MoveOn, StillOver
<1>3. CacheInv' /\ HeldCounted' /\ UNCHANGED key /\ h \in Handles
    BY <1>1, <1>2, ReleaseStep
<1>4. h \in Allocated /\ x \in Kinds /\ time[r] \in Nat /\ now \in Nat /\ time[r] <= now
    <2>1. held[h] # 0
        BY <1>1, <1>2 DEF Release, IInv, CacheInv, TypeOK
    <2> QED
        BY <1>1, <1>3, <2>1 DEF IInv, CacheInv, FreshUnknown, TasksInv, TasksType
<1>5. /\ limit[h][x] \in Nat /\ limit[h][x] < time[r] /\ Increment \in Nat
      /\ limit \in [Handles -> [Kinds -> Times]] /\ moved \in [Handles -> [Kinds -> Nat]]
    BY <1>2, <1>3, <1>4, DNSCacheAssumption DEF Over, IInv, EntriesInv, Times
<1>6. \A g \in Handles : \A y \in Kinds :
          limit'[g][y] = IF g = h /\ y = x THEN limit[g][y] + Increment ELSE limit[g][y]
    BY <1>2, <1>3, <1>4, <1>5
<1>7. \A g \in Handles : \A y \in Kinds :
          moved'[g][y] = IF g = h /\ y = x THEN moved[g][y] + 1 ELSE moved[g][y]
    BY <1>2, <1>3, <1>4, <1>5
<1>8. EntriesInv'
    <2>1. limit' \in [Handles -> [Kinds -> Times]]
        BY <1>2, <1>3, <1>4, <1>5 DEF Times
    <2>2. moved' \in [Handles -> [Kinds -> Nat]]
        BY <1>2, <1>3, <1>4, <1>5
    <2>3. \A g \in Handles \ Allocated' : \A y \in Kinds : moved'[g][y] = 0
        BY <1>3, <1>4, <1>7 DEF IInv, EntriesInv, Allocated
    <2>4. ASSUME NEW g \in Handles, NEW y \in Kinds
          PROVE  Timely(limit'[g][y], since'[g][y], moved'[g][y], now')
        <3>1. Timely(limit[g][y], since[g][y], moved[g][y], now)
            BY DEF IInv, EntriesInv
        <3>2. CASE g = h /\ y = x
            <4>1. /\ limit'[g][y] = limit[h][x] + Increment
                  /\ moved'[g][y] = moved[h][x] + 1 /\ moved[h][x] \in Nat
                BY <1>3, <1>4, <1>5, <1>6, <1>7, <3>2
            <4>2. limit[h][x] = since[h][x] + Increment * moved[h][x] /\ since[h][x] \in Nat
                BY <1>5, <3>1, <3>2, <4>1 DEF Timely
            <4>3. Increment * (moved[h][x] + 1) = Increment * moved[h][x] + Increment
                BY <1>5, <4>1
            <4> QED
                BY <1>2, <1>4, <1>5, <3>2, <4>1, <4>2, <4>3 DEF Timely
        <3>3. CASE ~(g = h /\ y = x)
            <4>1. moved'[g][y] = moved[g][y] /\ limit'[g][y] = limit[g][y]
                BY <1>6, <1>7, <3>3
            <4> QED
                BY <1>2, <3>1, <4>1
        <3> QED
            BY <3>2, <3>3
    <2> QED
        BY <1>2, <2>1, <2>2, <2>3, <2>4 DEF IInv, EntriesInv
<1>9. TasksType' /\ TasksHold'
    <2>1. host[r] \in Keys
        BY <1>2 DEF IInv, TasksInv, TasksHold
    <2> QED
        BY <1>2, <2>1 DEF IInv, TasksInv, TasksType, TasksHold
<1> QED
    BY <1>3, <1>8, <1>9 DEF IInv, TasksInv

(* put: a new handle, whose limits nobody has moved.                       *)
LEMMA ResolvedInv ==
    ASSUME IInv, NEW r \in Routers, NEW h \in Handles, NEW l \in Lives,
           Resolved(r, h, l[1], l[2])
    PROVE  IInv'
<1>1. /\ pc[r] = "resolve" /\ (PutCached(h, host[r]) \/ PutUncached(h, host[r]))
      /\ handle' = [handle EXCEPT ![r] = h] /\ pc' = [pc EXCEPT ![r] = "route"]
      /\ UNCHANGED <<moved, now, host, kind, time>>
    BY DEF Resolved
<1>2. now \in Nat /\ (l[1] = Forever \/ l[1] \in Nat) /\ (l[2] = Forever \/ l[2] \in Nat)
    BY DNSCacheAssumption DEF IInv, TasksInv, TasksType
<1>3. \E m \in [Kinds -> Times] : /\ limit' = [limit EXCEPT ![h] = m]
                                   /\ since' = [since EXCEPT ![h] = m]
    <2>1. PICK b \in Times : /\ b = l[1] \/ b = l[2]
                             /\ limit' = [limit EXCEPT ![h] =
                                    [x \in Kinds |-> IF x = "ttl" THEN Limit(l[1]) ELSE Limit(b)]]
        BY <1>2 DEF Resolved, Times
    <2>2. Limit(l[1]) \in Times /\ Limit(b) \in Times
        BY <1>2 DEF Limit, Times
    <2>3. PICK m \in [Kinds -> Times] : limit' = [limit EXCEPT ![h] = m]
        BY <2>1, <2>2
    <2>4. since' = [since EXCEPT ![h] = limit'[h]] /\ limit'[h] = m
        BY <2>3 DEF Resolved, IInv, EntriesInv
    <2> QED
        BY <2>3, <2>4
<1>4. host[r] \in Keys /\ handle[r] = NoHandle
    BY <1>1 DEF IInv, TasksInv, TasksHold
<1>5. CacheInv'
    BY <1>1, <1>4, PutCachedInv, PutUncachedInv DEF IInv
<1>6. h \notin Allocated /\ key' = [key EXCEPT ![h] = host[r]] /\ held' = [held EXCEPT ![h] = 1]
    BY <1>1 DEF PutCached, PutUncached
<1>7. HeldCounted'
    <2>1. held[h] = 0
        BY <1>6 DEF IInv, CacheInv, FreshUnknown
    <2>2. \A x \in Handles : held'[x] = IF x = h THEN held[x] + 1 ELSE held[x]
        BY <1>6, <2>1 DEF IInv, CacheInv, TypeOK
    <2> QED
        BY <1>1, <1>4, <2>2, OneMoreHolds DEF IInv
<1>8. TasksType' /\ TasksHold'
    BY <1>1, LRUCacheAssumption DEF IInv, TasksInv, TasksType, TasksHold
<1>9. EntriesInv'
    <2>1. \A x \in Kinds : moved[h][x] = 0
        BY <1>6 DEF IInv, EntriesInv
    <2>2. limit' \in [Handles -> [Kinds -> Times]] /\ since' \in [Handles -> [Kinds -> Times]]
        BY <1>3 DEF IInv, EntriesInv
    <2>3. /\ \A g \in Handles : g # h => limit'[g] = limit[g] /\ since'[g] = since[g]
          /\ limit'[h] = since'[h]
        BY <1>3 DEF IInv, EntriesInv
    <2>4. Allocated \subseteq Allocated'
        BY <1>4, <1>6 DEF Allocated, IInv, CacheInv, TypeOK
    <2>5. ASSUME NEW g \in Handles, NEW x \in Kinds
          PROVE  Timely(limit'[g][x], since'[g][x], moved'[g][x], now')
        <3>1. CASE g = h
            BY <1>1, <2>1, <2>3, <3>1 DEF Timely
        <3>2. CASE g # h
            BY <1>1, <2>3, <3>2 DEF IInv, EntriesInv
        <3> QED
            BY <3>1, <3>2
    <2> QED
        BY <1>1, <2>2, <2>4, <2>5 DEF IInv, EntriesInv
<1> QED
    BY <1>5, <1>7, <1>8, <1>9 DEF IInv, TasksInv

LEMMA TickInv == ASSUME IInv, Tick PROVE IInv'
<1>1. /\ UNCHANGED vars /\ UNCHANGED <<limit, since, moved, pc, host, kind, handle, time>>
      /\ now' = now + 1
    BY DEF Tick, entryVars, taskVars
<1>2. now \in Nat /\ now' \in Nat /\ now' >= now
    BY <1>1 DEF IInv, TasksInv, TasksType
<1>3. CacheInv' /\ UNCHANGED <<key, held>>
    BY <1>1, CacheKept DEF vars
<1>4. TasksType'
    <2>1. \A r \in Routers : time[r] <= now'
        BY <1>1, <1>2 DEF IInv, TasksInv, TasksType
    <2> QED
        BY <1>1, <1>2, <2>1 DEF IInv, TasksInv, TasksType
<1>5. TasksHold' /\ HeldCounted'
    BY <1>1, <1>3 DEF IInv, TasksInv, TasksHold, HeldCounted
<1> QED
    BY <1>1, <1>2, <1>3, <1>4, <1>5, EntriesKept DEF IInv, TasksInv

(* Steps of the cache that no task takes, and stuttering.                  *)
LEMMA ManageInv == ASSUME IInv, Manage \/ UNCHANGED <<vars, dnsVars>> PROVE IInv'
<1>1. UNCHANGED dnsVars /\ [Next]_vars /\ UNCHANGED <<key, held>>
    BY DEF Manage, Next, SetMaxSize, Del, Prune, Destroy, Destroyed, vars
<1>2. /\ UNCHANGED <<limit, since, moved, now, pc, host, kind, handle, time>>
    BY <1>1 DEF dnsVars, entryVars, taskVars
<1>3. CacheInv'
    BY <1>1, CacheInductive DEF IInv
<1>4. TasksInv'
    BY <1>1, <1>2 DEF IInv, TasksInv, TasksType, TasksHold, HeldCounted
<1>5. EntriesInv'
    BY <1>1, <1>2, EntriesKept DEF IInv, TasksInv, TasksType
<1> QED
    BY <1>3, <1>4, <1>5 DEF IInv

(* The three parts together are inductive.                                 *)
THEOREM DNSCacheInductive ==
    /\ DNSInit => IInv
    /\ IInv /\ [DNSNext]_<<vars, dnsVars>> => IInv'
<1>1. ASSUME DNSInit PROVE IInv
    <2>1. Init
        BY <1>1 DEF DNSInit
    <2>2. Allocated = {} /\ Unused = {}
        BY <2>1, LRUCacheAssumption DEF Init, Allocated, Unused
    <2>3. TypeOK
        <3>1. destroyed \in BOOLEAN /\ inCache \in [Handles -> BOOLEAN]
            BY <2>1, Zenon DEF Init
        <3>2. /\ notUse \in Seq(Handles) /\ inUse \subseteq Handles /\ maxSize \in Nat
              /\ size \in Nat
            BY <2>1 DEF Init
        <3>3. /\ ref \in [Handles -> Nat] /\ held \in [Handles -> Nat] /\ freed \in [Handles -> Nat]
            BY <2>1 DEF Init
        <3>4. /\ cacheMap \in [Keys -> Handles \cup {NoHandle}]
              /\ key \in [Handles -> Keys \cup {NoKey}]
            BY <2>1 DEF Init
        <3> QED
            BY <3>1, <3>2, <3>3, <3>4 DEF TypeOK
    <2>4. \A h \in Handles : ~inCache[h] /\ held[h] = 0 /\ freed[h] = 0 /\ ref[h] = 0
        BY <2>1 DEF Init
    <2>5. RefCounted /\ FreedWhenUnreferenced /\ FreshUnknown /\ NothingAfterwards
        BY <2>2, <2>4 DEF RefCounted, FreedWhenUnreferenced, FreshUnknown, NothingAfterwards
    <2>6. MapIsCache
        BY <2>1, <2>4 DEF Init, MapIsCache
    <2>7. ListsSplitCache
        BY <2>1, <2>2, <2>4, FS_EmptySet DEF Init, ListsSplitCache
    <2>8. TasksType /\ TasksHold
        BY <1>1 DEF DNSInit, TasksType, TasksHold, Kinds
    <2>9. HeldCounted
        <3> SUFFICES ASSUME NEW h \in Handles
                     PROVE  Cardinality({r \in Routers : handle[r] = h}) = 0
            BY <2>4 DEF HeldCounted
        <3>1. {r \in Routers : handle[r] = h} = {}
            BY <1>1, LRUCacheAssumption DEF DNSInit
        <3> QED
            BY <3>1, FS_EmptySet
    <2>10. EntriesInv
        BY <1>1 DEF DNSInit, EntriesInv, Times, Timely
    <2> QED
        BY <2>3, <2>5, <2>6, <2>7, <2>8, <2>9, <2>10 DEF IInv, CacheInv, TasksInv
<1>2. ASSUME IInv, [DNSNext]_<<vars, dnsVars>> PROVE IInv'
    <2>1. ASSUME NEW r \in Routers, RouterStep(r) PROVE IInv'
        BY <1>2, <2>1, TestInv, MoveOnInv, RouteInv, LookupInv, ResolvedInv DEF RouterStep
    <2> QED
        BY <1>2, <2>1, TickInv, ManageInv DEF DNSNext
<1> QED
    BY <1>1, <1>2

(* Hence they hold of every state.                                         *)
THEOREM DNSCacheInvariance == DNSSpec => []IInv
BY DNSCacheInductive, PTL DEF DNSSpec

(***************************************************************************)
(* For any number of keys, handles and tasks, whatever they put, get,      *)
(* delete, release and prune: LRUCache's reference counts, lists, map and  *)
(* size_ agree, and a handle is freed exactly when its last reference is.  *)
(***************************************************************************)
THEOREM CacheStaysSound == DNSSpec => []CacheSound
<1>1. IInv => CacheSound
    BY DEF IInv, CacheInv, CacheSound
<1> QED
    BY <1>1, DNSCacheInvariance, PTL

(***************************************************************************)
(* Every reference is held by a task, and what a task holds is not freed:  *)
(* no path through get_inner and the router task forgets a release or      *)
(* releases twice.                                                         *)
(***************************************************************************)
THEOREM ReferencesHeld == DNSSpec => []HeldByTasks
<1>1. IInv => HeldByTasks
    <2> SUFFICES ASSUME IInv, NEW h \in Handles
                 PROVE  /\ held[h] = Cardinality({r \in Routers : handle[r] = h})
                        /\ held[h] > 0 => freed[h] = 0
        BY DEF HeldByTasks
    <2>1. held[h] = Cardinality({r \in Routers : handle[r] = h})
        BY DEF IInv, TasksInv, HeldCounted
    <2>2. held[h] > 0 => ref[h] # 0
        <3>1. held[h] \in Nat
            BY DEF IInv, CacheInv, TypeOK
        <3>2. ref[h] = held[h] \/ ref[h] = held[h] + 1
            BY <3>1 DEF IInv, CacheInv, RefCounted
        <3> QED
            BY <3>1, <3>2
    <2>3. held[h] > 0 => h \in Allocated
        BY DEF IInv, CacheInv, FreshUnknown
    <2> QED
        BY <2>1, <2>2, <2>3 DEF IInv, CacheInv, FreedWhenUnreferenced
<1> QED
    BY <1>1, DNSCacheInvariance, PTL

(***************************************************************************)
(* For any number of tasks, any times to live and any increment, get_inner *)
(* sends at most one task to resolve an entry for each increment that it   *)
(* is late, however many tasks find it over at the same time.              *)
(***************************************************************************)
THEOREM MovesAreLateness == DNSSpec => []OneMoveForEachIncrement
<1>1. IInv => OneMoveForEachIncrement
    <2> SUFFICES ASSUME IInv, NEW h \in Handles, NEW x \in Kinds, moved[h][x] > 0
                 PROVE  since[h][x] + Increment * (moved[h][x] - 1) < now
        BY DEF OneMoveForEachIncrement
    <2>1. /\ moved[h][x] \in Nat /\ now \in Nat /\ Increment \in Nat
          /\ since[h][x] \in Nat /\ limit[h][x] < now + Increment
          /\ limit[h][x] = since[h][x] + Increment * moved[h][x]
        BY DNSCacheAssumption DEF IInv, EntriesInv, Timely, TasksInv, TasksType
    <2>2. Increment * (moved[h][x] - 1) = Increment * moved[h][x] - Increment
        BY <2>1
    <2> QED
        BY <2>1, <2>2
<1> QED
    BY <1>1, DNSCacheInvariance, PTL
=============================================================================
