--------------------------- MODULE UpstreamProofs ---------------------------
(***************************************************************************)
(* Proofs about Upstream, for any number of servers, groups and threads,   *)
(* any weights and any values of max_fails: the counters of the groups and *)
(* of the upstream are right, and a server that is down is on its group's  *)
(* breaker list.                                                           *)
(*                                                                         *)
(* The code adjusts the counters by what it believes to change: it takes a *)
(* server that is not on the list for one that is up, and a group pointer  *)
(* read before the mutex was taken for the group of the server.  The       *)
(* invariant says why it may: for a server in a group, being on the list   *)
(* and being down are the same (ServersOK), and a pointer is stale only    *)
(* when the server has been removed for good (RequestOK).                  *)
(***************************************************************************)
EXTENDS Upstream, FiniteSetTheorems, TLAPS

Up == {u \in Members : ~Down(u)}
UpIn(g) == {u \in Members : group[u] = g /\ ~Down(u)}
MastersIn(g) == {u \in Masters : group[u] = g}
ListedIn(g) == {u \in Added : listed[u] /\ params[u].group = g}
Ungrouped == \A u \in Added : ~Grouped(u)

(* The servers and the groups.                                             *)
ServerTypes ==
    /\ params \in [Servers -> Params \cup {<<>>}]
    /\ group \in [Servers -> Groups \cup {NoGroup}]
    /\ failCount \in [Servers -> Nat]
    /\ listed \in [Servers -> BOOLEAN]
    /\ brokenTimeout \in [Servers -> Nat]
    /\ nbreak \in [Groups -> Int]
    /\ nalive \in [Groups -> Int]
    /\ weight \in [Groups -> Int]
    /\ now \in Nat

ServerOK(u) ==
    /\ u \notin Added => group[u] = NoGroup /\ failCount[u] = 0 /\ ~listed[u]
    /\ u \in Members => group[u] = params[u].group /\ (listed[u] <=> Down(u))
    /\ listed[u] => brokenTimeout[u] <= now + MTTR

ServersOK == \A u \in Servers : ServerOK(u)

(* nbreak may be too high, because notify_available does not decrement it, *)
(* but never too low.                                                      *)
ListedCounted == \A g \in Groups : nbreak[g] >= Cardinality(ListedIn(g))

AliveRight == \A g \in Groups : nalive[g] = Cardinality(UpIn(g))
WeightRight == \A g \in Groups : weight[g] = Weight(MastersIn(g))

ServersInv == ServerTypes /\ ServersOK /\ ListedCounted /\ AliveRight /\ WeightRight

(* The threads.                                                            *)
ThreadTypes ==
    /\ available \in Int
    /\ pc \in [Threads -> {"idle", "store", "del", "breakers", "request", "available",
                           "unavailable"}]
    /\ next \in [Threads -> {"idle", "del", "breakers"}]
    /\ held \in [Threads -> SUBSET Groups]
    /\ value \in [Threads -> Int]
    /\ server \in [Threads -> Servers \cup {NoServer}]
    /\ seen \in [Threads -> Groups \cup {NoGroup}]

(* A thread holds a mutex between two steps only while it has to store     *)
(* available_weight_, and no two hold the same.                            *)
MutexOK(k) ==
    /\ held[k] # {} <=> pc[k] = "store"
    /\ pc[k] # "store" => next[k] = "idle"
    /\ \A j \in Threads : j # k => held[j] \cap held[k] = {}

RequestOK(k) ==
    /\ pc[k] \in {"request", "available", "unavailable"} => server[k] \in Added
    /\ pc[k] = "breakers" \/ next[k] = "breakers" => mode = "consistent" \/ server[k] \in Added
    /\ pc[k] \in {"available", "unavailable"} =>
           IF seen[k] = NoGroup THEN group[server[k]] = NoGroup
           ELSE seen[k] = params[server[k]].group

ThreadsOK == \A k \in Threads : MutexOK(k) /\ RequestOK(k)

(* Without groups, available_weight_ is right or about to be.              *)
AvailableRight ==
    Ungrouped =>
        /\ \A k \in Threads : held[k] \subseteq {Default}
        /\ Free({Default}) => available = OwnWeight(Up)
        /\ \A k \in Threads : Default \in held[k] => value[k] = OwnWeight(Up)

UpstreamInv == ServersInv /\ ThreadTypes /\ ThreadsOK /\ AvailableRight

-----------------------------------------------------------------------------
(* Weights.                                                                *)

LEMMA ParamsAreSome == \A p \in Params : p # <<>>
<1> SUFFICES ASSUME NEW p \in Params, p = <<>> PROVE FALSE
    OBVIOUS
<1>1. DOMAIN p = {"address", "group", "master", "weight", "maxFails"}
    BY DEF Params
<1>2. DOMAIN <<>> = {}
    OBVIOUS
<1> QED
    BY <1>1, <1>2

LEMMA ParamsOf ==
    ASSUME NEW p \in Params
    PROVE  /\ p.address \in Addresses /\ p.group \in Groups /\ p.master \in BOOLEAN
           /\ p.weight \in Nat /\ p.weight # 0 /\ p.maxFails \in Nat /\ p.maxFails # 0
BY UpstreamAssumption DEF Params

LEMMA ParamsOfAdded ==
    ASSUME ServerTypes, NEW u \in Added
    PROVE  /\ u \in Servers /\ params[u] \in Params
           /\ params[u].address \in Addresses /\ params[u].group \in Groups
           /\ params[u].master \in BOOLEAN
           /\ params[u].weight \in Nat /\ params[u].weight # 0
           /\ params[u].maxFails \in Nat /\ params[u].maxFails # 0
           /\ failCount[u] \in Nat
<1>1. u \in Servers /\ params[u] \in Params
    BY DEF ServerTypes, Added
<1> QED
    BY <1>1, ParamsOf DEF ServerTypes

(* Weighted sums for a function p of the parameters: params or params'.    *)
UnitsOf(p, S) == UNION {{u} \X (1 .. p[u].weight) : u \in S}

LEMMA UnitsFinite ==
    ASSUME NEW p, NEW S, S \subseteq Servers, \A u \in S : p[u] \in Params
    PROVE  IsFiniteSet(UnitsOf(p, S)) /\ Cardinality(UnitsOf(p, S)) \in Nat
<1> DEFINE T == {{u} \X (1 .. p[u].weight) : u \in S}
           f == [u \in S |-> {u} \X (1 .. p[u].weight)]
<1>1. IsFiniteSet(S)
    BY UpstreamAssumption, FS_Subset
<1>2. f \in Surjection(S, T)
    BY DEF Surjection
<1>3. IsFiniteSet(T)
    <2> HIDE DEF f, T
    <2> QED
        BY <1>1, <1>2, FS_Surjection
<1>4. ASSUME NEW u \in S PROVE IsFiniteSet({u} \X (1 .. p[u].weight))
    <2>1. 1 \in Int /\ p[u].weight \in Int
        BY ParamsOf
    <2>2. IsFiniteSet(1 .. p[u].weight) /\ IsFiniteSet({u})
        BY <2>1, FS_Interval, FS_Singleton
    <2> QED
        BY <2>2, FS_Product
<1>5. \A X \in T : IsFiniteSet(X)
    BY <1>4
<1> HIDE DEF T
<1>6. IsFiniteSet(UNION T)
    BY <1>3, <1>5, FS_UNION
<1> QED
    BY <1>6, FS_CardinalityType DEF T, UnitsOf

LEMMA UnitsUnion ==
    ASSUME NEW p, NEW S, NEW T, S \subseteq Servers, T \subseteq Servers, S \cap T = {},
           \A u \in S \cup T : p[u] \in Params
    PROVE  Cardinality(UnitsOf(p, S \cup T)) =
               Cardinality(UnitsOf(p, S)) + Cardinality(UnitsOf(p, T))
<1>1. PICK A, B : A = UnitsOf(p, S) /\ B = UnitsOf(p, T)
    OBVIOUS
<1>2. IsFiniteSet(A) /\ IsFiniteSet(B) /\ Cardinality(A) \in Nat /\ Cardinality(B) \in Nat
    BY <1>1, UnitsFinite
<1>3. UnitsOf(p, S \cup T) = A \cup B /\ A \cap B = {}
    BY <1>1 DEF UnitsOf
<1>4. Cardinality(A \cup B) = Cardinality(A) + Cardinality(B) - Cardinality(A \cap B)
    BY <1>2, FS_Union
<1>5. Cardinality(A \cap B) = 0
    BY <1>3, FS_EmptySet
<1>6. PICK x, y : x = Cardinality(A) /\ y = Cardinality(B)
    OBVIOUS
<1>7. Cardinality(A \cup B) = x + y - 0
    BY <1>4, <1>5, <1>6
<1>8. x \in Nat /\ y \in Nat /\ x + y - 0 = x + y
    BY <1>2, <1>6
<1> QED
    BY <1>1, <1>3, <1>6, <1>7, <1>8

LEMMA UnitsOfOne ==
    ASSUME NEW p, NEW u \in Servers, p[u] \in Params
    PROVE  Cardinality(UnitsOf(p, {u})) = p[u].weight
<1>1. PICK n : n = p[u].weight
    OBVIOUS
<1>2. n \in Nat /\ n # 0
    BY <1>1, ParamsOf
<1>3. PICK A, B : A = {u} /\ B = 1 .. n
    OBVIOUS
<1>4. IsFiniteSet(A) /\ Cardinality(A) = 1
    BY <1>3, FS_Singleton
<1>5. IsFiniteSet(B) /\ Cardinality(B) = n
    <2>1. 1 \in Int /\ n \in Int /\ ~(1 > n) /\ n - 1 + 1 = n
        BY <1>2
    <2> QED
        BY <1>3, <2>1, FS_Interval
<1>6. Cardinality(A \X B) = Cardinality(A) * Cardinality(B)
    BY <1>4, <1>5, FS_Product
<1>7. UnitsOf(p, {u}) = A \X B
    BY <1>1, <1>3 DEF UnitsOf
<1>8. 1 * n = n
    BY <1>2
<1> QED
    BY <1>1, <1>4, <1>5, <1>6, <1>7, <1>8

LEMMA UnitsSame ==
    ASSUME NEW p, NEW q, NEW S, \A u \in S : p[u] = q[u]
    PROVE  UnitsOf(p, S) = UnitsOf(q, S)
BY DEF UnitsOf

LEMMA NoUnits == \A p : Cardinality(UnitsOf(p, {})) = 0
BY FS_EmptySet DEF UnitsOf

OwnOf(p, S) == UnitsOf(p, {u \in S : ~(p[u].group # Default) /\ p[u].master})

LEMMA OwnIs == \A S : OwnWeight(S) = Cardinality(OwnOf(params, S))
BY DEF OwnWeight, Weight, OwnOf, UnitsOf, Grouped

LEMMA OwnIsNext == OwnWeight(Up)' = Cardinality(OwnOf(params', Up'))
BY DEF OwnWeight, Weight, OwnOf, UnitsOf, Grouped

(* What the servers S add when they are not among T.                       *)
LEMMA OwnUnion ==
    ASSUME NEW p, NEW S, NEW T, S \subseteq Servers, T \subseteq Servers, S \cap T = {},
           \A u \in S \cup T : p[u] \in Params
    PROVE  /\ Cardinality(OwnOf(p, S \cup T)) =
                  Cardinality(OwnOf(p, S)) + Cardinality(OwnOf(p, T))
           /\ Cardinality(OwnOf(p, S)) \in Nat /\ Cardinality(OwnOf(p, T)) \in Nat
<1>1. PICK A : A = {u \in S : ~(p[u].group # Default) /\ p[u].master}
    OBVIOUS
<1>2. PICK B : B = {u \in T : ~(p[u].group # Default) /\ p[u].master}
    OBVIOUS
<1>3. {u \in S \cup T : ~(p[u].group # Default) /\ p[u].master} = A \cup B
    BY <1>1, <1>2
<1>4. /\ A \subseteq Servers /\ B \subseteq Servers /\ A \cap B = {}
      /\ \A u \in A \cup B : p[u] \in Params
    BY <1>1, <1>2
<1>5. OwnOf(p, S) = UnitsOf(p, A) /\ OwnOf(p, T) = UnitsOf(p, B)
    BY <1>1, <1>2 DEF OwnOf
<1>6. OwnOf(p, S \cup T) = UnitsOf(p, A \cup B)
    BY <1>3 DEF OwnOf
<1>7. Cardinality(UnitsOf(p, A)) \in Nat /\ Cardinality(UnitsOf(p, B)) \in Nat
    BY <1>4, UnitsFinite
<1> QED
    BY <1>4, <1>5, <1>6, <1>7, UnitsUnion

(* Sets of servers are finite.                                             *)
LEMMA ServerSets ==
    ASSUME NEW S, S \subseteq Servers
    PROVE  IsFiniteSet(S) /\ Cardinality(S) \in Nat
BY UpstreamAssumption, FS_Subset, FS_CardinalityType

LEMMA SetsOfServers ==
    /\ Added \subseteq Servers /\ Members \subseteq Added /\ Masters \subseteq Members
    /\ Up \subseteq Members
    /\ \A g : UpIn(g) \subseteq Up /\ MastersIn(g) \subseteq Masters /\ ListedIn(g) \subseteq Added
BY DEF Added, Members, Masters, Up, UpIn, MastersIn, ListedIn

LEMMA TakeAway ==
    ASSUME NEW A, NEW B, A \subseteq Servers, B \subseteq A
    PROVE  Cardinality(A \ B) = Cardinality(A) - Cardinality(B)
<1>1. IsFiniteSet(A) /\ IsFiniteSet(B) /\ Cardinality(A) \in Nat /\ Cardinality(B) \in Nat
    BY ServerSets
<1>2. Cardinality(A \ B) = Cardinality(A) - Cardinality(A \cap B) /\ A \cap B = B
    BY <1>1, FS_Difference
<1> QED
    BY <1>2

LEMMA PutTogether ==
    ASSUME NEW A, NEW B, A \subseteq Servers, B \subseteq Servers, A \cap B = {}
    PROVE  Cardinality(A \cup B) = Cardinality(A) + Cardinality(B)
<1>1. IsFiniteSet(A) /\ IsFiniteSet(B) /\ Cardinality(A) \in Nat /\ Cardinality(B) \in Nat
    BY ServerSets
<1>2. PICK x, y : x = Cardinality(A) /\ y = Cardinality(B)
    OBVIOUS
<1>3. Cardinality(A \cup B) = x + y - Cardinality(A \cap B) /\ Cardinality(A \cap B) = 0
    BY <1>1, <1>2, FS_Union, FS_EmptySet
<1>4. x + y - 0 = x + y
    BY <1>1, <1>2
<1> QED
    BY <1>2, <1>3, <1>4

-----------------------------------------------------------------------------
(* nalive.                                                                 *)

(* The servers S, which were up, go down or away.                          *)
LEMMA LoseStep ==
    ASSUME ServerTypes, ServersOK, AliveRight, NEW S, S \subseteq Up,
           nalive' = LoseAlive(S), \A g \in Groups : UpIn(g)' = UpIn(g) \ S
    PROVE  AliveRight' /\ nalive' \in [Groups -> Int]
<1>1. ASSUME NEW g \in Groups
      PROVE  /\ nalive'[g] = Cardinality(UpIn(g) \ S) /\ nalive'[g] \in Int
    <2>1. \A u \in S : u \in UpIn(g) <=> params[u].group = g
        BY SetsOfServers DEF Up, UpIn, ServersOK, ServerOK
    <2>2. InGroup(g, S) \subseteq UpIn(g) /\ UpIn(g) \ S = UpIn(g) \ InGroup(g, S)
        BY <2>1 DEF InGroup
    <2>3. Cardinality(UpIn(g) \ S) = Cardinality(UpIn(g)) - Cardinality(InGroup(g, S))
        BY <2>2, TakeAway, SetsOfServers
    <2>4. nalive'[g] = nalive[g] - Cardinality(InGroup(g, S)) /\ nalive[g] = Cardinality(UpIn(g))
        BY DEF LoseAlive, AliveRight
    <2>5. Cardinality(InGroup(g, S)) \in Nat /\ nalive[g] \in Int
        BY <2>2, ServerSets, SetsOfServers DEF ServerTypes
    <2> QED
        BY <2>3, <2>4, <2>5
<1>2. nalive' = [g \in Groups |-> nalive'[g]]
    BY DEF LoseAlive
<1> QED
    BY <1>1, <1>2 DEF AliveRight

(* The servers S, which were down, come up.                                *)
LEMMA GainStep ==
    ASSUME ServerTypes, ServersOK, AliveRight, NEW S, S \subseteq Members, S \cap Up = {},
           nalive' = GainAlive(S), \A g \in Groups : UpIn(g)' = UpIn(g) \cup InGroup(g, S)
    PROVE  AliveRight' /\ nalive' \in [Groups -> Int]
<1>1. ASSUME NEW g \in Groups
      PROVE  /\ nalive'[g] = Cardinality(UpIn(g) \cup InGroup(g, S)) /\ nalive'[g] \in Int
    <2>1. InGroup(g, S) \cap UpIn(g) = {} /\ InGroup(g, S) \subseteq Servers
        BY SetsOfServers DEF InGroup
    <2>2. Cardinality(UpIn(g) \cup InGroup(g, S)) = Cardinality(UpIn(g)) + Cardinality(InGroup(g, S))
        BY <2>1, PutTogether, SetsOfServers
    <2>3. nalive'[g] = nalive[g] + Cardinality(InGroup(g, S)) /\ nalive[g] = Cardinality(UpIn(g))
        BY DEF GainAlive, AliveRight
    <2>4. Cardinality(InGroup(g, S)) \in Nat /\ nalive[g] \in Int
        BY <2>1, ServerSets DEF ServerTypes
    <2> QED
        BY <2>2, <2>3, <2>4
<1>2. nalive' = [g \in Groups |-> nalive'[g]]
    BY DEF GainAlive
<1> QED
    BY <1>1, <1>2 DEF AliveRight

(* The sets that depend on params and group only.                          *)
LEMMA SameServers ==
    ASSUME params' = params, group' = group
    PROVE  /\ Added' = Added /\ Members' = Members /\ Masters' = Masters
           /\ \A g : MastersIn(g)' = MastersIn(g)
           /\ \A S : Weight(S)' = Weight(S)
BY DEF Added, Members, Masters, MastersIn, Weight

LEMMA SameWeight ==
    ASSUME params' = params, group' = group, weight' = weight, WeightRight
    PROVE  WeightRight'
BY DEF WeightRight, Weight, MastersIn, Masters, Members, Added

(* Servers S that were not listed are broken.                              *)
LEMMA BreakStep ==
    ASSUME ServersInv, NEW S, S \subseteq Up, Break(S),
           params' = params, group' = group, weight' = weight, now' = now,
           failCount' \in [Servers -> Nat],
           \A u \in Servers \ Added : failCount'[u] = failCount[u],
           \A u \in Members : failCount'[u] >= params[u].maxFails <=> (u \in S \/ Down(u))
    PROVE  ServersInv' /\ Up' = Up \ S
<1>1. ServerTypes /\ ServersOK /\ ListedCounted /\ AliveRight /\ WeightRight
    BY DEF ServersInv
<1>2. S \subseteq Members /\ S \subseteq Added /\ S \subseteq Servers
    BY SetsOfServers
<1>3. /\ \A u \in Servers : listed'[u] = (listed[u] \/ u \in S)
      /\ listed' \in [Servers -> BOOLEAN]
      /\ \A u \in Servers : brokenTimeout'[u] = IF u \in S THEN now + MTTR ELSE brokenTimeout[u]
      /\ brokenTimeout' \in [Servers -> Nat]
    BY <1>1, UpstreamAssumption DEF Break, ServerTypes
<1>4. \A u \in Members : Down(u)' <=> (u \in S \/ Down(u))
    BY DEF Down
<1>5. /\ Up' = Up \ S
      /\ \A g : UpIn(g)' = UpIn(g) \ S
    BY <1>4, SameServers DEF Up, UpIn
<1>6. AliveRight' /\ nalive' \in [Groups -> Int]
    BY <1>1, <1>5, LoseStep DEF Break
<1>7. WeightRight'
    BY <1>1, SameWeight
<1>8. ListedCounted' /\ nbreak' \in [Groups -> Int]
    <2>1. ASSUME NEW g \in Groups
          PROVE  nbreak'[g] >= Cardinality(ListedIn(g)') /\ nbreak'[g] \in Int
        <3>1. ListedIn(g)' = ListedIn(g) \cup InGroup(g, S)
            BY <1>2, <1>3, SameServers, SetsOfServers DEF ListedIn, InGroup
        <3>2. ListedIn(g) \cap InGroup(g, S) = {}
            BY <1>1, <1>2, SetsOfServers DEF ListedIn, InGroup, Up, ServersOK, ServerOK
        <3>3. InGroup(g, S) \subseteq Servers /\ ListedIn(g) \subseteq Servers
            BY <1>2, SetsOfServers DEF InGroup
        <3>4. Cardinality(ListedIn(g)') = Cardinality(ListedIn(g)) + Cardinality(InGroup(g, S))
            BY <3>1, <3>2, <3>3, PutTogether
        <3>5. Cardinality(ListedIn(g)) \in Nat /\ Cardinality(InGroup(g, S)) \in Nat
            BY <3>3, ServerSets
        <3>6. /\ nbreak'[g] = nbreak[g] + Cardinality(InGroup(g, S))
              /\ nbreak[g] >= Cardinality(ListedIn(g)) /\ nbreak[g] \in Int
            BY <1>1 DEF Break, ListedCounted, ServerTypes
        <3> QED
            BY <3>4, <3>5, <3>6
    <2>2. nbreak' = [g \in Groups |-> nbreak'[g]]
        BY DEF Break
    <2> QED
        BY <2>1, <2>2 DEF ListedCounted
<1>9. ServersOK'
    <2>1. ASSUME NEW u \in Servers PROVE ServerOK(u)'
        <3>1. u \notin Added => group[u] = NoGroup /\ failCount'[u] = 0 /\ ~listed'[u]
            BY <1>1, <1>2, <1>3 DEF ServersOK, ServerOK
        <3>2. u \in Members => group[u] = params[u].group /\ (listed'[u] <=> Down(u)')
            BY <1>1, <1>3, <1>4 DEF ServersOK, ServerOK
        <3>3. listed'[u] => brokenTimeout'[u] <= now + MTTR
            <4>1. now + MTTR \in Int /\ now + MTTR <= now + MTTR
                BY <1>1, UpstreamAssumption DEF ServerTypes
            <4>2. CASE u \in S
                BY <1>3, <4>1, <4>2
            <4>3. CASE u \notin S
                BY <1>1, <1>3, <4>3 DEF ServersOK, ServerOK
            <4> QED
                BY <4>2, <4>3
        <3> QED
            BY <3>1, <3>2, <3>3, SameServers DEF ServerOK
    <2> QED
        BY <2>1 DEF ServersOK
<1>10. ServerTypes'
    BY <1>1, <1>3, <1>6, <1>8 DEF ServerTypes
<1> QED
    BY <1>5, <1>6, <1>7, <1>8, <1>9, <1>10 DEF ServersInv

(* Servers E leave the breaker list, and those of them that were down come *)
(* back if they are still in a group.                                      *)
LEMMA BackStep ==
    ASSUME ServersInv, NEW E, E \subseteq Added, NEW back,
           back = {u \in E : u \in Members /\ Down(u)},
           \A u \in Servers : listed'[u] = (listed[u] /\ u \notin E),
           listed' \in [Servers -> BOOLEAN],
           \A u \in Servers : brokenTimeout'[u] = IF u \in E THEN 0 ELSE brokenTimeout[u],
           brokenTimeout' \in [Servers -> Nat],
           failCount' \in [Servers -> Nat],
           \A u \in Servers \ E : failCount'[u] = failCount[u],
           \A u \in E : failCount'[u] < params[u].maxFails,
           nalive' = GainAlive(back),
           nbreak' \in [Groups -> Int],
           \A g \in Groups : nbreak'[g] >= Cardinality(ListedIn(g) \ E),
           params' = params, group' = group, weight' = weight, now' = now
    PROVE  ServersInv' /\ back \cap Up = {} /\ back \subseteq Members /\ Up' = Up \cup back
<1>1. ServerTypes /\ ServersOK /\ ListedCounted /\ AliveRight /\ WeightRight
    BY DEF ServersInv
<1>2. back \cap Up = {} /\ back \subseteq Members
    BY DEF Up
<1>3. ASSUME NEW u \in Members PROVE Down(u)' <=> (Down(u) /\ u \notin E)
    <2>1. u \in Servers /\ u \in Added
        BY SetsOfServers
    <2>2. u \in E => ~(failCount'[u] >= params[u].maxFails)
        BY <1>1, <2>1, ParamsOfAdded
    <2> QED
        BY <2>1, <2>2 DEF Down
<1>4. /\ Up' = Up \cup back
      /\ \A g \in Groups : UpIn(g)' = UpIn(g) \cup InGroup(g, back)
    <2>1. Up' = Up \cup back
        BY <1>3, SameServers DEF Up
    <2>2. ASSUME NEW g \in Groups PROVE UpIn(g)' = UpIn(g) \cup InGroup(g, back)
        <3>1. \A u \in back : params[u].group = group[u]
            BY <1>1, <1>2, SetsOfServers DEF ServersOK, ServerOK
        <3> QED
            BY <1>2, <1>3, <3>1, SameServers DEF UpIn, InGroup
    <2> QED
        BY <2>1, <2>2
<1>5. AliveRight' /\ nalive' \in [Groups -> Int]
    BY <1>1, <1>2, <1>4, GainStep
<1>6. WeightRight'
    BY <1>1, SameWeight
<1>7. ListedCounted'
    <2>1. \A g : ListedIn(g)' = ListedIn(g) \ E
        BY SameServers, SetsOfServers DEF ListedIn
    <2> QED
        BY <2>1 DEF ListedCounted
<1>8. ServersOK'
    <2>1. ASSUME NEW u \in Servers PROVE ServerOK(u)'
        <3>1. u \notin Added => group[u] = NoGroup /\ failCount'[u] = 0 /\ ~listed'[u]
            BY <1>1 DEF ServersOK, ServerOK
        <3>2. u \in Members => group[u] = params[u].group /\ (listed'[u] <=> Down(u)')
            BY <1>1, <1>3 DEF ServersOK, ServerOK
        <3>3. listed'[u] => brokenTimeout'[u] <= now + MTTR
            BY <1>1 DEF ServersOK, ServerOK
        <3> QED
            BY <3>1, <3>2, <3>3, SameServers DEF ServerOK
    <2> QED
        BY <2>1 DEF ServersOK
<1>9. ServerTypes'
    BY <1>1, <1>5 DEF ServerTypes
<1> QED
    BY <1>2, <1>4, <1>5, <1>6, <1>7, <1>8, <1>9 DEF ServersInv

(* A server is added: up, and not on the list.                             *)
LEMMA AddServers ==
    ASSUME ServersInv, NEW k \in Threads, NEW u \in Servers, NEW p \in Params, Add(k, u, p)
    PROVE  /\ ServersInv' /\ Added' = Added \cup {u} /\ u \notin Added
           /\ u \notin Up /\ Up' = Up \cup {u}
           /\ \A v \in Added : params'[v] = params[v] /\ group'[v] = group[v]
           /\ params'[u] = p
<1>1. ServerTypes /\ ServersOK /\ ListedCounted /\ AliveRight /\ WeightRight
    BY DEF ServersInv
<1>2. /\ p # <<>> /\ p.group \in Groups /\ p.master \in BOOLEAN
      /\ p.weight \in Nat /\ p.maxFails \in Nat /\ p.maxFails # 0
    BY ParamsOf, ParamsAreSome
<1>3. /\ u \notin Added /\ failCount[u] = 0 /\ ~listed[u] /\ group[u] = NoGroup
      /\ p.group # NoGroup
    BY <1>1, <1>2, UpstreamAssumption DEF Add, ServersOK, ServerOK
<1>4. /\ params' = [params EXCEPT ![u] = p] /\ group' = [group EXCEPT ![u] = p.group]
      /\ nalive' = [nalive EXCEPT ![p.group] = @ + 1]
      /\ weight' = [weight EXCEPT ![p.group] = IF p.master THEN @ + p.weight ELSE @]
      /\ UNCHANGED <<failCount, listed, brokenTimeout, nbreak, now>>
    BY DEF Add
<1>5. /\ params'[u] = p /\ group'[u] = p.group
      /\ \A v \in Servers : v # u => params'[v] = params[v] /\ group'[v] = group[v]
      /\ params' \in [Servers -> Params \cup {<<>>}]
      /\ group' \in [Servers -> Groups \cup {NoGroup}]
    BY <1>1, <1>2, <1>4 DEF ServerTypes
<1>6. Added' = Added \cup {u} /\ Members' = Members \cup {u} /\ u \notin Members
    BY <1>2, <1>3, <1>5 DEF Added, Members
<1>7. ~Down(u)' /\ \A v \in Added : Down(v)' <=> Down(v)
    <2>1. ~(failCount'[u] >= params'[u].maxFails)
        BY <1>2, <1>3, <1>4, <1>5
    <2>2. \A v \in Added : v \in Servers /\ v # u
        BY <1>3, SetsOfServers
    <2> QED
        BY <1>4, <1>5, <2>1, <2>2 DEF Down
<1>8. Up' = Up \cup {u} /\ u \notin Up
    BY <1>6, <1>7, SetsOfServers DEF Up
<1>9. /\ UpIn(p.group)' = UpIn(p.group) \cup {u} /\ u \notin UpIn(p.group)
      /\ \A g : g # p.group => UpIn(g)' = UpIn(g)
    BY <1>3, <1>5, <1>6, <1>7, SetsOfServers DEF UpIn
<1>10. AliveRight' /\ nalive' \in [Groups -> Int]
    <2>1. nalive' \in [Groups -> Int]
        BY <1>1, <1>2, <1>4 DEF ServerTypes
    <2>2. ASSUME NEW g \in Groups PROVE nalive'[g] = Cardinality(UpIn(g)')
        <3>1. CASE g = p.group
            <4>1. nalive'[g] = nalive[g] + 1 /\ nalive[g] = Cardinality(UpIn(g))
                BY <1>1, <1>4, <3>1 DEF ServerTypes, AliveRight
            <4>2. UpIn(g)' = UpIn(g) \cup {u} /\ u \notin UpIn(g)
                BY <1>9, <3>1
            <4>3. IsFiniteSet(UpIn(g))
                BY ServerSets, SetsOfServers
            <4> QED
                BY <4>1, <4>2, <4>3, FS_AddElement
        <3>2. CASE g # p.group
            <4>1. nalive'[g] = nalive[g]
                BY <1>1, <1>4, <3>2 DEF ServerTypes
            <4> QED
                BY <1>1, <1>9, <3>2, <4>1 DEF AliveRight
        <3> QED
            BY <3>1, <3>2
    <2> QED
        BY <2>1, <2>2 DEF AliveRight
<1>11. WeightRight' /\ weight' \in [Groups -> Int]
    <2>1. weight' \in [Groups -> Int]
        BY <1>1, <1>2, <1>4 DEF ServerTypes
    <2>2. ASSUME NEW g \in Groups PROVE weight'[g] = Cardinality(UnitsOf(params', MastersIn(g)'))
        <3>1. /\ MastersIn(g) \subseteq Servers /\ u \notin MastersIn(g)
              /\ \A v \in MastersIn(g) : params[v] \in Params /\ params'[v] = params[v]
            BY <1>1, <1>3, <1>5, SetsOfServers, ParamsOfAdded
        <3>2. weight[g] = Cardinality(UnitsOf(params', MastersIn(g)))
            BY <1>1, <3>1, UnitsSame DEF WeightRight, Weight, UnitsOf
        <3>3. CASE g = p.group /\ p.master
            <4>1. MastersIn(g)' = MastersIn(g) \cup {u}
                BY <1>5, <1>6, <3>3, SetsOfServers DEF MastersIn, Masters
            <4>2. Cardinality(UnitsOf(params', MastersIn(g) \cup {u})) =
                     Cardinality(UnitsOf(params', MastersIn(g))) + Cardinality(UnitsOf(params', {u}))
                BY <1>5, <3>1, UnitsUnion
            <4>3. Cardinality(UnitsOf(params', {u})) = p.weight
                BY <1>5, UnitsOfOne
            <4>4. weight'[g] = weight[g] + p.weight
                BY <1>1, <1>4, <3>3 DEF ServerTypes
            <4> QED
                BY <3>2, <4>1, <4>2, <4>3, <4>4
        <3>4. CASE ~(g = p.group /\ p.master)
            <4>1. MastersIn(g)' = MastersIn(g)
                BY <1>3, <1>5, <1>6, <3>4, SetsOfServers DEF MastersIn, Masters
            <4>2. weight'[g] = weight[g]
                BY <1>1, <1>4, <3>4 DEF ServerTypes
            <4> QED
                BY <3>2, <4>1, <4>2
        <3> QED
            BY <3>3, <3>4
    <2> QED
        BY <2>1, <2>2 DEF WeightRight, Weight, UnitsOf
<1>12. ListedCounted'
    <2>1. \A g : ListedIn(g)' = ListedIn(g)
        BY <1>3, <1>4, <1>5, <1>6, SetsOfServers DEF ListedIn
    <2> QED
        BY <1>1, <1>4, <2>1 DEF ListedCounted
<1>13. ServersOK'
    <2>1. ASSUME NEW v \in Servers PROVE ServerOK(v)'
        <3>1. CASE v = u
            BY <1>3, <1>4, <1>5, <1>6, <1>7, <3>1 DEF ServerOK
        <3>2. CASE v # u
            <4>1. ServerOK(v)
                BY <1>1 DEF ServersOK
            <4>2. (v \in Added' <=> v \in Added) /\ (v \in Members' <=> v \in Members)
                BY <1>6, <3>2
            <4>3. v \in Members => (Down(v)' <=> Down(v))
                BY <1>7, SetsOfServers
            <4> QED
                BY <1>4, <1>5, <3>2, <4>1, <4>2, <4>3 DEF ServerOK
        <3> QED
            BY <3>1, <3>2
    <2> QED
        BY <2>1 DEF ServersOK
<1>14. ServerTypes'
    BY <1>1, <1>4, <1>5, <1>10, <1>11 DEF ServerTypes
<1>15. \A v \in Added : params'[v] = params[v] /\ group'[v] = group[v]
    BY <1>3, <1>5, SetsOfServers
<1> QED
    BY <1>3, <1>5, <1>6, <1>8, <1>10, <1>11, <1>12, <1>13, <1>14, <1>15 DEF ServersInv

(* A server is removed; if it was down, it has been lost already.          *)
LEMMA DelServers ==
    ASSUME ServersInv, NEW k \in Threads, NEW u \in Servers, Del(k, u)
    PROVE  /\ ServersInv' /\ u \in Members /\ params' = params
           /\ group' = [group EXCEPT ![u] = NoGroup]
           /\ Uncounted(u) \subseteq Up /\ Up' = Up \ Uncounted(u)
<1>1. ServerTypes /\ ServersOK /\ ListedCounted /\ AliveRight /\ WeightRight
    BY DEF ServersInv
<1>2. /\ u \in Members /\ params' = params /\ group' = [group EXCEPT ![u] = NoGroup]
      /\ nalive' = LoseAlive(Uncounted(u))
      /\ weight' = [weight EXCEPT ![group[u]] =
                        @ - (IF params[u].master THEN params[u].weight ELSE 0)]
      /\ UNCHANGED <<failCount, listed, brokenTimeout, nbreak, now>>
    BY DEF Del
<1>3. /\ u \in Added /\ group[u] \in Groups /\ group[u] = params[u].group
      /\ params[u].weight \in Nat /\ params[u].master \in BOOLEAN
    BY <1>1, <1>2, SetsOfServers, ParamsOfAdded DEF ServersOK, ServerOK
<1>4. /\ group'[u] = NoGroup /\ \A v \in Servers : v # u => group'[v] = group[v]
      /\ group' \in [Servers -> Groups \cup {NoGroup}]
    BY <1>1, <1>2 DEF ServerTypes
<1>5. Added' = Added /\ Members' = Members \ {u} /\ \A v : Down(v)' <=> Down(v)
    BY <1>2, <1>4, SetsOfServers DEF Added, Members, Down
<1>6. Uncounted(u) = {v \in {u} : ~Down(v)}
    BY <1>3 DEF Uncounted
<1>7. Uncounted(u) \subseteq Up /\ Up' = Up \ Uncounted(u)
    BY <1>2, <1>5, <1>6 DEF Up
<1>8. \A g \in Groups : UpIn(g)' = UpIn(g) \ Uncounted(u)
    BY <1>4, <1>5, <1>6, SetsOfServers DEF UpIn
<1>9. AliveRight' /\ nalive' \in [Groups -> Int]
    BY <1>1, <1>2, <1>7, <1>8, LoseStep
<1>10. WeightRight' /\ weight' \in [Groups -> Int]
    <2>1. weight' \in [Groups -> Int]
        BY <1>1, <1>2, <1>3 DEF ServerTypes
    <2>2. ASSUME NEW g \in Groups PROVE weight'[g] = Cardinality(UnitsOf(params, MastersIn(g)'))
        <3>1. /\ MastersIn(g) \subseteq Servers
              /\ \A v \in MastersIn(g) : params[v] \in Params
            BY <1>1, SetsOfServers, ParamsOfAdded
        <3>2. weight[g] = Cardinality(UnitsOf(params, MastersIn(g)))
            BY <1>1 DEF WeightRight, Weight, UnitsOf
        <3>3. MastersIn(g)' = MastersIn(g) \ {u}
            BY <1>2, <1>4, <1>5, SetsOfServers DEF MastersIn, Masters
        <3>4. CASE g = group[u] /\ params[u].master
            <4>1. u \in MastersIn(g)
                BY <1>2, <3>4 DEF MastersIn, Masters
            <4>2. PICK M : M = MastersIn(g) \ {u}
                OBVIOUS
            <4>3. /\ MastersIn(g) = M \cup {u} /\ M \subseteq Servers /\ M \cap {u} = {}
                  /\ \A v \in M \cup {u} : params[v] \in Params
                BY <3>1, <4>1, <4>2
            <4>4. Cardinality(UnitsOf(params, M \cup {u})) =
                      Cardinality(UnitsOf(params, M)) + Cardinality(UnitsOf(params, {u}))
                BY <4>3, UnitsUnion
            <4>5. Cardinality(UnitsOf(params, {u})) = params[u].weight
                BY <4>3, UnitsOfOne
            <4>6. Cardinality(UnitsOf(params, M)) \in Nat
                BY <4>3, UnitsFinite
            <4>7. weight'[g] = weight[g] - params[u].weight
                BY <1>1, <1>2, <3>4 DEF ServerTypes
            <4>8. PICK x, y : x = Cardinality(UnitsOf(params, M)) /\ y = params[u].weight
                OBVIOUS
            <4>9. weight[g] = x + y
                BY <3>2, <4>3, <4>4, <4>5, <4>8
            <4>10. (x + y) - y = x
                BY <1>3, <4>6, <4>8
            <4>11. weight'[g] = x
                BY <4>7, <4>8, <4>9, <4>10
            <4> QED
                BY <3>3, <4>2, <4>8, <4>11
        <3>5. CASE ~(g = group[u] /\ params[u].master)
            <4>1. MastersIn(g) \ {u} = MastersIn(g)
                BY <3>5 DEF MastersIn, Masters
            <4>2. weight'[g] = weight[g]
                BY <1>1, <1>2, <3>5 DEF ServerTypes
            <4> QED
                BY <3>2, <3>3, <4>1, <4>2
        <3> QED
            BY <3>4, <3>5
    <2> QED
        BY <1>2, <2>1, <2>2 DEF WeightRight, Weight, UnitsOf
<1>11. ListedCounted'
    <2>1. \A g : ListedIn(g)' = ListedIn(g)
        BY <1>2, <1>5 DEF ListedIn
    <2> QED
        BY <1>1, <1>2, <2>1 DEF ListedCounted
<1>12. ServersOK'
    <2>1. ASSUME NEW v \in Servers PROVE ServerOK(v)'
        <3>1. ServerOK(v)
            BY <1>1 DEF ServersOK
        <3> QED
            BY <1>2, <1>3, <1>4, <1>5, <3>1 DEF ServerOK
    <2> QED
        BY <2>1 DEF ServersOK
<1>13. ServerTypes'
    BY <1>1, <1>2, <1>4, <1>9, <1>10 DEF ServerTypes
<1> QED
    BY <1>2, <1>7, <1>9, <1>10, <1>11, <1>12, <1>13 DEF ServersInv

-----------------------------------------------------------------------------
(* The breaker: the operations on the servers.                             *)

LEMMA FewerListed ==
    ASSUME ServerTypes, ListedCounted, NEW E, NEW g \in Groups
    PROVE  nbreak[g] >= Cardinality(ListedIn(g) \ E)
<1>1. PICK A, B : A = ListedIn(g) /\ B = ListedIn(g) \cap E
    OBVIOUS
<1>2. A \subseteq Servers /\ B \subseteq A /\ A \ B = ListedIn(g) \ E
    BY <1>1, SetsOfServers
<1>3. Cardinality(A \ B) = Cardinality(A) - Cardinality(B)
    BY <1>2, TakeAway
<1>4. Cardinality(A) \in Nat /\ Cardinality(B) \in Nat /\ nbreak[g] \in Int
    BY <1>2, ServerSets DEF ServerTypes
<1>5. nbreak[g] >= Cardinality(A)
    BY <1>1 DEF ListedCounted
<1> QED
    BY <1>2, <1>3, <1>4, <1>5

AtAddress(a) == {u \in Members : params[u].address = a}

LEMMA DisableServers ==
    ASSUME ServersInv, NEW k \in Threads, NEW a \in Addresses, DisableServer(k, a),
           NEW broken, broken = {u \in AtAddress(a) : ~listed[u]}
    PROVE  ServersInv' /\ broken \subseteq Up /\ Up' = Up \ broken
<1>1. ServerTypes /\ ServersOK
    BY DEF ServersInv
<1> DEFINE S == AtAddress(a)
<1>2. /\ failCount' = [u \in Servers |-> IF u \in S THEN params[u].maxFails ELSE failCount[u]]
      /\ Break(broken)
      /\ params' = params /\ group' = group /\ weight' = weight /\ now' = now
    BY DEF DisableServer, AtAddress
<1>3. S \subseteq Members /\ S \subseteq Added
    BY SetsOfServers DEF AtAddress
<1>4. broken \subseteq Up /\ \A u \in S : u \notin broken => Down(u)
    BY <1>1, <1>3, SetsOfServers DEF Up, ServersOK, ServerOK
<1>5. \A u \in S : params[u].maxFails \in Nat
    BY <1>1, <1>3, ParamsOfAdded
<1>6. failCount' \in [Servers -> Nat]
    BY <1>1, <1>2, <1>5 DEF ServerTypes
<1>7. \A u \in Servers \ Added : failCount'[u] = failCount[u]
    BY <1>2, <1>3
<1>8. ASSUME NEW u \in Members
      PROVE  failCount'[u] >= params[u].maxFails <=> (u \in broken \/ Down(u))
    <2>1. u \in Servers
        BY SetsOfServers
    <2>2. CASE u \in S
        BY <1>2, <1>4, <1>5, <2>1, <2>2
    <2>3. CASE u \notin S
        BY <1>2, <2>1, <2>3 DEF Down
    <2> QED
        BY <2>2, <2>3
<1> QED
    BY <1>2, <1>4, <1>6, <1>7, <1>8, BreakStep

LEMMA EnableServers ==
    ASSUME ServersInv, NEW k \in Threads, NEW a \in Addresses, EnableServer(k, a),
           NEW back, back = {u \in AtAddress(a) : listed[u] /\ Down(u)}
    PROVE  ServersInv' /\ back \subseteq Members /\ back \cap Up = {} /\ Up' = Up \cup back
<1>1. ServerTypes /\ ServersOK /\ ListedCounted
    BY DEF ServersInv
<1>2. PICK S : S = AtAddress(a)
    OBVIOUS
<1>3. /\ Repair(S, back) /\ nbreak' = nbreak
      /\ params' = params /\ group' = group /\ weight' = weight /\ now' = now
    BY <1>2 DEF EnableServer, AtAddress
<1>4. S \subseteq Members /\ S \subseteq Added
    BY <1>2, SetsOfServers DEF AtAddress
<1>5. back = {u \in S : u \in Members /\ Down(u)}
    BY <1>1, <1>2, <1>4, SetsOfServers DEF ServersOK, ServerOK
<1>6. \A u \in S : params[u].maxFails \in Nat /\ params[u].maxFails # 0
    BY <1>1, <1>4, ParamsOfAdded
<1>7. /\ \A u \in Servers : listed'[u] = (listed[u] /\ u \notin S)
      /\ listed' \in [Servers -> BOOLEAN]
    BY <1>3 DEF Repair
<1>8. /\ \A u \in Servers : brokenTimeout'[u] = IF u \in S THEN 0 ELSE brokenTimeout[u]
      /\ brokenTimeout' \in [Servers -> Nat]
    BY <1>1, <1>3 DEF Repair, ServerTypes
<1>9. /\ \A u \in Servers \ S : failCount'[u] = failCount[u]
      /\ failCount' \in [Servers -> Nat]
    BY <1>1, <1>3 DEF Repair, ServerTypes
<1>10. \A u \in S : failCount'[u] < params[u].maxFails
    BY <1>3, <1>4, <1>6, SetsOfServers DEF Repair
<1>11. nalive' = GainAlive(back)
    BY <1>3 DEF Repair
<1>12. nbreak' \in [Groups -> Int] /\ \A g \in Groups : nbreak'[g] >= Cardinality(ListedIn(g) \ S)
    BY <1>1, <1>3, FewerListed DEF ServerTypes
<1> QED
    BY <1>3, <1>4, <1>5, <1>7, <1>8, <1>9, <1>10, <1>11, <1>12, BackStep

ExpiredIn(k, g) == {u \in Added : /\ listed[u] /\ params[u].group = g
                                  /\ time[k] >= brokenTimeout[u]}

LEMMA CheckServers ==
    ASSUME ServersInv, NEW k \in Threads, NEW g \in Groups, CheckOneBreaker(k, g),
           nbreak[g] # 0,
           NEW back, back = {u \in ExpiredIn(k, g) : Down(u) /\ group[u] = g}
    PROVE  ServersInv' /\ back \subseteq Members /\ back \cap Up = {} /\ Up' = Up \cup back
<1>1. ServerTypes /\ ServersOK /\ ListedCounted
    BY DEF ServersInv
<1>2. PICK E : E = ExpiredIn(k, g)
    OBVIOUS
<1>3. /\ failCount' = [u \in Servers |-> IF u \in E /\ Down(u) THEN Probation(u) ELSE failCount[u]]
      /\ listed' = [u \in Servers |-> listed[u] /\ u \notin E]
      /\ brokenTimeout' = [u \in Servers |-> IF u \in E THEN 0 ELSE brokenTimeout[u]]
      /\ nbreak' = [nbreak EXCEPT ![g] = @ - Cardinality(E)]
      /\ nalive' = GainAlive(back)
      /\ params' = params /\ group' = group /\ weight' = weight /\ now' = now
    BY <1>2 DEF CheckOneBreaker, ExpiredIn
<1>4. E \subseteq ListedIn(g) /\ E \subseteq Added /\ E \subseteq Servers
    BY <1>2, SetsOfServers DEF ExpiredIn, ListedIn
<1>5. back = {u \in E : u \in Members /\ Down(u)}
    BY <1>1, <1>2, <1>4, UpstreamAssumption DEF ServersOK, ServerOK, Members, ExpiredIn
<1>6. \A u \in E : /\ params[u].maxFails \in Nat /\ params[u].maxFails # 0
                   /\ failCount[u] \in Nat
    BY <1>1, <1>4, ParamsOfAdded
<1>7. /\ \A u \in Servers : listed'[u] = (listed[u] /\ u \notin E)
      /\ listed' \in [Servers -> BOOLEAN]
    BY <1>3
<1>8. /\ \A u \in Servers : brokenTimeout'[u] = IF u \in E THEN 0 ELSE brokenTimeout[u]
      /\ brokenTimeout' \in [Servers -> Nat]
    BY <1>1, <1>3 DEF ServerTypes
<1>9. /\ \A u \in Servers \ E : failCount'[u] = failCount[u]
      /\ \A u \in E : failCount'[u] < params[u].maxFails /\ failCount'[u] \in Nat
    <2>1. \A u \in Servers \ E : failCount'[u] = failCount[u]
        BY <1>3
    <2>2. ASSUME NEW u \in E PROVE failCount'[u] < params[u].maxFails /\ failCount'[u] \in Nat
        <3>1. failCount'[u] = IF failCount[u] >= params[u].maxFails THEN params[u].maxFails - 1
                              ELSE failCount[u]
            BY <1>3, <1>4 DEF Down, Probation
        <3> QED
            BY <1>6, <3>1
    <2> QED
        BY <2>1, <2>2
<1>10. failCount' \in [Servers -> Nat]
    <2>1. failCount' = [u \in Servers |-> failCount'[u]]
        BY <1>3
    <2>2. \A u \in Servers : failCount'[u] \in Nat
        BY <1>1, <1>9 DEF ServerTypes
    <2> QED
        BY <2>1, <2>2
<1>11. nbreak' \in [Groups -> Int] /\ \A h \in Groups : nbreak'[h] >= Cardinality(ListedIn(h) \ E)
    <2>1. Cardinality(E) \in Nat
        BY <1>4, ServerSets
    <2>2. nbreak' \in [Groups -> Int]
        BY <1>1, <1>3, <2>1 DEF ServerTypes
    <2>3. ASSUME NEW h \in Groups PROVE nbreak'[h] >= Cardinality(ListedIn(h) \ E)
        <3>1. CASE h = g
            <4>1. Cardinality(ListedIn(g) \ E) = Cardinality(ListedIn(g)) - Cardinality(E)
                BY <1>4, TakeAway, SetsOfServers
            <4>2. Cardinality(ListedIn(g)) \in Nat
                BY ServerSets, SetsOfServers
            <4>3. nbreak'[g] = nbreak[g] - Cardinality(E) /\ nbreak[g] \in Int
                BY <1>1, <1>3 DEF ServerTypes
            <4>4. nbreak[g] >= Cardinality(ListedIn(g))
                BY <1>1 DEF ListedCounted
            <4> QED
                BY <2>1, <3>1, <4>1, <4>2, <4>3, <4>4
        <3>2. CASE h # g
            <4>1. nbreak'[h] = nbreak[h]
                BY <1>1, <1>3, <3>2 DEF ServerTypes
            <4> QED
                BY <1>1, <4>1, FewerListed
        <3> QED
            BY <3>1, <3>2
    <2> QED
        BY <2>2, <2>3
<1> QED
    BY <1>3, <1>4, <1>5, <1>7, <1>8, <1>9, <1>10, <1>11, BackStep

(* A request has ended well.                                               *)
LEMMA AvailableServers ==
    ASSUME ServersInv, NEW k \in Threads, RequestOK(k), NotifyAvailable(k), seen[k] # NoGroup,
           NEW back, back = IF listed[server[k]] /\ group[server[k]] = seen[k] /\ Down(server[k])
                            THEN {server[k]} ELSE {}
    PROVE  ServersInv' /\ back \subseteq Members /\ back \cap Up = {} /\ Up' = Up \cup back
<1>1. ServerTypes /\ ServersOK /\ ListedCounted
    BY DEF ServersInv
<1>2. PICK u : u = server[k]
    OBVIOUS
<1>3. /\ Repair({u}, back) /\ nbreak' = nbreak
      /\ params' = params /\ group' = group /\ weight' = weight /\ now' = now
    BY <1>2 DEF NotifyAvailable
<1>4. u \in Added /\ u \in Servers /\ seen[k] = params[u].group
    BY <1>2, SetsOfServers DEF NotifyAvailable, RequestOK
<1>5. back = {v \in {u} : v \in Members /\ Down(v)}
    BY <1>1, <1>2, <1>4 DEF ServersOK, ServerOK, Members
<1>6. params[u].maxFails \in Nat /\ params[u].maxFails # 0
    BY <1>1, <1>4, ParamsOfAdded
<1>7. /\ \A v \in Servers : listed'[v] = (listed[v] /\ v \notin {u})
      /\ listed' \in [Servers -> BOOLEAN]
    BY <1>3 DEF Repair
<1>8. /\ \A v \in Servers : brokenTimeout'[v] = IF v \in {u} THEN 0 ELSE brokenTimeout[v]
      /\ brokenTimeout' \in [Servers -> Nat]
    BY <1>1, <1>3 DEF Repair, ServerTypes
<1>9. /\ \A v \in Servers \ {u} : failCount'[v] = failCount[v]
      /\ failCount' \in [Servers -> Nat]
    BY <1>1, <1>3 DEF Repair, ServerTypes
<1>10. \A v \in {u} : failCount'[v] < params[v].maxFails
    BY <1>3, <1>4, <1>6 DEF Repair
<1>11. nalive' = GainAlive(back)
    BY <1>3 DEF Repair
<1>12. /\ nbreak' \in [Groups -> Int]
       /\ \A g \in Groups : nbreak'[g] >= Cardinality(ListedIn(g) \ {u})
    BY <1>1, <1>3, FewerListed DEF ServerTypes
<1>13. {u} \subseteq Added
    BY <1>4
<1> QED
    BY <1>3, <1>5, <1>7, <1>8, <1>9, <1>10, <1>11, <1>12, <1>13, BackStep

(* Its server has been removed meanwhile.                                  *)
LEMMA AvailableRemoved ==
    ASSUME ServersInv, NEW k \in Threads, RequestOK(k), NotifyAvailable(k), seen[k] = NoGroup
    PROVE  ServersInv' /\ Up' = Up
<1>1. ServerTypes /\ ServersOK /\ ListedCounted /\ AliveRight /\ WeightRight
    BY DEF ServersInv
<1>2. PICK u : u = server[k]
    OBVIOUS
<1>3. /\ failCount' = [failCount EXCEPT ![u] = 0]
      /\ UNCHANGED <<listed, brokenTimeout, nalive, nbreak, params, group, weight, now>>
    BY <1>2 DEF NotifyAvailable
<1>4. u \in Added /\ u \in Servers /\ u \notin Members
    BY <1>2, SetsOfServers DEF NotifyAvailable, RequestOK, Members
<1>5. failCount' \in [Servers -> Nat] /\ \A v \in Servers : v # u => failCount'[v] = failCount[v]
    BY <1>1, <1>3, <1>4 DEF ServerTypes
<1>6. \A v \in Members : Down(v)' <=> Down(v)
    BY <1>3, <1>4, <1>5, SetsOfServers DEF Down
<1>7. Up' = Up /\ \A g : UpIn(g)' = UpIn(g)
    BY <1>3, <1>6, SameServers DEF Up, UpIn
<1>8. \A g : ListedIn(g)' = ListedIn(g)
    BY <1>3, SameServers DEF ListedIn
<1>9. ServersOK'
    <2>1. ASSUME NEW v \in Servers PROVE ServerOK(v)'
        <3>1. ServerOK(v)
            BY <1>1 DEF ServersOK
        <3>2. v \notin Added => failCount'[v] = failCount[v]
            BY <1>4, <1>5
        <3> QED
            BY <1>3, <1>6, <3>1, <3>2, SameServers DEF ServerOK
    <2> QED
        BY <2>1 DEF ServersOK
<1>10. AliveRight' /\ ListedCounted'
    BY <1>1, <1>3, <1>7, <1>8 DEF AliveRight, ListedCounted
<1>11. WeightRight'
    BY <1>1, <1>3, SameWeight
<1>12. ServerTypes'
    BY <1>1, <1>3, <1>5 DEF ServerTypes
<1> QED
    BY <1>7, <1>9, <1>10, <1>11, <1>12 DEF ServersInv

(* A request has failed.                                                   *)
LEMMA UnavailableServers ==
    ASSUME ServersInv, NEW k \in Threads, RequestOK(k), NotifyUnavailable(k),
           NEW broken, broken = IF seen[k] # NoGroup /\ Breaks(server[k], seen[k])
                                THEN {server[k]} ELSE {}
    PROVE  ServersInv' /\ broken \subseteq Up /\ Up' = Up \ broken
<1>1. ServerTypes /\ ServersOK
    BY DEF ServersInv
<1>2. PICK u : u = server[k]
    OBVIOUS
<1>3. /\ failCount' = [failCount EXCEPT ![u] = @ + 1] /\ Break(broken)
      /\ params' = params /\ group' = group /\ weight' = weight /\ now' = now
    BY <1>2 DEF NotifyUnavailable
<1>4. /\ u \in Added /\ u \in Servers
      /\ IF seen[k] = NoGroup THEN group[u] = NoGroup ELSE seen[k] = params[u].group
    BY <1>2, SetsOfServers DEF NotifyUnavailable, RequestOK
<1>5. /\ failCount' \in [Servers -> Nat] /\ failCount'[u] = failCount[u] + 1
      /\ \A v \in Servers : v # u => failCount'[v] = failCount[v]
    BY <1>1, <1>3, <1>4 DEF ServerTypes
<1>6. broken \subseteq Up
    BY <1>1, <1>2, <1>4 DEF Up, Members, Breaks, ServersOK, ServerOK
<1>7. \A v \in Servers \ Added : failCount'[v] = failCount[v]
    BY <1>4, <1>5
<1>8. ASSUME NEW v \in Members
      PROVE  failCount'[v] >= params[v].maxFails <=> (v \in broken \/ Down(v))
    <2>1. v \in Servers /\ v \in Added
        BY SetsOfServers
    <2>2. CASE v # u
        BY <1>2, <1>5, <2>1, <2>2 DEF Down
    <2>3. CASE v = u
        <3>1. group[u] # NoGroup /\ group[u] = params[u].group /\ (listed[u] <=> Down(u))
            BY <1>1, <2>1, <2>3 DEF Members, ServersOK, ServerOK
        <3>2. seen[k] # NoGroup /\ seen[k] = group[u]
            BY <1>4, <3>1
        <3>3. u \in broken <=> failCount[u] + 1 = params[u].maxFails /\ ~Down(u)
            BY <1>2, <3>1, <3>2 DEF Breaks
        <3>4. failCount[u] \in Nat /\ params[u].maxFails \in Nat
            BY <1>1, <1>4, ParamsOfAdded
        <3> QED
            BY <1>5, <2>3, <3>3, <3>4 DEF Down
    <2> QED
        BY <2>2, <2>3
<1> QED
    BY <1>3, <1>5, <1>6, <1>7, <1>8, BreakStep

(* Nothing happens to the servers.                                         *)
LEMMA QuietServers ==
    ASSUME ServersInv, UNCHANGED <<serverVars, groupVars>>, now' \in Nat, now' >= now
    PROVE  ServersInv' /\ Up' = Up
<1>1. ServerTypes /\ ServersOK /\ ListedCounted /\ AliveRight /\ WeightRight
    BY DEF ServersInv
<1>2. UNCHANGED <<params, group, failCount, listed, brokenTimeout, nbreak, nalive, weight>>
    BY DEF serverVars, groupVars
<1>3. \A u : Down(u)' <=> Down(u)
    BY <1>2 DEF Down
<1>4. Up' = Up /\ \A g : UpIn(g)' = UpIn(g) /\ ListedIn(g)' = ListedIn(g)
    BY <1>2, <1>3, SameServers DEF Up, UpIn, ListedIn
<1>5. ServersOK'
    <2>1. ASSUME NEW v \in Servers PROVE ServerOK(v)'
        <3>1. ServerOK(v)
            BY <1>1 DEF ServersOK
        <3>2. listed[v] => brokenTimeout[v] <= now' + MTTR
            BY <1>1, <3>1, UpstreamAssumption DEF ServerOK, ServerTypes
        <3> QED
            BY <1>2, <1>3, <3>1, <3>2, SameServers DEF ServerOK
    <2> QED
        BY <2>1 DEF ServersOK
<1>6. AliveRight' /\ ListedCounted'
    BY <1>1, <1>2, <1>4 DEF AliveRight, ListedCounted
<1>7. WeightRight'
    BY <1>1, <1>2, SameWeight
<1>8. ServerTypes'
    BY <1>1, <1>2 DEF ServerTypes
<1> QED
    BY <1>4, <1>5, <1>6, <1>7, <1>8 DEF ServersInv

-----------------------------------------------------------------------------
(* available_weight_.                                                      *)

(* The weights of the groups of some servers.                              *)
LEMMA GroupUnits ==
    ASSUME ServerTypes, NEW S, S \subseteq Added, NEW gs, gs \subseteq Groups,
           \A g \in gs : InGroup(g, S) # {}
    PROVE  GroupWeight(gs) \in Nat
<1> DEFINE T == {{g} \X (1 .. weight[g]) : g \in gs}
           all == {params[u].group : u \in S}
           f == [u \in S |-> params[u].group]
           h == [g \in gs |-> {g} \X (1 .. weight[g])]
<1>1. IsFiniteSet(S)
    BY ServerSets, SetsOfServers
<1>2. f \in Surjection(S, all)
    BY DEF Surjection
<1>3. IsFiniteSet(all)
    <2> HIDE DEF f, all
    <2> QED
        BY <1>1, <1>2, FS_Surjection
<1>4. gs \subseteq all
    BY DEF InGroup
<1>5. IsFiniteSet(gs)
    <2> HIDE DEF all
    <2> QED
        BY <1>3, <1>4, FS_Subset
<1>6. h \in Surjection(gs, T)
    BY DEF Surjection
<1>7. IsFiniteSet(T)
    <2> HIDE DEF h, T
    <2> QED
        BY <1>5, <1>6, FS_Surjection
<1>8. ASSUME NEW g \in gs PROVE IsFiniteSet({g} \X (1 .. weight[g]))
    <2>1. 1 \in Int /\ weight[g] \in Int
        BY DEF ServerTypes
    <2>2. IsFiniteSet(1 .. weight[g]) /\ IsFiniteSet({g})
        BY <2>1, FS_Interval, FS_Singleton
    <2> QED
        BY <2>2, FS_Product
<1>9. \A X \in T : IsFiniteSet(X)
    BY <1>8
<1> HIDE DEF T
<1>10. IsFiniteSet(UNION T)
    BY <1>7, <1>9, FS_UNION
<1> QED
    BY <1>10, FS_CardinalityType DEF T, GroupWeight

LEMMA NoGroupWeight == GroupWeight({}) = 0
<1>1. UNION {{g} \X (1 .. weight[g]) : g \in {}} = {}
    OBVIOUS
<1> QED
    BY <1>1, FS_EmptySet DEF GroupWeight

LEMMA OwnType ==
    ASSUME ServerTypes, NEW S, S \subseteq Added
    PROVE  OwnWeight(S) \in Nat
<1>1. S \subseteq Servers /\ \A u \in S : params[u] \in Params
    BY ParamsOfAdded, SetsOfServers
<1> QED
    BY <1>1, OwnIs, OwnUnion, UnitsFinite DEF OwnOf

(* What is lost and gained is a weight; without groups it is the weight of *)
(* the servers themselves.                                                 *)
LEMMA LostIs ==
    ASSUME ServerTypes, NEW S, S \subseteq Added
    PROVE  /\ Lost(S) \in Nat
           /\ Ungrouped => Lost(S) = OwnWeight(S)
           /\ S = {} => Lost(S) = 0
<1>1. PICK dead : dead = {g \in GroupIds : InGroup(g, S) # {} /\ LoseAlive(S)[g] = 0}
    OBVIOUS
<1>2. Lost(S) = GroupWeight(dead) + OwnWeight(S)
    BY <1>1 DEF Lost
<1>3. GroupWeight(dead) \in Nat
    <2>1. dead \subseteq Groups /\ \A g \in dead : InGroup(g, S) # {}
        BY <1>1 DEF Groups
    <2> QED
        BY <2>1, GroupUnits
<1>4. OwnWeight(S) \in Nat
    BY OwnType
<1>5. ASSUME Ungrouped PROVE dead = {}
    <2>1. \A g \in GroupIds : g # Default
        BY UpstreamAssumption DEF Default
    <2> QED
        BY <1>1, <1>5, <2>1 DEF Ungrouped, Grouped, InGroup
<1>6. ASSUME S = {} PROVE dead = {} /\ OwnWeight(S) = 0
    <2>1. {u \in S : ~(params[u].group # Default) /\ params[u].master} = {}
        BY <1>6
    <2> QED
        BY <1>1, <1>6, <2>1, OwnIs, NoUnits DEF InGroup, OwnOf
<1> QED
    BY <1>2, <1>3, <1>4, <1>5, <1>6, NoGroupWeight

LEMMA GainedIs ==
    ASSUME ServerTypes, NEW S, S \subseteq Added
    PROVE  /\ Gained(S) \in Nat
           /\ Ungrouped => Gained(S) = OwnWeight(S)
           /\ S = {} => Gained(S) = 0
<1>1. PICK risen : risen = {g \in GroupIds : InGroup(g, S) # {} /\ nalive[g] = 0}
    OBVIOUS
<1>2. Gained(S) = GroupWeight(risen) + OwnWeight(S)
    BY <1>1 DEF Gained
<1>3. GroupWeight(risen) \in Nat
    <2>1. risen \subseteq Groups /\ \A g \in risen : InGroup(g, S) # {}
        BY <1>1 DEF Groups
    <2> QED
        BY <2>1, GroupUnits
<1>4. OwnWeight(S) \in Nat
    BY OwnType
<1>5. ASSUME Ungrouped PROVE risen = {}
    <2>1. \A g \in GroupIds : g # Default
        BY UpstreamAssumption DEF Default
    <2> QED
        BY <1>1, <1>5, <2>1 DEF Ungrouped, Grouped, InGroup
<1>6. ASSUME S = {} PROVE risen = {} /\ OwnWeight(S) = 0
    <2>1. {u \in S : ~(params[u].group # Default) /\ params[u].master} = {}
        BY <1>6
    <2> QED
        BY <1>1, <1>6, <2>1, OwnIs, NoUnits DEF InGroup, OwnOf
<1> QED
    BY <1>2, <1>3, <1>4, <1>5, <1>6, NoGroupWeight

LEMMA OwnAfterLoss ==
    ASSUME ServerTypes, NEW S, S \subseteq Up, params' = params, Up' = Up \ S
    PROVE  OwnWeight(Up)' = OwnWeight(Up) + (-OwnWeight(S))
<1>1. PICK T : T = Up \ S
    OBVIOUS
<1>2. /\ S \subseteq Servers /\ T \subseteq Servers /\ S \cap T = {} /\ S \cup T = Up
      /\ \A u \in S \cup T : params[u] \in Params
    BY <1>1, SetsOfServers, ParamsOfAdded
<1>3. PICK x, y : x = Cardinality(OwnOf(params, S)) /\ y = Cardinality(OwnOf(params, T))
    OBVIOUS
<1>4. Cardinality(OwnOf(params, Up)) = x + y /\ x \in Nat /\ y \in Nat
    BY <1>2, <1>3, OwnUnion
<1>5. OwnWeight(Up)' = y /\ OwnWeight(Up) = x + y /\ OwnWeight(S) = x
    BY <1>1, <1>3, <1>4, OwnIs, OwnIsNext
<1>6. x + y + (-x) = y
    BY <1>4
<1> QED
    BY <1>5, <1>6

LEMMA OwnAfterGain ==
    ASSUME ServerTypes, NEW S, S \subseteq Members, S \cap Up = {}, params' = params,
           Up' = Up \cup S
    PROVE  OwnWeight(Up)' = OwnWeight(Up) + OwnWeight(S)
<1>1. /\ Up \subseteq Servers /\ S \subseteq Servers /\ Up \cap S = {}
      /\ \A u \in Up \cup S : params[u] \in Params
    BY SetsOfServers, ParamsOfAdded
<1> QED
    BY <1>1, OwnUnion, OwnIs, OwnIsNext

LEMMA OwnAfterAdd ==
    ASSUME ServersInv, NEW k \in Threads, NEW u \in Servers, NEW p \in Params, Add(k, u, p),
           p.group = Default
    PROVE  OwnWeight(Up)' = OwnWeight(Up) + (IF p.master THEN p.weight ELSE 0)
<1>1. /\ u \notin Added /\ u \notin Up /\ Up' = Up \cup {u} /\ params'[u] = p
      /\ \A v \in Added : params'[v] = params[v]
    BY AddServers
<1>2. /\ Up \subseteq Servers /\ {u} \subseteq Servers /\ Up \cap {u} = {}
      /\ \A v \in Up : params'[v] = params[v]
      /\ \A v \in Up \cup {u} : params'[v] \in Params
    BY <1>1, SetsOfServers, ParamsOfAdded DEF ServersInv
<1>3. OwnOf(params', Up) = OwnOf(params, Up)
    <2>1. {v \in Up : ~(params'[v].group # Default) /\ params'[v].master} =
              {v \in Up : ~(params[v].group # Default) /\ params[v].master}
        BY <1>2
    <2>2. PICK A : A = {v \in Up : ~(params[v].group # Default) /\ params[v].master}
        OBVIOUS
    <2>3. \A v \in A : params'[v] = params[v]
        BY <1>2, <2>2
    <2>4. UnitsOf(params', A) = UnitsOf(params, A)
        BY <2>3, UnitsSame
    <2> QED
        BY <2>1, <2>2, <2>4 DEF OwnOf
<1>4. Cardinality(OwnOf(params', {u})) = IF p.master THEN p.weight ELSE 0
    <2>1. CASE p.master
        <3>1. {v \in {u} : ~(params'[v].group # Default) /\ params'[v].master} = {u}
            BY <1>1, <2>1
        <3> QED
            BY <1>1, <2>1, <3>1, UnitsOfOne DEF OwnOf
    <2>2. CASE ~p.master
        <3>1. {v \in {u} : ~(params'[v].group # Default) /\ params'[v].master} = {}
            BY <1>1, <2>2
        <3> QED
            BY <2>2, <3>1, NoUnits DEF OwnOf
    <2> QED
        BY <2>1, <2>2
<1>5. Cardinality(OwnOf(params', Up \cup {u})) =
          Cardinality(OwnOf(params', Up)) + Cardinality(OwnOf(params', {u}))
    BY <1>2, OwnUnion
<1> QED
    BY <1>1, <1>3, <1>4, <1>5, OwnIs, OwnIsNext

-----------------------------------------------------------------------------
(* The threads.                                                            *)

Mutexes == \A k \in Threads : MutexOK(k)

(* What a step of k does to the state of the threads.                      *)
ThreadStep(k) ==
    /\ Mutexes' /\ AvailableRight' /\ available' \in Int
    /\ pc' \in [Threads -> {"idle", "store", "del", "breakers", "request", "available",
                            "unavailable"}]
    /\ next' \in [Threads -> {"idle", "del", "breakers"}]
    /\ held' \in [Threads -> SUBSET Groups]
    /\ value' \in [Threads -> Int]
    /\ \A j \in Threads : j # k => pc'[j] = pc[j] /\ next'[j] = next[j]

(* A step that changes available_weight_ by delta, or will.                *)
LEMMA ChangeStep ==
    ASSUME ThreadTypes, Mutexes, AvailableRight, NEW k \in Threads, pc[k] # "store",
           NEW gs, NEW delta \in Int, NEW rw, NEW to \in {"idle", "del", "breakers"},
           ServerTypes, available' = available, Change(k, gs, delta, rw, to),
           delta # 0 => gs \subseteq Groups /\ gs # {} /\ Free(gs),
           Ungrouped' => /\ Ungrouped /\ (delta # 0 => gs = {Default})
                         /\ OwnWeight(Up)' = OwnWeight(Up) + delta
    PROVE  ThreadStep(k) /\ (pc'[k] = to \/ (pc'[k] = "store" /\ next'[k] = to))
<1>1. OwnWeight(Up) \in Nat
    BY OwnType, SetsOfServers
<1>2. /\ next[k] = "idle" /\ held[k] = {}
      /\ pc \in [Threads -> {"idle", "store", "del", "breakers", "request", "available",
                             "unavailable"}]
      /\ next \in [Threads -> {"idle", "del", "breakers"}]
      /\ held \in [Threads -> SUBSET Groups]
      /\ value \in [Threads -> Int] /\ available \in Int
    BY DEF ThreadTypes, Mutexes, MutexOK
<1>3. CASE delta = 0
    <2>1. pc' = [pc EXCEPT ![k] = to] /\ UNCHANGED <<next, held, value>>
        BY <1>3 DEF Change
    <2>2. Mutexes'
        BY <1>2, <2>1 DEF Mutexes, MutexOK
    <2>3. AvailableRight'
        <3>1. Free({Default})' <=> Free({Default})
            BY <2>1 DEF Free
        <3>2. SUFFICES ASSUME Ungrouped'
                       PROVE  /\ \A j \in Threads : held'[j] \subseteq {Default}
                              /\ Free({Default})' => available' = OwnWeight(Up)'
                              /\ \A j \in Threads : Default \in held'[j] => value'[j] = OwnWeight(Up)'
            BY DEF AvailableRight
        <3>3. Ungrouped /\ OwnWeight(Up)' = OwnWeight(Up)
            BY <1>1, <1>3, <3>2
        <3> QED
            BY <2>1, <3>1, <3>3 DEF AvailableRight
    <2> QED
        BY <1>2, <2>1, <2>2, <2>3 DEF ThreadStep
<1>4. CASE delta # 0
    <2>1. /\ pc' = [pc EXCEPT ![k] = "store"] /\ next' = [next EXCEPT ![k] = to]
          /\ held' = [held EXCEPT ![k] = gs]
          /\ value' = [value EXCEPT ![k] = available + delta]
          /\ gs \subseteq Groups /\ gs # {}
          /\ \A j \in Threads : held[j] \cap gs = {}
        BY <1>4 DEF Change, Free
    <2>2. /\ held'[k] = gs /\ pc'[k] = "store" /\ value'[k] = available + delta
          /\ next'[k] = to
          /\ \A j \in Threads : j # k => /\ held'[j] = held[j] /\ pc'[j] = pc[j]
                                         /\ next'[j] = next[j] /\ value'[j] = value[j]
        BY <1>2, <2>1
    <2>3. Mutexes'
        <3>1. ASSUME NEW j \in Threads PROVE MutexOK(j)'
            <4>1. CASE j = k
                BY <2>1, <2>2, <4>1 DEF MutexOK
            <4>2. CASE j # k
                <5>1. MutexOK(j)
                    BY DEF Mutexes
                <5>2. ASSUME NEW i \in Threads, i # j PROVE held'[i] \cap held'[j] = {}
                    BY <2>1, <2>2, <4>2, <5>1, <5>2 DEF MutexOK
                <5> QED
                    BY <2>2, <4>2, <5>1, <5>2 DEF MutexOK
            <4> QED
                BY <4>1, <4>2
        <3> QED
            BY <3>1 DEF Mutexes
    <2>4. AvailableRight'
        <3>1. SUFFICES ASSUME Ungrouped'
                       PROVE  /\ \A j \in Threads : held'[j] \subseteq {Default}
                              /\ Free({Default})' => available' = OwnWeight(Up)'
                              /\ \A j \in Threads : Default \in held'[j] => value'[j] = OwnWeight(Up)'
            BY DEF AvailableRight
        <3>2. Ungrouped /\ gs = {Default} /\ OwnWeight(Up)' = OwnWeight(Up) + delta
            BY <1>4, <3>1
        <3>3. available = OwnWeight(Up) /\ \A j \in Threads : held[j] \subseteq {Default}
            BY <2>1, <3>2 DEF AvailableRight, Free
        <3>4. ~Free({Default})'
            BY <2>2, <3>2 DEF Free
        <3>5. ASSUME NEW j \in Threads
              PROVE  held'[j] \subseteq {Default} /\ (Default \in held'[j] => value'[j] = OwnWeight(Up)')
            <4>1. CASE j = k
                BY <2>2, <3>2, <3>3, <4>1
            <4>2. CASE j # k
                BY <2>1, <2>2, <3>2, <3>3, <4>2
            <4> QED
                BY <4>1, <4>2
        <3> QED
            BY <3>4, <3>5
    <2>5. available + delta \in Int
        BY <1>2
    <2> QED
        BY <1>2, <2>1, <2>2, <2>3, <2>4, <2>5 DEF ThreadStep
<1> QED
    BY <1>3, <1>4

(* A step that leaves available_weight_, the mutexes and the weights alone.*)
LEMMA QuietStep ==
    ASSUME ThreadTypes, Mutexes, AvailableRight,
           UNCHANGED <<available, next, held, value, params>>, Up' = Up,
           NEW k \in Threads, NEW to \in {"idle", "del", "breakers", "request", "available",
                                          "unavailable"},
           pc[k] # "store", pc' = [pc EXCEPT ![k] = to]
    PROVE  ThreadStep(k) /\ pc'[k] = to /\ next'[k] = "idle"
<1>1. /\ pc \in [Threads -> {"idle", "store", "del", "breakers", "request", "available",
                             "unavailable"}]
      /\ next \in [Threads -> {"idle", "del", "breakers"}]
      /\ held \in [Threads -> SUBSET Groups]
      /\ value \in [Threads -> Int] /\ available \in Int
    BY DEF ThreadTypes
<1>2. Mutexes'
    BY <1>1 DEF Mutexes, MutexOK
<1>3. OwnWeight(Up)' = OwnWeight(Up) /\ (Ungrouped' <=> Ungrouped)
    <2>1. OwnWeight(Up)' = OwnWeight(Up)
        BY OwnIs, OwnIsNext
    <2> QED
        BY <2>1 DEF Ungrouped, Added, Grouped
<1>4. AvailableRight'
    <2>1. Free({Default})' <=> Free({Default})
        BY DEF Free
    <2> QED
        BY <1>3, <2>1 DEF AvailableRight
<1> QED
    BY <1>1, <1>2, <1>4 DEF Mutexes, MutexOK, ThreadStep

(* available_weight_ is stored and the mutexes are released.               *)
LEMMA StoreStep ==
    ASSUME ThreadTypes, Mutexes, AvailableRight, NEW k \in Threads, Store(k), Up' = Up
    PROVE  ThreadStep(k) /\ pc'[k] = next[k] /\ next'[k] = "idle"
<1>1. /\ pc \in [Threads -> {"idle", "store", "del", "breakers", "request", "available",
                             "unavailable"}]
      /\ next \in [Threads -> {"idle", "del", "breakers"}]
      /\ held \in [Threads -> SUBSET Groups]
      /\ value \in [Threads -> Int] /\ available \in Int
    BY DEF ThreadTypes
<1>2. /\ pc[k] = "store" /\ available' = value[k] /\ value' = [value EXCEPT ![k] = 0]
      /\ held' = [held EXCEPT ![k] = {}] /\ pc' = [pc EXCEPT ![k] = next[k]]
      /\ next' = [next EXCEPT ![k] = "idle"] /\ params' = params
    BY DEF Store, serverVars
<1>3. /\ held'[k] = {} /\ pc'[k] = next[k] /\ next'[k] = "idle"
      /\ next[k] \in {"idle", "del", "breakers"}
      /\ \A j \in Threads : j # k => /\ held'[j] = held[j] /\ pc'[j] = pc[j]
                                     /\ next'[j] = next[j] /\ value'[j] = value[j]
    BY <1>1, <1>2
<1>4. Mutexes'
    <2>1. ASSUME NEW j \in Threads PROVE MutexOK(j)'
        <3>1. MutexOK(j)
            BY DEF Mutexes
        <3>2. ASSUME NEW i \in Threads, i # j PROVE held'[i] \cap held'[j] = {}
            BY <1>3, <3>1, <3>2 DEF MutexOK
        <3>3. (held'[j] # {} <=> pc'[j] = "store") /\ (pc'[j] # "store" => next'[j] = "idle")
            BY <1>3, <3>1 DEF MutexOK
        <3> QED
            BY <3>2, <3>3 DEF MutexOK
    <2> QED
        BY <2>1 DEF Mutexes
<1>5. OwnWeight(Up)' = OwnWeight(Up) /\ (Ungrouped' <=> Ungrouped)
    <2>1. OwnWeight(Up)' = OwnWeight(Up)
        BY <1>2, OwnIs, OwnIsNext
    <2> QED
        BY <1>2, <2>1 DEF Ungrouped, Added, Grouped
<1>6. AvailableRight'
    <2>1. SUFFICES ASSUME Ungrouped
                   PROVE  /\ \A j \in Threads : held'[j] \subseteq {Default}
                          /\ available' = OwnWeight(Up)
                          /\ \A j \in Threads : Default \in held'[j] => value'[j] = OwnWeight(Up)
        BY <1>5 DEF AvailableRight
    <2>2. held[k] # {} /\ \A j \in Threads : j # k => held[j] \cap held[k] = {}
        BY <1>2 DEF Mutexes, MutexOK
    <2>3. /\ \A j \in Threads : held[j] \subseteq {Default}
          /\ \A j \in Threads : Default \in held[j] => value[j] = OwnWeight(Up)
        BY <2>1 DEF AvailableRight
    <2>4. Default \in held[k]
        BY <2>2, <2>3
    <2>5. ASSUME NEW j \in Threads PROVE held'[j] = {}
        BY <1>3, <2>2, <2>3, <2>4
    <2> QED
        BY <1>2, <2>3, <2>4, <2>5
<1>7. value[k] \in Int
    BY <1>1
<1> QED
    BY <1>1, <1>2, <1>3, <1>4, <1>6, <1>7 DEF ThreadStep

(* Servers stay added, keep their parameters, and leave their group only   *)
(* for good.                                                               *)
KeepServers ==
    /\ Added \subseteq Added'
    /\ \A v \in Added : params'[v] = params[v] /\ group'[v] \in {group[v], NoGroup}

LEMMA SameKept == params' = params /\ group' = group => KeepServers
BY DEF KeepServers, Added

LEMMA Concluded ==
    ASSUME UpstreamInv, NEW k \in Threads, ServersInv', ThreadStep(k), mode' = mode, KeepServers,
           server' \in [Threads -> Servers \cup {NoServer}],
           seen' \in [Threads -> Groups \cup {NoGroup}],
           \A j \in Threads : j # k => server'[j] = server[j] /\ seen'[j] = seen[j],
           RequestOK(k)'
    PROVE  UpstreamInv'
<1>1. Mutexes' /\ AvailableRight' /\ ThreadTypes'
    BY DEF ThreadStep, ThreadTypes
<1>2. ASSUME NEW j \in Threads, j # k PROVE RequestOK(j)'
    <2>1. RequestOK(j)
        BY DEF UpstreamInv, ThreadsOK
    <2>2. /\ pc'[j] = pc[j] /\ next'[j] = next[j]
          /\ server'[j] = server[j] /\ seen'[j] = seen[j]
        BY <1>2 DEF ThreadStep
    <2> QED
        BY <2>1, <2>2 DEF RequestOK, KeepServers
<1>3. ThreadsOK'
    BY <1>1, <1>2 DEF ThreadsOK, Mutexes
<1> QED
    BY <1>1, <1>3 DEF UpstreamInv

(* A thread without a request has nothing to keep.                         *)
LEMMA NoRequest ==
    ASSUME NEW k \in Threads, Mutexes', NEW to \in {"idle", "del"},
           pc'[k] = to \/ (pc'[k] = "store" /\ next'[k] = to)
    PROVE  RequestOK(k)'
<1>1. pc'[k] \in {"idle", "del", "store"} /\ next'[k] \in {"idle", "del"}
    BY DEF Mutexes, MutexOK
<1> QED
    BY <1>1 DEF RequestOK

LEMMA InvParts ==
    ASSUME UpstreamInv
    PROVE  /\ ServersInv /\ ServerTypes /\ ServersOK /\ ThreadTypes /\ Mutexes /\ AvailableRight
           /\ \A k \in Threads : RequestOK(k)
BY DEF UpstreamInv, ServersInv, ThreadsOK, Mutexes

(* In an upstream without groups, the group of its servers.                *)
LEMMA OneGroup ==
    ASSUME ServersOK, Ungrouped, NEW u \in Members
    PROVE  group[u] = Default
BY SetsOfServers DEF ServersOK, ServerOK, Ungrouped, Grouped

LEMMA UngroupedSame == params' = params => (Ungrouped' <=> Ungrouped)
BY DEF Ungrouped, Added, Grouped

LEMMA StepAdd ==
    ASSUME UpstreamInv, NEW k \in Threads, NEW u \in Servers, NEW p \in Params, Add(k, u, p)
    PROVE  UpstreamInv'
<1>1. /\ ServersInv /\ ServerTypes /\ ThreadTypes /\ Mutexes /\ AvailableRight
    BY InvParts
<1>2. /\ ServersInv' /\ Added' = Added \cup {u} /\ u \notin Added /\ params'[u] = p
      /\ \A v \in Added : params'[v] = params[v] /\ group'[v] = group[v]
    BY <1>1, AddServers
<1>3. PICK delta : delta = IF p.group # Default
                           THEN IF nalive[p.group] = 0 THEN weight[p.group] ELSE 0
                           ELSE IF p.master THEN p.weight ELSE 0
    OBVIOUS
<1>4. /\ pc[k] = "idle" /\ Change(k, {p.group}, delta, "write", "idle")
      /\ available' = available /\ mode' = mode /\ server' = server /\ seen' = seen
      /\ Free({p.group})
    BY <1>3 DEF Add, config, getVars
<1>5. p.group \in Groups /\ p.weight \in Nat
    BY ParamsOf
<1>6. delta \in Int
    BY <1>1, <1>3, <1>5 DEF ServerTypes
<1>7. ASSUME Ungrouped'
      PROVE  Ungrouped /\ p.group = Default /\ OwnWeight(Up)' = OwnWeight(Up) + delta
    <2>1. Ungrouped /\ p.group = Default
        BY <1>2, <1>7 DEF Ungrouped, Grouped
    <2> QED
        BY <1>1, <1>3, <2>1, OwnAfterAdd
<1>8. ThreadStep(k) /\ (pc'[k] = "idle" \/ (pc'[k] = "store" /\ next'[k] = "idle"))
    BY <1>1, <1>4, <1>5, <1>6, <1>7, ChangeStep
<1>9. RequestOK(k)'
    BY <1>8, NoRequest DEF ThreadStep
<1>10. KeepServers
    BY <1>2 DEF KeepServers
<1> QED
    BY <1>1, <1>2, <1>4, <1>8, <1>9, <1>10, Concluded DEF ThreadTypes

LEMMA StepDel ==
    ASSUME UpstreamInv, NEW k \in Threads, NEW u \in Servers, Del(k, u)
    PROVE  UpstreamInv'
<1>1. /\ ServersInv /\ ServerTypes /\ ServersOK /\ ThreadTypes /\ Mutexes /\ AvailableRight
    BY InvParts
<1>2. PICK S : S = Uncounted(u)
    OBVIOUS
<1>3. /\ ServersInv' /\ u \in Members /\ params' = params
      /\ group' = [group EXCEPT ![u] = NoGroup]
      /\ S \subseteq Up /\ Up' = Up \ S
    BY <1>1, <1>2, DelServers
<1>4. PICK to \in {"idle", "del"} : Change(k, {group[u]}, -Lost(S), "write", to)
    BY <1>2 DEF Del
<1>5. /\ pc[k] \in {"idle", "del"} /\ available' = available /\ mode' = mode /\ seen' = seen
      /\ Free({group[u]})
    BY DEF Del, config
<1>6. /\ server' \in [Threads -> Servers \cup {NoServer}]
      /\ \A j \in Threads : j # k => server'[j] = server[j]
    <2>1. PICK w \in {NoServer, u} : server' = [server EXCEPT ![k] = w]
        BY DEF Del
    <2> QED
        BY <1>1, <2>1 DEF ThreadTypes
<1>7. S \subseteq Added
    BY <1>3, SetsOfServers
<1>8. -Lost(S) \in Int
    BY <1>1, <1>7, LostIs
<1>9. ASSUME Ungrouped'
      PROVE  Ungrouped /\ group[u] = Default /\ OwnWeight(Up)' = OwnWeight(Up) + (-Lost(S))
    <2>1. Ungrouped
        BY <1>3, <1>9, UngroupedSame
    <2>2. OwnWeight(Up)' = OwnWeight(Up) + (-OwnWeight(S))
        BY <1>1, <1>3, OwnAfterLoss
    <2> QED
        BY <1>1, <1>3, <1>7, <2>1, <2>2, LostIs, OneGroup
<1>10. group[u] \in Groups
    BY <1>1, <1>3, SetsOfServers DEF Members, ServerTypes
<1>11. ThreadStep(k) /\ (pc'[k] = to \/ (pc'[k] = "store" /\ next'[k] = to))
    BY <1>1, <1>4, <1>5, <1>8, <1>9, <1>10, ChangeStep
<1>12. RequestOK(k)'
    BY <1>4, <1>11, NoRequest DEF ThreadStep
<1>13. KeepServers
    BY <1>1, <1>3, SetsOfServers DEF KeepServers, Added, ServerTypes
<1> QED
    BY <1>1, <1>3, <1>5, <1>6, <1>11, <1>12, <1>13, Concluded DEF ThreadTypes

LEMMA StepDisable ==
    ASSUME UpstreamInv, NEW k \in Threads, NEW a \in Addresses, DisableServer(k, a)
    PROVE  UpstreamInv'
<1>1. /\ ServersInv /\ ServerTypes /\ ServersOK /\ ThreadTypes /\ Mutexes /\ AvailableRight
    BY InvParts
<1>2. PICK S, gs, broken : /\ S = AtAddress(a) /\ gs = {group[u] : u \in S}
                           /\ broken = {u \in AtAddress(a) : ~listed[u]}
    OBVIOUS
<1>3. ServersInv' /\ broken \subseteq Up /\ Up' = Up \ broken
    BY <1>1, <1>2, DisableServers
<1>4. /\ pc[k] = "idle" /\ S # {} /\ Free(gs) /\ Change(k, gs, -Lost(broken), "read", "idle")
      /\ available' = available /\ params' = params /\ group' = group
      /\ mode' = mode /\ server' = server /\ seen' = seen
    BY <1>2 DEF DisableServer, AtAddress, config, getVars
<1>5. broken \subseteq Added /\ S \subseteq Members
    BY <1>2, <1>3, SetsOfServers DEF AtAddress
<1>6. -Lost(broken) \in Int
    BY <1>1, <1>5, LostIs
<1>7. gs \subseteq Groups /\ gs # {}
    BY <1>1, <1>2, <1>4, <1>5, SetsOfServers DEF Members, ServerTypes
<1>8. ASSUME Ungrouped'
      PROVE  Ungrouped /\ gs = {Default} /\ OwnWeight(Up)' = OwnWeight(Up) + (-Lost(broken))
    <2>1. Ungrouped
        BY <1>4, <1>8, UngroupedSame
    <2>2. OwnWeight(Up)' = OwnWeight(Up) + (-OwnWeight(broken))
        BY <1>1, <1>3, <1>4, OwnAfterLoss
    <2>3. gs = {Default}
        BY <1>1, <1>2, <1>4, <1>5, <2>1, OneGroup
    <2> QED
        BY <1>1, <1>5, <2>1, <2>2, <2>3, LostIs
<1>9. ThreadStep(k) /\ (pc'[k] = "idle" \/ (pc'[k] = "store" /\ next'[k] = "idle"))
    BY <1>1, <1>4, <1>6, <1>7, <1>8, ChangeStep
<1>10. RequestOK(k)'
    BY <1>9, NoRequest DEF ThreadStep
<1> QED
    BY <1>1, <1>3, <1>4, <1>9, <1>10, SameKept, Concluded DEF ThreadTypes

LEMMA StepEnable ==
    ASSUME UpstreamInv, NEW k \in Threads, NEW a \in Addresses, EnableServer(k, a)
    PROVE  UpstreamInv'
<1>1. /\ ServersInv /\ ServerTypes /\ ServersOK /\ ThreadTypes /\ Mutexes /\ AvailableRight
    BY InvParts
<1>2. PICK S, gs, back : /\ S = AtAddress(a) /\ gs = {group[u] : u \in S}
                         /\ back = {u \in AtAddress(a) : listed[u] /\ Down(u)}
    OBVIOUS
<1>3. ServersInv' /\ back \subseteq Members /\ back \cap Up = {} /\ Up' = Up \cup back
    BY <1>1, <1>2, EnableServers
<1>4. /\ pc[k] = "idle" /\ S # {} /\ Free(gs) /\ Change(k, gs, Gained(back), "read", "idle")
      /\ available' = available /\ params' = params /\ group' = group
      /\ mode' = mode /\ server' = server /\ seen' = seen
    BY <1>2 DEF EnableServer, AtAddress, config, getVars
<1>5. back \subseteq Added /\ S \subseteq Members
    BY <1>2, <1>3, SetsOfServers DEF AtAddress
<1>6. Gained(back) \in Int
    BY <1>1, <1>5, GainedIs
<1>7. gs \subseteq Groups /\ gs # {}
    BY <1>1, <1>2, <1>4, <1>5, SetsOfServers DEF Members, ServerTypes
<1>8. ASSUME Ungrouped'
      PROVE  Ungrouped /\ gs = {Default} /\ OwnWeight(Up)' = OwnWeight(Up) + Gained(back)
    <2>1. Ungrouped
        BY <1>4, <1>8, UngroupedSame
    <2>2. OwnWeight(Up)' = OwnWeight(Up) + OwnWeight(back)
        BY <1>1, <1>3, <1>4, OwnAfterGain
    <2>3. gs = {Default}
        BY <1>1, <1>2, <1>4, <1>5, <2>1, OneGroup
    <2> QED
        BY <1>1, <1>5, <2>1, <2>2, <2>3, GainedIs
<1>9. ThreadStep(k) /\ (pc'[k] = "idle" \/ (pc'[k] = "store" /\ next'[k] = "idle"))
    BY <1>1, <1>4, <1>6, <1>7, <1>8, ChangeStep
<1>10. RequestOK(k)'
    BY <1>9, NoRequest DEF ThreadStep
<1> QED
    BY <1>1, <1>3, <1>4, <1>9, <1>10, SameKept, Concluded DEF ThreadTypes

LEMMA StepStore ==
    ASSUME UpstreamInv, NEW k \in Threads, Store(k)
    PROVE  UpstreamInv'
<1>1. /\ ServersInv /\ ServerTypes /\ ThreadTypes /\ Mutexes /\ AvailableRight /\ RequestOK(k)
    BY InvParts
<1>2. /\ UNCHANGED <<serverVars, groupVars>> /\ now' = now /\ params' = params /\ group' = group
      /\ mode' = mode /\ server' = server /\ seen' = seen
    BY DEF Store, config, getVars, serverVars
<1>3. now' \in Nat /\ now' >= now
    BY <1>1, <1>2 DEF ServerTypes
<1>4. ServersInv' /\ Up' = Up
    BY <1>1, <1>2, <1>3, QuietServers
<1>5. ThreadStep(k) /\ pc'[k] = next[k] /\ next'[k] = "idle"
    BY <1>1, <1>4, StoreStep
<1>6. next[k] \in {"idle", "del", "breakers"} /\ Added' = Added
    BY <1>1, <1>2, SameServers DEF ThreadTypes
<1>7. RequestOK(k)'
    BY <1>1, <1>2, <1>5, <1>6 DEF RequestOK
<1> QED
    BY <1>1, <1>2, <1>4, <1>5, <1>7, SameKept, Concluded DEF ThreadTypes

LEMMA StepGetPicks ==
    ASSUME UpstreamInv, NEW k \in Threads, NEW u \in Servers, GetPicks(k, u)
    PROVE  UpstreamInv'
<1>1. /\ ServersInv /\ ServerTypes /\ ThreadTypes /\ Mutexes /\ AvailableRight
    BY InvParts
<1>2. /\ UNCHANGED <<serverVars, groupVars, available, next, held, value>> /\ now' = now
      /\ params' = params /\ group' = group /\ mode' = mode /\ seen' = seen
      /\ pc[k] = "idle" /\ u \in Masters /\ server' = [server EXCEPT ![k] = u]
    BY DEF GetPicks, config, serverVars
<1>3. now' \in Nat /\ now' >= now
    BY <1>1, <1>2 DEF ServerTypes
<1>4. ServersInv' /\ Up' = Up
    BY <1>1, <1>2, <1>3, QuietServers
<1>5. PICK to \in {"breakers", "request"} : pc' = [pc EXCEPT ![k] = to]
    BY DEF GetPicks
<1>6. ThreadStep(k) /\ pc'[k] = to /\ next'[k] = "idle"
    BY <1>1, <1>2, <1>4, <1>5, QuietStep
<1>7. /\ server' \in [Threads -> Servers \cup {NoServer}] /\ server'[k] = u
      /\ \A j \in Threads : j # k => server'[j] = server[j]
    BY <1>1, <1>2 DEF ThreadTypes
<1>8. u \in Added'
    BY <1>2, SetsOfServers, SameServers
<1>9. RequestOK(k)'
    BY <1>5, <1>6, <1>7, <1>8 DEF RequestOK
<1> QED
    BY <1>1, <1>2, <1>4, <1>6, <1>7, <1>9, SameKept, Concluded DEF ThreadTypes

LEMMA StepGetConsistent ==
    ASSUME UpstreamInv, NEW k \in Threads, GetConsistent(k)
    PROVE  UpstreamInv'
<1>1. /\ ServersInv /\ ServerTypes /\ ThreadTypes /\ Mutexes /\ AvailableRight
    BY InvParts
<1>2. /\ UNCHANGED <<serverVars, groupVars, available, next, held, value>> /\ now' = now
      /\ params' = params /\ group' = group /\ mode' = mode /\ seen' = seen /\ server' = server
      /\ pc[k] = "idle" /\ mode = "consistent" /\ pc' = [pc EXCEPT ![k] = "breakers"]
    BY DEF GetConsistent, config, serverVars
<1>3. now' \in Nat /\ now' >= now
    BY <1>1, <1>2 DEF ServerTypes
<1>4. ServersInv' /\ Up' = Up
    BY <1>1, <1>2, <1>3, QuietServers
<1>5. ThreadStep(k) /\ pc'[k] = "breakers" /\ next'[k] = "idle"
    BY <1>1, <1>2, <1>4, QuietStep
<1>6. RequestOK(k)'
    BY <1>2, <1>5 DEF RequestOK
<1> QED
    BY <1>1, <1>2, <1>4, <1>5, <1>6, SameKept, Concluded DEF ThreadTypes

LEMMA StepCheckOneBreaker ==
    ASSUME UpstreamInv, NEW k \in Threads, NEW g \in Groups, CheckOneBreaker(k, g)
    PROVE  UpstreamInv'
<1>1. /\ ServersInv /\ ServerTypes /\ ServersOK /\ ThreadTypes /\ Mutexes /\ AvailableRight
      /\ RequestOK(k)
    BY InvParts
<1>2. /\ available' = available /\ params' = params /\ group' = group /\ weight' = weight
      /\ now' = now /\ mode' = mode /\ server' = server /\ seen' = seen /\ pc[k] = "breakers"
    BY DEF CheckOneBreaker, config
<1>3. Added' = Added
    BY <1>2, SameServers
<1>4. CASE nbreak[g] = 0
    <2>1. /\ UNCHANGED <<serverVars, groupVars, available, next, held, value>> /\ pc' = pc
        BY <1>2, <1>4 DEF CheckOneBreaker, serverVars, groupVars
    <2>2. now' \in Nat /\ now' >= now
        BY <1>1, <1>2 DEF ServerTypes
    <2>3. ServersInv' /\ Up' = Up
        BY <1>1, <2>1, <2>2, QuietServers
    <2>4. pc' = [pc EXCEPT ![k] = "breakers"]
        BY <1>1, <1>2, <2>1 DEF ThreadTypes
    <2>5. ThreadStep(k) /\ pc'[k] = "breakers" /\ next'[k] = "idle"
        BY <1>1, <1>2, <2>1, <2>3, <2>4, QuietStep
    <2>6. RequestOK(k)'
        BY <1>1, <1>2, <1>3, <2>5 DEF RequestOK
    <2> QED
        BY <1>1, <1>2, <2>3, <2>5, <2>6, SameKept, Concluded DEF ThreadTypes
<1>5. CASE nbreak[g] # 0
    <2>1. PICK back : back = {u \in ExpiredIn(k, g) : Down(u) /\ group[u] = g}
        OBVIOUS
    <2>2. ServersInv' /\ back \subseteq Members /\ back \cap Up = {} /\ Up' = Up \cup back
        BY <1>1, <1>5, <2>1, CheckServers
    <2>3. Free({g}) /\ Change(k, {g}, Gained(back), "read", "breakers")
        BY <1>5, <2>1 DEF CheckOneBreaker, ExpiredIn
    <2>4. back \subseteq Added
        BY <2>2, SetsOfServers
    <2>5. Gained(back) \in Int
        BY <1>1, <2>4, GainedIs
    <2>6. ASSUME Ungrouped'
          PROVE  /\ Ungrouped /\ (Gained(back) # 0 => {g} = {Default})
                 /\ OwnWeight(Up)' = OwnWeight(Up) + Gained(back)
        <3>1. Ungrouped
            BY <1>2, <2>6, UngroupedSame
        <3>2. OwnWeight(Up)' = OwnWeight(Up) + OwnWeight(back)
            BY <1>1, <1>2, <2>2, OwnAfterGain
        <3>3. back # {} => g = Default
            BY <1>1, <2>1, <2>2, <3>1, OneGroup
        <3> QED
            BY <1>1, <2>4, <3>1, <3>2, <3>3, GainedIs
    <2>7. /\ ThreadStep(k)
          /\ pc'[k] = "breakers" \/ (pc'[k] = "store" /\ next'[k] = "breakers")
        BY <1>1, <1>2, <2>3, <2>5, <2>6, ChangeStep
    <2>8. RequestOK(k)'
        BY <1>1, <1>2, <1>3, <2>7 DEF RequestOK
    <2> QED
        BY <1>1, <1>2, <2>2, <2>7, <2>8, SameKept, Concluded DEF ThreadTypes
<1> QED
    BY <1>4, <1>5

(* What get returns has been added.                                        *)
LEMMA AnswersAdded ==
    ASSUME NEW k \in Threads, mode = "consistent" \/ server[k] \in Added
    PROVE  Answers(k) \subseteq Added \cup {NoServer}
<1>1. \A g : GetOne(g) \subseteq Added \cup {NoServer}
    BY SetsOfServers DEF GetOne
<1>2. \A g : GetOneSlave(g) \subseteq Added \cup {NoServer}
    BY SetsOfServers DEF GetOneSlave
<1>3. HashSelect \subseteq Added \cup {NoServer}
    <2>1. Eligible \subseteq Added
        BY SetsOfServers DEF Eligible
    <2>2. \A u \in Eligible : Weak(u) \subseteq Added \cup {NoServer}
        BY <1>1, <2>1 DEF Weak
    <2> QED
        BY <2>2 DEF HashSelect
<1>4. WeightedTryAnother \subseteq Added \cup {NoServer}
    BY <1>3 DEF WeightedTryAnother
<1>5. mode # "consistent" => Strong(server[k]) \subseteq Added \cup {NoServer}
    BY <1>1 DEF Strong
<1>6. Selected(k) \subseteq Added \cup {NoServer}
    BY <1>3, <1>4, <1>5 DEF Selected
<1> QED
    BY <1>2, <1>6 DEF Answers

LEMMA StepGetSelects ==
    ASSUME UpstreamInv, NEW k \in Threads, GetSelects(k)
    PROVE  UpstreamInv'
<1>1. /\ ServersInv /\ ServerTypes /\ ThreadTypes /\ Mutexes /\ AvailableRight /\ RequestOK(k)
    BY InvParts
<1>2. /\ UNCHANGED <<serverVars, groupVars, available, next, held, value>> /\ now' = now
      /\ params' = params /\ group' = group /\ mode' = mode /\ seen' = seen
      /\ pc[k] = "breakers"
    BY DEF GetSelects, config, serverVars
<1>3. PICK u \in Answers(k) :
          /\ server' = [server EXCEPT ![k] = u]
          /\ pc' = [pc EXCEPT ![k] = IF u = NoServer THEN "idle" ELSE "request"]
    BY DEF GetSelects
<1>4. u \in Added \cup {NoServer}
    BY <1>1, <1>2, AnswersAdded DEF RequestOK
<1>5. now' \in Nat /\ now' >= now
    BY <1>1, <1>2 DEF ServerTypes
<1>6. ServersInv' /\ Up' = Up
    BY <1>1, <1>2, <1>5, QuietServers
<1>7. PICK to \in {"idle", "request"} : /\ pc' = [pc EXCEPT ![k] = to]
                                        /\ to = "request" => u \in Added
    BY <1>3, <1>4
<1>8. ThreadStep(k) /\ pc'[k] = to /\ next'[k] = "idle"
    BY <1>1, <1>2, <1>6, <1>7, QuietStep
<1>9. /\ server' \in [Threads -> Servers \cup {NoServer}] /\ server'[k] = u
      /\ \A j \in Threads : j # k => server'[j] = server[j]
    BY <1>1, <1>3, <1>4, SetsOfServers DEF ThreadTypes
<1>10. Added' = Added
    BY <1>2, SameServers
<1>11. RequestOK(k)'
    BY <1>7, <1>8, <1>9, <1>10 DEF RequestOK
<1> QED
    BY <1>1, <1>2, <1>6, <1>8, <1>9, <1>11, SameKept, Concluded DEF ThreadTypes

LEMMA StepRequestEnds ==
    ASSUME UpstreamInv, NEW k \in Threads, NEW to \in {"idle", "available", "unavailable"},
           RequestEnds(k, to)
    PROVE  UpstreamInv'
<1>1. /\ ServersInv /\ ServerTypes /\ ServersOK /\ ThreadTypes /\ Mutexes /\ AvailableRight
      /\ RequestOK(k)
    BY InvParts
<1>2. /\ UNCHANGED <<serverVars, groupVars, available, next, held, value>> /\ now' = now
      /\ params' = params /\ group' = group /\ mode' = mode
      /\ pc[k] = "request" /\ pc' = [pc EXCEPT ![k] = to]
    BY DEF RequestEnds, config, serverVars
<1>3. now' \in Nat /\ now' >= now
    BY <1>1, <1>2 DEF ServerTypes
<1>4. ServersInv' /\ Up' = Up
    BY <1>1, <1>2, <1>3, QuietServers
<1>5. ThreadStep(k) /\ pc'[k] = to /\ next'[k] = "idle"
    BY <1>1, <1>2, <1>4, QuietStep
<1>6. server[k] \in Added /\ server[k] \in Servers /\ Added' = Added
    BY <1>1, <1>2, SetsOfServers, SameServers DEF RequestOK
<1>7. CASE to = "idle"
    <2>1. server' = [server EXCEPT ![k] = NoServer] /\ seen' = seen
        BY <1>7 DEF RequestEnds
    <2>2. /\ server' \in [Threads -> Servers \cup {NoServer}]
          /\ \A j \in Threads : j # k => server'[j] = server[j]
        BY <1>1, <2>1 DEF ThreadTypes
    <2>3. RequestOK(k)'
        BY <1>5, <1>7 DEF RequestOK
    <2> QED
        BY <1>1, <1>2, <1>4, <1>5, <2>1, <2>2, <2>3, SameKept, Concluded DEF ThreadTypes
<1>8. CASE to # "idle"
    <2>1. seen' = [seen EXCEPT ![k] = group[server[k]]] /\ server' = server
        BY <1>8 DEF RequestEnds
    <2>2. /\ seen' \in [Threads -> Groups \cup {NoGroup}] /\ seen'[k] = group[server[k]]
          /\ \A j \in Threads : j # k => seen'[j] = seen[j]
        BY <1>1, <1>6, <2>1 DEF ThreadTypes, ServerTypes
    <2>3. group[server[k]] = NoGroup \/ group[server[k]] = params[server[k]].group
        BY <1>1, <1>6 DEF Members, ServersOK, ServerOK
    <2>4. RequestOK(k)'
        BY <1>2, <1>5, <1>6, <2>1, <2>2, <2>3 DEF RequestOK
    <2> QED
        BY <1>1, <1>2, <1>4, <1>5, <2>1, <2>2, <2>4, SameKept, Concluded DEF ThreadTypes
<1> QED
    BY <1>7, <1>8

LEMMA Forgotten ==
    ASSUME ThreadTypes, NEW k \in Threads, Forget(k)
    PROVE  /\ server' \in [Threads -> Servers \cup {NoServer}]
           /\ seen' \in [Threads -> Groups \cup {NoGroup}]
           /\ \A j \in Threads : j # k => server'[j] = server[j] /\ seen'[j] = seen[j]
BY DEF Forget, ThreadTypes

LEMMA StepNotifyAvailable ==
    ASSUME UpstreamInv, NEW k \in Threads, NotifyAvailable(k)
    PROVE  UpstreamInv'
<1>1. /\ ServersInv /\ ServerTypes /\ ServersOK /\ ThreadTypes /\ Mutexes /\ AvailableRight
      /\ RequestOK(k)
    BY InvParts
<1>2. /\ available' = available /\ params' = params /\ group' = group
      /\ mode' = mode /\ pc[k] = "available" /\ Forget(k)
    BY DEF NotifyAvailable, config
<1>3. CASE seen[k] = NoGroup
    <2>1. ServersInv' /\ Up' = Up
        BY <1>1, <1>3, AvailableRemoved
    <2>2. pc' = [pc EXCEPT ![k] = "idle"] /\ UNCHANGED <<next, held, value>>
        BY <1>3 DEF NotifyAvailable
    <2>3. ThreadStep(k) /\ pc'[k] = "idle"
        BY <1>1, <1>2, <2>1, <2>2, QuietStep
    <2>4. RequestOK(k)'
        BY <2>3, NoRequest DEF ThreadStep
    <2> QED
        BY <1>1, <1>2, <2>1, <2>3, <2>4, Forgotten, SameKept, Concluded
<1>4. CASE seen[k] # NoGroup
    <2>1. PICK u, g, back :
              /\ u = server[k] /\ g = seen[k]
              /\ back = IF listed[server[k]] /\ group[server[k]] = seen[k] /\ Down(server[k])
                        THEN {server[k]} ELSE {}
        OBVIOUS
    <2>2. ServersInv' /\ back \subseteq Members /\ back \cap Up = {} /\ Up' = Up \cup back
        BY <1>1, <1>4, <2>1, AvailableServers
    <2>3. Free({g}) /\ Change(k, {g}, Gained(back), "none", "idle")
        BY <1>4, <2>1 DEF NotifyAvailable
    <2>4. back \subseteq Added /\ g \in Groups /\ u \in Added /\ g = params[u].group
        BY <1>1, <1>2, <1>4, <2>1, <2>2, SetsOfServers DEF ThreadTypes, RequestOK
    <2>5. Gained(back) \in Int
        BY <1>1, <2>4, GainedIs
    <2>6. ASSUME Ungrouped'
          PROVE  /\ Ungrouped /\ g = Default
                 /\ OwnWeight(Up)' = OwnWeight(Up) + Gained(back)
        <3>1. Ungrouped
            BY <1>2, <2>6, UngroupedSame
        <3>2. OwnWeight(Up)' = OwnWeight(Up) + OwnWeight(back)
            BY <1>1, <1>2, <2>2, OwnAfterGain
        <3>3. g = Default
            BY <2>4, <3>1 DEF Ungrouped, Grouped
        <3> QED
            BY <1>1, <2>4, <3>1, <3>2, <3>3, GainedIs
    <2>7. ThreadStep(k) /\ (pc'[k] = "idle" \/ (pc'[k] = "store" /\ next'[k] = "idle"))
        BY <1>1, <1>2, <2>3, <2>4, <2>5, <2>6, ChangeStep
    <2>8. RequestOK(k)'
        BY <2>7, NoRequest DEF ThreadStep
    <2> QED
        BY <1>1, <1>2, <2>2, <2>7, <2>8, Forgotten, SameKept, Concluded
<1> QED
    BY <1>3, <1>4

LEMMA StepNotifyUnavailable ==
    ASSUME UpstreamInv, NEW k \in Threads, NotifyUnavailable(k)
    PROVE  UpstreamInv'
<1>1. /\ ServersInv /\ ServerTypes /\ ServersOK /\ ThreadTypes /\ Mutexes /\ AvailableRight
      /\ RequestOK(k)
    BY InvParts
<1>2. PICK u, g, broken :
          /\ u = server[k] /\ g = seen[k]
          /\ broken = IF seen[k] # NoGroup /\ Breaks(server[k], seen[k])
                      THEN {server[k]} ELSE {}
    OBVIOUS
<1>3. /\ available' = available /\ params' = params /\ group' = group
      /\ mode' = mode /\ pc[k] = "unavailable" /\ Forget(k)
      /\ g # NoGroup => Free({g})
      /\ Change(k, {g}, -Lost(broken), "none", "idle")
    BY <1>2 DEF NotifyUnavailable, config
<1>4. ServersInv' /\ broken \subseteq Up /\ Up' = Up \ broken
    BY <1>1, <1>2, UnavailableServers
<1>5. broken \subseteq Added
    BY <1>4, SetsOfServers
<1>6. -Lost(broken) \in Int /\ (-Lost(broken) # 0 => broken # {})
    BY <1>1, <1>5, LostIs
<1>7. /\ u \in Added
      /\ broken # {} => g \in Groups /\ g # NoGroup /\ g = params[u].group
    BY <1>1, <1>2, <1>3 DEF ThreadTypes, RequestOK
<1>8. ASSUME Ungrouped'
      PROVE  /\ Ungrouped /\ (-Lost(broken) # 0 => {g} = {Default})
             /\ OwnWeight(Up)' = OwnWeight(Up) + (-Lost(broken))
    <2>1. Ungrouped
        BY <1>3, <1>8, UngroupedSame
    <2>2. OwnWeight(Up)' = OwnWeight(Up) + (-OwnWeight(broken))
        BY <1>1, <1>3, <1>4, OwnAfterLoss
    <2>3. broken # {} => g = Default
        BY <1>7, <2>1 DEF Ungrouped, Grouped
    <2> QED
        BY <1>1, <1>5, <1>6, <2>1, <2>2, <2>3, LostIs
<1>9. -Lost(broken) # 0 => {g} \subseteq Groups /\ {g} # {} /\ Free({g})
    BY <1>3, <1>6, <1>7
<1>10. ThreadStep(k) /\ (pc'[k] = "idle" \/ (pc'[k] = "store" /\ next'[k] = "idle"))
    BY <1>1, <1>3, <1>6, <1>8, <1>9, ChangeStep
<1>11. RequestOK(k)'
    BY <1>10, NoRequest DEF ThreadStep
<1> QED
    BY <1>1, <1>3, <1>4, <1>10, <1>11, Forgotten, SameKept, Concluded

(* Time passes, or nothing happens.                                        *)
LEMMA StepTime ==
    ASSUME UpstreamInv, now' \in Nat, now' >= now,
           UNCHANGED <<config, serverVars, groupVars, available, pc, next, held, value, getVars>>
    PROVE  UpstreamInv'
<1>1. /\ ServersInv /\ ThreadTypes /\ ThreadsOK /\ AvailableRight
    BY DEF UpstreamInv
<1>2. /\ UNCHANGED <<available, pc, next, held, value, server, seen, mode, params, group>>
      /\ UNCHANGED <<serverVars, groupVars>>
    BY DEF config, getVars, serverVars
<1>3. ServersInv' /\ Up' = Up
    BY <1>1, <1>2, QuietServers
<1>4. ThreadTypes'
    BY <1>1, <1>2 DEF ThreadTypes
<1>5. Added' = Added
    BY <1>2, SameServers
<1>6. ThreadsOK'
    BY <1>1, <1>2, <1>5 DEF ThreadsOK, MutexOK, RequestOK
<1>7. AvailableRight'
    <2>1. (Ungrouped' <=> Ungrouped) /\ OwnWeight(Up)' = OwnWeight(Up)
        BY <1>2, <1>3, UngroupedSame, OwnIs, OwnIsNext
    <2>2. Free({Default})' <=> Free({Default})
        BY <1>2 DEF Free
    <2> QED
        BY <1>1, <1>2, <2>1, <2>2 DEF AvailableRight
<1> QED
    BY <1>3, <1>4, <1>6, <1>7 DEF UpstreamInv

-----------------------------------------------------------------------------
LEMMA InitUpstreamInv == Init => UpstreamInv
<1> SUFFICES ASSUME Init PROVE UpstreamInv
    OBVIOUS
<1>1. Added = {} /\ Members = {} /\ Masters = {} /\ Up = {}
    BY DEF Init, Added, Members, Masters, Up
<1>2. \A g : UpIn(g) = {} /\ MastersIn(g) = {} /\ ListedIn(g) = {}
    BY <1>1 DEF UpIn, MastersIn, ListedIn
<1>3. ServerTypes
    BY DEF Init, ServerTypes
<1>4. ServersOK
    BY <1>1 DEF Init, ServersOK, ServerOK
<1>5. ListedCounted /\ AliveRight
    <2>1. \A g : Cardinality(UpIn(g)) = 0 /\ Cardinality(ListedIn(g)) = 0
        BY <1>2, FS_EmptySet
    <2>2. \A g \in Groups : nbreak[g] = 0 /\ nalive[g] = 0
        BY DEF Init
    <2> QED
        BY <2>1, <2>2 DEF ListedCounted, AliveRight
<1>6. WeightRight
    BY <1>2, NoUnits DEF Init, WeightRight, Weight, UnitsOf
<1>7. ThreadTypes
    BY DEF Init, ThreadTypes
<1>8. ThreadsOK
    BY DEF Init, ThreadsOK, MutexOK, RequestOK
<1>9. AvailableRight
    <2>1. OwnWeight(Up) = 0
        <3>1. {u \in Up : ~(params[u].group # Default) /\ params[u].master} = {}
            BY <1>1
        <3> QED
            BY <3>1, OwnIs, NoUnits DEF OwnOf
    <2> QED
        BY <2>1 DEF Init, AvailableRight
<1> QED
    BY <1>3, <1>4, <1>5, <1>6, <1>7, <1>8, <1>9 DEF UpstreamInv, ServersInv

LEMMA NextUpstreamInv == UpstreamInv /\ [Next]_vars => UpstreamInv'
<1> SUFFICES ASSUME UpstreamInv, [Next]_vars PROVE UpstreamInv'
    OBVIOUS
<1>1. now \in Nat
    BY InvParts DEF ServerTypes
<1>2. CASE Tick
    <2>1. now' = now + 1
        BY <1>2 DEF Tick
    <2>2. now' \in Nat /\ now' >= now
        BY <1>1, <2>1
    <2> QED
        BY <1>2, <2>2, StepTime DEF Tick
<1>3. ASSUME NEW k \in Threads, Get(k) PROVE UpstreamInv'
    BY <1>3, StepGetConsistent, StepGetSelects, StepStore, StepGetPicks, StepCheckOneBreaker
       DEF Get
<1>4. ASSUME NEW k \in Threads, Notify(k) PROVE UpstreamInv'
    BY <1>4, StepNotifyAvailable, StepNotifyUnavailable, StepRequestEnds DEF Notify
<1>5. ASSUME NEW k \in Managers, Manage(k) PROVE UpstreamInv'
    <2>1. k \in Threads
        BY UpstreamAssumption
    <2> QED
        BY <1>5, <2>1, StepDel, StepAdd, StepDisable, StepEnable DEF Manage
<1>6. CASE UNCHANGED vars
    <2>1. now' \in Nat /\ now' >= now
        BY <1>1, <1>6 DEF vars
    <2> QED
        BY <1>6, <2>1, StepTime DEF vars
<1> QED
    BY <1>2, <1>3, <1>4, <1>5, <1>6 DEF Next

(* The inductive invariant: the groups' counters are right for servers     *)
(* whose place on the list says whether they are down, threads hold at     *)
(* most the mutexes they need to store available_weight_, and the group    *)
(* pointer a notification has read is stale only if the server is gone.    *)
THEOREM UpstreamInductive == Spec => []UpstreamInv
BY InitUpstreamInv, NextUpstreamInv, PTL DEF Spec

(* nalive, weight and available_weight_ agree with the servers, in every   *)
(* state of an upstream of any size: a server that is broken, expires, is  *)
(* enabled or removed is counted exactly once each way.                    *)
THEOREM CountersStayRight == Spec => []CountersRight
<1>1. UpstreamInv => CountersRight
    <2> SUFFICES ASSUME UpstreamInv PROVE CountersRight
        OBVIOUS
    <2>1. AliveRight /\ WeightRight /\ AvailableRight
        BY DEF UpstreamInv, ServersInv
    <2> QED
        BY <2>1 DEF CountersRight, AliveRight, WeightRight, AvailableRight, Ungrouped, Up, UpIn,
                    MastersIn
<1> QED
    BY <1>1, UpstreamInductive, PTL

(* A server in a group that is down is on the breaker list, due within     *)
(* MTTR_SECOND, and its group's nbreak is not 0: check_one_breaker will    *)
(* not pass it over.                                                       *)
THEOREM DownStaysListed == Spec => []DownIsListed
<1>1. UpstreamInv => DownIsListed
    <2> SUFFICES ASSUME UpstreamInv, NEW u \in Members, Down(u)
                 PROVE  listed[u] /\ brokenTimeout[u] <= now + MTTR /\ nbreak[group[u]] > 0
        BY DEF DownIsListed
    <2>1. ServerTypes /\ ServersOK /\ ListedCounted
        BY DEF UpstreamInv, ServersInv
    <2>2. u \in Servers /\ u \in Added /\ group[u] # NoGroup /\ group[u] \in Groups
        BY <2>1, SetsOfServers DEF Members, ServerTypes
    <2>3. listed[u] /\ brokenTimeout[u] <= now + MTTR /\ group[u] = params[u].group
        BY <2>1, <2>2 DEF ServersOK, ServerOK
    <2>4. nbreak[group[u]] > 0
        <3>1. PICK L : L = ListedIn(group[u])
            OBVIOUS
        <3>2. u \in L /\ L \subseteq Servers
            BY <2>2, <2>3, <3>1, SetsOfServers DEF ListedIn
        <3>3. IsFiniteSet(L) /\ Cardinality(L) \in Nat
            BY <3>2, ServerSets
        <3>4. Cardinality(L) # 0
            BY <3>2, <3>3, FS_EmptySet
        <3>5. nbreak[group[u]] >= Cardinality(L) /\ nbreak[group[u]] \in Int
            BY <2>1, <2>2, <3>1 DEF ListedCounted, ServerTypes
        <3> QED
            BY <3>3, <3>4, <3>5
    <2> QED
        BY <2>3, <2>4
<1> QED
    BY <1>1, UpstreamInductive, PTL

=============================================================================
