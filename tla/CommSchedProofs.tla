--------------------------- MODULE CommSchedProofs ---------------------------
(***************************************************************************)
(* Proofs about CommSched, for any number of targets, groups and callers   *)
(* and any maximal loads: loads and figures of groups are right, the heap  *)
(* of a group stays one, and free slots are noticed.                       *)
(*                                                                         *)
(* The first parts are about the heap alone: the order of the targets, the *)
(* way of a target through the heap, what moving the others one place does *)
(* to the places and indices (Rearranged), and why heap_adjust and heapify *)
(* put the order right (Climbed, Sunk).                                    *)
(***************************************************************************)
EXTENDS CommSched, FiniteSetTheorems, SequenceTheorems, FunctionTheorems,
        WellFoundedInduction, TLAPS

-----------------------------------------------------------------------------
(* The order of the targets.                                               *)

LEMMA Scaled ==
    ASSUME NEW x \in Nat, NEW y \in Nat, NEW k \in Nat \ {0}
    PROVE  x < y <=> x * k < y * k
<1>1. ASSUME x < y PROVE x * k < y * k
    <2>1. PICK d \in Nat \ {0} : y = x + d
        BY <1>1
    <2>2. y * k = x * k + d * k
        BY <2>1
    <2>3. d * k > 0 /\ x * k \in Nat /\ d * k \in Nat
        OBVIOUS
    <2> QED
        BY <2>2, <2>3
<1>2. ASSUME ~(x < y) PROVE ~(x * k < y * k)
    <2>1. PICK d \in Nat : x = y + d
        BY <1>2
    <2>2. x * k = y * k + d * k
        BY <2>1
    <2>3. d * k >= 0 /\ y * k \in Nat /\ d * k \in Nat
        OBVIOUS
    <2> QED
        BY <2>2, <2>3
<1> QED
    BY <1>1, <1>2

LEMMA LessSame ==
    ASSUME NEW load, NEW was, NEW a, NEW b, load[a] = was[a], load[b] = was[b]
    PROVE  Less(load, a, b) <=> Less(was, a, b)
BY DEF Less

Loads(load) == \A t \in Targets : load[t] \in Nat

(* Relative loads are ordered: target_cmp is asymmetric, and not being     *)
(* less is transitive.                                                     *)
LEMMA LessOrder ==
    ASSUME NEW load, Loads(load), NEW a \in Targets, NEW b \in Targets, NEW c \in Targets
    PROVE  /\ Less(load, a, b) => ~Less(load, b, a)
           /\ ~Less(load, a, b) /\ ~Less(load, b, c) => ~Less(load, a, c)
<1> DEFINE x == load[a]
           y == load[b]
           z == load[c]
           A == MaxLoad[a]
           B == MaxLoad[b]
           C == MaxLoad[c]
<1>1. x \in Nat /\ y \in Nat /\ z \in Nat
    BY DEF Loads
<1>2. A \in Nat \ {0} /\ B \in Nat \ {0} /\ C \in Nat \ {0}
    BY CommSchedAssumption
<1>3. /\ Less(load, a, b) <=> x * B < y * A
      /\ Less(load, b, a) <=> y * A < x * B
      /\ Less(load, b, c) <=> y * C < z * B
      /\ Less(load, a, c) <=> x * C < z * A
    BY DEF Less
<1> HIDE DEF x, y, z, A, B, C
<1>4. /\ x * B \in Nat /\ y * A \in Nat /\ y * C \in Nat /\ z * B \in Nat
      /\ x * C \in Nat /\ z * A \in Nat
    BY <1>1, <1>2
<1>5. ASSUME ~(x * B < y * A), ~(y * C < z * B) PROVE ~(x * C < z * A)
    <2>1. ~((x * B) * C < (y * A) * C)
        BY <1>2, <1>4, <1>5, Scaled
    <2>2. ~((y * C) * A < (z * B) * A)
        BY <1>2, <1>4, <1>5, Scaled
    <2>3. (x * B) * C = (x * C) * B /\ (y * A) * C = (y * C) * A /\ (z * B) * A = (z * A) * B
        BY <1>1, <1>2
    <2>4. ~((x * C) * B < (z * A) * B)
        <3>1. /\ (x * C) * B \in Nat /\ (z * A) * B \in Nat /\ (y * A) * C \in Nat
            BY <1>2, <1>4
        <3> QED
            BY <2>1, <2>2, <2>3, <3>1
    <2> QED
        BY <1>2, <1>4, <2>4, Scaled
<1> QED
    BY <1>3, <1>4, <1>5

-----------------------------------------------------------------------------
(* The way of a target through the heap.                                   *)

LEMMA WayClosed ==
    ASSUME NEW D, NEW next \in [D -> D], NEW i \in D
    PROVE  i \in Way(next, i) /\ Way(next, i) \subseteq D /\ \A p \in Way(next, i) : next[p] \in Way(next, i)
<1>1. DOMAIN next = D
    OBVIOUS
<1>2. i \in Way(next, i) /\ Way(next, i) \subseteq D
    BY <1>1 DEF Way
<1>3. ASSUME NEW p \in Way(next, i) PROVE next[p] \in Way(next, i)
    <2>1. p \in D /\ next[p] \in D
        BY <1>2
    <2>2. ASSUME NEW S \in SUBSET D, i \in S, \A q \in S : next[q] \in S PROVE next[p] \in S
        BY <1>1, <2>2 DEF Way
    <2> QED
        BY <1>1, <2>1, <2>2 DEF Way
<1> QED
    BY <1>2, <1>3

LEMMA WayLeast ==
    ASSUME NEW D, NEW next \in [D -> D], NEW i \in D, NEW S, i \in S,
           \A q \in S \cap D : next[q] \in S
    PROVE  Way(next, i) \subseteq S
<1>1. DOMAIN next = D
    OBVIOUS
<1>2. S \cap D \in SUBSET D /\ i \in S \cap D /\ \A q \in S \cap D : next[q] \in S \cap D
    OBVIOUS
<1> QED
    BY <1>1, <1>2 DEF Way

LEMMA WayGoesOn ==
    ASSUME NEW D, NEW next \in [D -> D], NEW p \in D
    PROVE  Way(next, p) \subseteq {p} \cup Way(next, next[p])
<1>1. next[p] \in D
    OBVIOUS
<1>2. PICK S : S = {p} \cup Way(next, next[p])
    OBVIOUS
<1>3. p \in S /\ \A q \in S \cap D : next[q] \in S
    BY <1>1, <1>2, WayClosed
<1>4. Way(next, p) \subseteq S
    BY <1>3, WayLeast, Zenon
<1> QED
    BY <1>2, <1>4

LEMMA WayEnds ==
    ASSUME NEW D, NEW next \in [D -> D], NEW p \in D, next[p] = p
    PROVE  Way(next, p) = {p}
<1>1. Way(next, p) \subseteq {p}
    BY WayLeast
<1> QED
    BY <1>1, WayClosed

LEMMA WayLinear ==
    ASSUME NEW D, NEW next \in [D -> D], NEW i \in D,
           NEW p \in Way(next, i), NEW q \in Way(next, i)
    PROVE  p \in Way(next, q) \/ q \in Way(next, p)
<1>1. q \in D /\ p \in D
    BY WayClosed
<1> DEFINE S == {r \in D : r \in Way(next, q) \/ q \in Way(next, r)}
<1>2. i \in S
    OBVIOUS
<1>3. ASSUME NEW r \in S \cap D PROVE next[r] \in S
    <2>1. next[r] \in D
        OBVIOUS
    <2>2. CASE r \in Way(next, q)
        BY <1>1, <2>1, <2>2, WayClosed
    <2>3. CASE q \in Way(next, r)
        <3>1. q = r \/ q \in Way(next, next[r])
            BY <1>3, <2>3, WayGoesOn
        <3>2. CASE q = r
            BY <1>1, <2>1, <3>2, WayClosed
        <3>3. CASE q \in Way(next, next[r])
            BY <2>1, <3>3
        <3> QED
            BY <3>1, <3>2, <3>3
    <2> QED
        BY <1>3, <2>2, <2>3
<1> HIDE DEF S
<1>4. Way(next, i) \subseteq S
    BY <1>2, <1>3, WayLeast
<1> QED
    BY <1>4 DEF S

(* Ways that only go up, or only go down, in positions 1 .. n.             *)
Falls(next, n) == \A p \in 1 .. n : next[p] <= p
Rises(next, n) == \A p \in 1 .. n : next[p] >= p
Straight(next, n) == n \in Nat /\ next \in [1 .. n -> 1 .. n] /\ (Falls(next, n) \/ Rises(next, n))

LEMMA WayMonotone ==
    ASSUME NEW n, NEW next, Straight(next, n), NEW i \in 1 .. n, NEW p \in Way(next, i)
    PROVE  p \in 1 .. n /\ (Falls(next, n) => p <= i) /\ (Rises(next, n) => p >= i)
<1>1. p \in 1 .. n
    BY WayClosed DEF Straight
<1>2. ASSUME Falls(next, n) PROVE p <= i
    <2>1. n \in Nat /\ next \in [1 .. n -> 1 .. n]
        BY DEF Straight
    <2>2. PICK S : S = 1 .. i
        OBVIOUS
    <2>3. i \in S /\ \A q \in S \cap (1 .. n) : next[q] \in S
        BY <1>2, <2>1, <2>2 DEF Falls
    <2>4. Way(next, i) \subseteq S
        BY <2>1, <2>3, WayLeast
    <2> QED
        BY <2>1, <2>2, <2>4
<1>3. ASSUME Rises(next, n) PROVE p >= i
    <2>1. n \in Nat /\ next \in [1 .. n -> 1 .. n]
        BY DEF Straight
    <2>2. \A q \in (i .. n) \cap (1 .. n) : next[q] \in i .. n
        BY <1>3, <2>1 DEF Rises
    <2>3. i \in i .. n
        BY <2>1
    <2>4. Way(next, i) \subseteq i .. n
        BY <2>1, <2>2, <2>3, WayLeast, Zenon
    <2> QED
        BY <2>1, <2>4
<1> QED
    BY <1>1, <1>2, <1>3

(* A place is not come back to, places are not shared, and there is one    *)
(* end.                                                                    *)
LEMMA WayOnce ==
    ASSUME NEW n, NEW next, Straight(next, n), NEW i \in 1 .. n,
           NEW p \in Way(next, i), NEW q \in Way(next, i), p # q,
           next[p] = next[q] \/ (next[p] = p /\ next[q] = q)
    PROVE  (next[p] = p \/ next[q] = q) /\ ~(next[p] = p /\ next[q] = q)
<1>1. n \in Nat /\ next \in [1 .. n -> 1 .. n] /\ p \in 1 .. n /\ q \in 1 .. n
    BY WayClosed DEF Straight
<1>2. p \in Way(next, q) \/ q \in Way(next, p)
    BY <1>1, WayLinear
<1>3. ~(next[p] = p /\ next[q] = q)
    <2> SUFFICES ASSUME next[p] = p, next[q] = q PROVE FALSE
        OBVIOUS
    <2>1. PICK D : D = 1 .. n
        OBVIOUS
    <2>2. next \in [D -> D] /\ p \in D /\ q \in D
        BY <1>1, <2>1
    <2>3. Way(next, p) = {p}
        BY <2>2, WayEnds
    <2>4. Way(next, q) = {q}
        BY <2>2, WayEnds
    <2> QED
        BY <1>2, <2>3, <2>4
<1>4. ASSUME NEW a \in 1 .. n, NEW b \in 1 .. n, a # b, next[a] = next[b], next[a] # a, next[b] # b,
             a \in Way(next, b)
      PROVE  FALSE
    <2>1. a \in Way(next, next[b])
        BY <1>1, <1>4, WayGoesOn
    <2>2. a \in Way(next, next[a]) /\ next[a] \in 1 .. n
        BY <1>1, <1>4, <2>1
    <2>3. (Falls(next, n) => a <= next[a]) /\ (Rises(next, n) => a >= next[a])
        BY <2>2, WayMonotone
    <2>4. next[a] <= a \/ next[a] >= a
        BY <2>2
    <2>5. (Falls(next, n) => next[a] <= a) /\ (Rises(next, n) => next[a] >= a)
        BY <1>4 DEF Falls, Rises
    <2>6. Falls(next, n) \/ Rises(next, n)
        BY DEF Straight
    <2>7. a \in Nat /\ next[a] \in Nat /\ next[a] # a
        BY <1>4, <2>2
    <2> QED
        BY <2>3, <2>5, <2>6, <2>7
<1> QED
    BY <1>1, <1>2, <1>3, <1>4

LEMMA WayCame ==
    ASSUME NEW n, NEW next, Straight(next, n), NEW i \in 1 .. n
    PROVE  \A p \in Way(next, i) : p # i => \E q \in Way(next, i) : next[q] = p /\ q # p
<1>1. PICK D : D = 1 .. n
    OBVIOUS
<1>2. next \in [D -> D] /\ i \in D
    BY <1>1 DEF Straight
<1>3. PICK W : W = Way(next, i)
    OBVIOUS
<1>4. i \in W /\ W \subseteq D /\ \A p \in W : next[p] \in W
    BY <1>2, <1>3, WayClosed
<1> SUFFICES ASSUME NEW p \in W, p # i, \A q \in W : next[q] = p => q = p PROVE FALSE
    BY <1>3
<1>5. PICK S : S = W \ {p}
    OBVIOUS
<1>6. i \in S /\ \A q \in S \cap D : next[q] \in S
    BY <1>4, <1>5
<1>7. W \subseteq S
    BY <1>2, <1>3, <1>6, WayLeast
<1> QED
    BY <1>5, <1>7

(* A set of natural numbers has a smallest element.                        *)
LEMMA SmallestOf ==
    ASSUME NEW T, T \subseteq Nat, T # {}
    PROVE  \E x \in T : \A y \in T : x <= y
<1> DEFINE R == {ss \in Nat \X Nat : ss[1] < ss[2]}
<1>1. IsWellFoundedOn(R, Nat)
    BY NatLessThanWellFounded DEF OpToRel
<1> HIDE DEF R
<1>2. PICK x \in T : \A y \in T : ~(<<y, x>> \in R)
    BY <1>1, WFMin
<1>3. ASSUME NEW y \in T PROVE x <= y
    <2>1. ~(<<y, x>> \in R) /\ x \in Nat /\ y \in Nat
        BY <1>2
    <2> QED
        BY <2>1 DEF R
<1> QED
    BY <1>3

LEMMA WayHasEnd ==
    ASSUME NEW n, NEW next, Straight(next, n), NEW i \in 1 .. n
    PROVE  \E p \in Way(next, i) : next[p] = p
<1>1. /\ n \in Nat /\ next \in [1 .. n -> 1 .. n] /\ i \in Way(next, i) /\ Way(next, i) \subseteq 1 .. n
      /\ \A p \in Way(next, i) : next[p] \in Way(next, i)
    BY WayClosed DEF Straight
<1>2. CASE Falls(next, n)
    <2>1. Way(next, i) \subseteq Nat /\ Way(next, i) # {}
        BY <1>1
    <2>2. PICK x \in Way(next, i) : \A y \in Way(next, i) : x <= y
        BY <2>1, SmallestOf
    <2>3. x <= next[x] /\ next[x] <= x /\ x \in Nat /\ next[x] \in Nat
        BY <1>1, <1>2, <2>2 DEF Falls
    <2> QED
        BY <2>2, <2>3
<1>3. CASE Rises(next, n)
    <2> DEFINE T == {k \in Nat : \E y \in Way(next, i) : y + k = n}
    <2>1. ASSUME NEW y \in Way(next, i) PROVE y \in 1 .. n /\ n - y \in T
        <3>1. y \in 1 .. n
            BY <1>1
        <3>2. n - y \in Nat /\ y + (n - y) = n
            BY <1>1, <3>1
        <3> QED
            BY <3>1, <3>2
    <2>2. T \subseteq Nat /\ T # {}
        BY <1>1, <2>1
    <2>3. PICK k \in T : \A l \in T : k <= l
        BY <2>2, SmallestOf
    <2>4. PICK x \in Way(next, i) : x + k = n /\ k \in Nat
        BY <2>3
    <2>5. next[x] \in 1 .. n /\ x \in 1 .. n /\ k <= n - next[x] /\ next[x] >= x
        BY <1>1, <1>3, <2>1, <2>3, <2>4 DEF Rises
    <2>6. next[x] = x
        BY <1>1, <2>4, <2>5
    <2> QED
        BY <2>4, <2>6
<1> QED
    BY <1>2, <1>3 DEF Straight

-----------------------------------------------------------------------------
(* Moving targets keeps them in the heap, each where its index says.       *)

Distinct(h) == \A p, q \in DOMAIN h : h[p] = h[q] => p = q

(* k and jx are the heap and the indices after a change of h and ix.       *)
SameTargets(h, n, ix, k, jx) ==
    /\ k \in Seq(Targets) /\ Len(k) = n /\ jx \in [Targets -> Nat]
    /\ \A p \in 1 .. n : jx[k[p]] = p
    /\ \A t \in Targets : (\E p \in 1 .. n : k[p] = t) <=> (\E p \in 1 .. n : h[p] = t)
    /\ \A t \in Targets : (\A p \in 1 .. n : h[p] # t) => jx[t] = ix[t]

LEMMA Rearranged ==
    ASSUME NEW h \in Seq(Targets), NEW n, n = Len(h), Distinct(h),
           NEW next, Straight(next, n), NEW i \in 1 .. n,
           NEW ix \in [Targets -> Nat], \A p \in (1 .. n) \ Way(next, i) : ix[h[p]] = p,
           NEW k, k = Moved(h, i, next), NEW jx, jx = Indexed(k, ix, Way(next, i))
    PROVE  /\ SameTargets(h, n, ix, k, jx)
           /\ jx[h[i]] \in Way(next, i) /\ next[jx[h[i]]] = jx[h[i]]
<1>1. /\ n \in Nat /\ DOMAIN h = 1 .. n /\ next \in [1 .. n -> 1 .. n]
      /\ \A p \in 1 .. n : h[p] \in Targets
    BY DEF Straight
<1>2. PICK W : W = Way(next, i)
    OBVIOUS
<1>3. W \subseteq 1 .. n /\ i \in W /\ \A p \in W : next[p] \in W
    BY <1>1, <1>2, WayClosed
<1>4. PICK src : src = [p \in 1 .. n |-> IF p \notin W THEN p
                                         ELSE IF next[p] = p THEN i ELSE next[p]]
    OBVIOUS
<1>5. \A p \in 1 .. n : /\ p \notin W => src[p] = p
                        /\ p \in W /\ next[p] = p => src[p] = i
                        /\ p \in W /\ next[p] # p => src[p] = next[p]
                        /\ src[p] \in 1 .. n /\ (src[p] \in W <=> p \in W)
    BY <1>1, <1>3, <1>4
<1>6. k \in [1 .. n -> Targets] /\ \A p \in 1 .. n : k[p] = h[src[p]]
    <2>1. k = [p \in 1 .. n |-> h[src[p]]]
        BY <1>1, <1>2, <1>4 DEF Moved
    <2> QED
        BY <1>1, <1>5, <2>1
<1>7. ASSUME NEW p \in 1 .. n, NEW q \in 1 .. n, src[p] = src[q] PROVE p = q
    <2>1. p \in W <=> q \in W
        BY <1>5, <1>7
    <2>2. CASE p \notin W
        BY <1>5, <1>7, <2>1, <2>2
    <2>3. ASSUME NEW a \in W, NEW b \in W, next[a] = a, next[b] # b PROVE next[b] # i
        <3>1. /\ Falls(next, n) => b <= i
              /\ Rises(next, n) => b >= i
            BY <1>2, <2>3, WayMonotone
        <3>2. b \in 1 .. n /\ next[b] \in 1 .. n
            BY <1>1, <1>3
        <3>3. (Falls(next, n) => next[b] <= b) /\ (Rises(next, n) => next[b] >= b)
            BY <3>2 DEF Falls, Rises
        <3>4. Falls(next, n) \/ Rises(next, n)
            BY DEF Straight
        <3> QED
            BY <2>3, <3>1, <3>2, <3>3, <3>4
    <2>4. CASE p \in W
        <3>1. q \in W
            BY <2>1, <2>4
        <3>2. CASE next[p] = p /\ next[q] = q
            BY <1>2, <2>4, <3>1, <3>2, WayOnce
        <3>3. CASE next[p] # p /\ next[q] # q
            <4>1. next[p] = next[q]
                BY <1>5, <1>7, <2>4, <3>1, <3>3
            <4> QED
                BY <1>2, <2>4, <3>1, <3>3, <4>1, WayOnce
        <3>4. CASE next[p] = p /\ next[q] # q
            BY <1>5, <1>7, <2>3, <2>4, <3>1, <3>4
        <3>5. CASE next[p] # p /\ next[q] = q
            BY <1>5, <1>7, <2>3, <2>4, <3>1, <3>5
        <3> QED
            BY <3>2, <3>3, <3>4, <3>5
    <2> QED
        BY <2>2, <2>4
<1>8. ASSUME NEW q \in 1 .. n PROVE \E p \in 1 .. n : src[p] = q
    <2>1. CASE q \notin W
        BY <1>5, <2>1
    <2>2. CASE q = i
        BY <1>2, <1>3, <1>5, <2>2, WayHasEnd
    <2>3. CASE q \in W /\ q # i
        <3>1. PICK p \in Way(next, i) : next[p] = q /\ p # q
            BY <1>2, <2>3, WayCame
        <3> QED
            BY <1>2, <1>3, <1>5, <3>1
    <2> QED
        BY <2>1, <2>2, <2>3
<1>9. k \in Seq(Targets) /\ Len(k) = n
    <2>1. k \in [1 .. n -> Targets] /\ n \in Nat
        BY <1>1, <1>6
    <2> QED
        BY <2>1, SeqDef, LenProperties
<1>10. ASSUME NEW p \in 1 .. n, NEW q \in 1 .. n, k[p] = k[q] PROVE p = q
    <2>1. src[p] \in 1 .. n /\ src[q] \in 1 .. n /\ h[src[p]] = h[src[q]]
        BY <1>5, <1>6, <1>10
    <2>2. src[p] = src[q]
        BY <1>1, <2>1 DEF Distinct
    <2> QED
        BY <1>7, <2>2
<1>11. \A t \in Targets : (\E p \in 1 .. n : k[p] = t) <=> (\E p \in 1 .. n : h[p] = t)
    <2>1. \A p \in 1 .. n : k[p] = h[src[p]] /\ src[p] \in 1 .. n
        BY <1>5, <1>6
    <2>2. \A q \in 1 .. n : \E p \in 1 .. n : src[p] = q
        BY <1>8
    <2>3. ASSUME NEW t \in Targets, NEW q \in 1 .. n, h[q] = t PROVE \E p \in 1 .. n : k[p] = t
        <3>1. PICK p \in 1 .. n : src[p] = q
            BY <2>2
        <3>2. k[p] = t
            BY <2>1, <2>3, <3>1
        <3> QED
            BY <3>2
    <2>4. ASSUME NEW t \in Targets, NEW p \in 1 .. n, k[p] = t PROVE \E q \in 1 .. n : h[q] = t
        BY <2>1, <2>4
    <2> QED
        BY <2>3, <2>4
<1>12. /\ jx = [t \in Targets |-> IF \E p \in W : k[p] = t THEN CHOOSE p \in W : k[p] = t ELSE ix[t]]
    BY <1>2 DEF Indexed
<1>13. ASSUME NEW p \in 1 .. n PROVE jx[k[p]] = p
    <2>1. k[p] \in Targets
        BY <1>6
    <2>2. CASE p \in W
        <3>1. \A q \in W : k[q] = k[p] => q = p
            BY <1>3, <1>10
        <3>2. (CHOOSE q \in W : k[q] = k[p]) = p
            BY <2>2, <3>1
        <3> QED
            BY <1>12, <2>1, <2>2, <3>2
    <2>3. CASE p \notin W
        <3>1. ~\E q \in W : k[q] = k[p]
            BY <1>3, <1>10, <2>3
        <3>2. k[p] = h[p] /\ ix[h[p]] = p
            BY <1>2, <1>5, <1>6, <2>3
        <3> QED
            BY <1>12, <2>1, <3>1, <3>2
    <2> QED
        BY <2>2, <2>3
<1>14. ASSUME NEW t \in Targets, \A p \in 1 .. n : h[p] # t PROVE jx[t] = ix[t]
    <2>1. ~\E p \in 1 .. n : k[p] = t
        BY <1>11, <1>14
    <2>2. ~\E p \in W : k[p] = t
        BY <1>3, <2>1
    <2> QED
        BY <1>12, <2>2
<1>15. jx \in [Targets -> Nat]
    <2>1. \A t \in Targets : (\E p \in W : k[p] = t) => (CHOOSE p \in W : k[p] = t) \in W
        OBVIOUS
    <2>2. W \subseteq Nat
        BY <1>3
    <2> QED
        BY <1>12, <2>1, <2>2
<1>16. jx[h[i]] \in Way(next, i) /\ next[jx[h[i]]] = jx[h[i]]
    <2>1. PICK p \in Way(next, i) : next[p] = p
        BY WayHasEnd
    <2>2. p \in W /\ p \in 1 .. n /\ k[p] = h[i]
        BY <1>2, <1>3, <1>5, <1>6, <2>1
    <2>3. jx[h[i]] = p
        BY <1>13, <2>2
    <2> QED
        BY <2>1, <2>3
<1> QED
    BY <1>9, <1>11, <1>13, <1>14, <1>15, <1>16 DEF SameTargets

Rearranges(h, n, next, i, ix, k, jx) ==
    /\ h \in Seq(Targets) /\ n = Len(h) /\ Distinct(h)
    /\ Straight(next, n) /\ i \in 1 .. n
    /\ ix \in [Targets -> Nat] /\ \A p \in (1 .. n) \ Way(next, i) : ix[h[p]] = p
    /\ k = Moved(h, i, next) /\ jx = Indexed(k, ix, Way(next, i))

LEMMA RearrangedBy ==
    ASSUME NEW h, NEW n, NEW next, NEW i, NEW ix, NEW k, NEW jx,
           Rearranges(h, n, next, i, ix, k, jx)
    PROVE  SameTargets(h, n, ix, k, jx)
BY Rearranged DEF Rearranges

-----------------------------------------------------------------------------
(* The order of the heap.                                                  *)

Ordered(load, h, p) == ~Less(load, h[p], h[p \div 2])

LEMMA Halves ==
    ASSUME NEW p \in Nat, p > 1
    PROVE  p \div 2 \in Nat /\ p \div 2 >= 1 /\ p \div 2 < p /\ (p = 2 * (p \div 2) \/ p = 2 * (p \div 2) + 1)
OBVIOUS

GoingUp(load, h, i, n, next) ==
    /\ Straight(next, n) /\ Falls(next, n)
    /\ \A p \in 1 .. n : next[p] # p =>
           p > 1 /\ next[p] = p \div 2 /\ Less(load, h[i], h[p \div 2])
    /\ \A p \in 1 .. n : next[p] = p /\ p > 1 => ~Less(load, h[i], h[p \div 2])

LEMMA GoesUp ==
    ASSUME NEW load, NEW h \in Seq(Targets), NEW n, n = Len(h), NEW i \in 1 .. n,
           NEW next, next = Up(load, h, i)
    PROVE  GoingUp(load, h, i, n, next)
<1>1. n \in Nat /\ DOMAIN h = 1 .. n
    OBVIOUS
<1>2. \A p \in 1 .. n : p > 1 => p \div 2 \in 1 .. n /\ p \div 2 < p
    BY <1>1, Halves
<1>3. next = [p \in 1 .. n |-> IF p > 1 /\ Less(load, h[i], h[p \div 2]) THEN p \div 2 ELSE p]
    BY <1>1 DEF Up
<1>4. \A p \in 1 .. n : next[p] = IF p > 1 /\ Less(load, h[i], h[p \div 2]) THEN p \div 2 ELSE p
    BY <1>3
<1>5. next \in [1 .. n -> 1 .. n]
    BY <1>2, <1>3
<1>6. Falls(next, n)
    BY <1>1, <1>2, <1>4 DEF Falls
<1>7. \A p \in 1 .. n : p > 1 => p \div 2 # p
    BY <1>1, <1>2
<1> QED
    BY <1>1, <1>4, <1>5, <1>6, <1>7 DEF Straight, GoingUp

(* heap_adjust puts the target at i right with those above it.             *)
LEMMA Climbed ==
    ASSUME NEW load, Loads(load), NEW h \in Seq(Targets), NEW n, n = Len(h), NEW i \in 1 .. n,
           \A p \in 2 .. n : p # i /\ p \div 2 # i => Ordered(load, h, p),
           \A p \in 2 .. n : p \div 2 = i /\ i > 1 => ~Less(load, h[p], h[i \div 2]),
           NEW k, k = HeapAdjust(load, h, i), NEW next, next = Up(load, h, i)
    PROVE  \A p \in 2 .. n :
               (p \div 2 = i /\ next[i] = i => Ordered(load, h, p)) => Ordered(load, k, p)
<1>1. n \in Nat /\ DOMAIN h = 1 .. n /\ \A p \in 1 .. n : h[p] \in Targets
    OBVIOUS
<1>2. /\ Straight(next, n) /\ Falls(next, n)
      /\ \A p \in 1 .. n : next[p] # p =>
             p > 1 /\ next[p] = p \div 2 /\ Less(load, h[i], h[p \div 2])
      /\ \A p \in 1 .. n : next[p] = p /\ p > 1 => ~Less(load, h[i], h[p \div 2])
    <2>1. GoingUp(load, h, i, n, next)
        BY GoesUp
    <2> QED
        BY <2>1 DEF GoingUp
<1>3. PICK W : W = Way(next, i)
    OBVIOUS
<1>4. /\ W \subseteq 1 .. n /\ i \in W /\ \A p \in W : next[p] \in W /\ p <= i
    <2>1. next \in [1 .. n -> 1 .. n]
        BY <1>2 DEF Straight
    <2> QED
        BY <1>2, <1>3, <2>1, WayClosed, WayMonotone
<1>5. \A p \in 1 .. n : k[p] = IF p \notin W THEN h[p] ELSE IF next[p] = p THEN h[i] ELSE h[next[p]]
    BY <1>1, <1>3 DEF HeapAdjust, Moved
<1>6. \A a, b \in Targets : Less(load, a, b) => ~Less(load, b, a)
    BY LessOrder
<1>7. \A a, b, c \in Targets : ~Less(load, a, b) /\ ~Less(load, b, c) => ~Less(load, a, c)
    BY LessOrder
<1> SUFFICES ASSUME NEW p \in 2 .. n, p \div 2 = i /\ next[i] = i => Ordered(load, h, p)
             PROVE  Ordered(load, k, p)
    OBVIOUS
<1>8. PICK q : q = p \div 2
    OBVIOUS
<1>9. p \in 1 .. n /\ p > 1 /\ q \in 1 .. n /\ q < p
    BY <1>1, <1>8, Halves
<1>10. q > 1 => q \div 2 \in 1 .. n /\ q \div 2 < q
    BY <1>1, <1>9, Halves
<1>11. /\ p # i /\ q # i => ~Less(load, h[p], h[q])
       /\ q > 1 /\ q < i => ~Less(load, h[q], h[q \div 2])
    <2>1. p # i /\ q # i => ~Less(load, h[p], h[q])
        BY <1>8 DEF Ordered
    <2>2. ASSUME q > 1, q < i PROVE ~Less(load, h[q], h[q \div 2])
        <3>1. q \in 2 .. n /\ q # i /\ q \div 2 # i
            BY <1>1, <1>9, <1>10, <2>2
        <3> QED
            BY <3>1 DEF Ordered
    <2> QED
        BY <2>1, <2>2
<1>12. CASE p \in W /\ q \in W
    <2>1. p \in Way(next, q) \/ q \in Way(next, p)
        <3>1. next \in [1 .. n -> 1 .. n]
            BY <1>2 DEF Straight
        <3> QED
            BY <1>3, <1>12, <3>1, WayLinear
    <2>2. next[p] = q
        <3> SUFFICES ASSUME next[p] = p PROVE FALSE
            BY <1>2, <1>8, <1>9
        <3>1. Way(next, p) = {p}
            BY <1>2, <1>9, WayEnds DEF Straight
        <3>2. p \in Way(next, q) => p <= q
            BY <1>2, <1>9, WayMonotone
        <3> QED
            BY <1>1, <1>9, <2>1, <3>1, <3>2
    <2>3. k[p] = h[q] /\ Less(load, h[i], h[q]) /\ q < i
        BY <1>1, <1>2, <1>4, <1>5, <1>8, <1>9, <1>12, <2>2
    <2>4. CASE next[q] = q
        <3>1. k[q] = h[i]
            BY <1>5, <1>9, <1>12, <2>4
        <3> QED
            BY <1>1, <1>6, <1>8, <1>9, <2>3, <3>1 DEF Ordered
    <2>5. CASE next[q] # q
        <3>1. k[q] = h[q \div 2] /\ q > 1
            BY <1>2, <1>5, <1>9, <1>12, <2>5
        <3> QED
            BY <1>8, <1>11, <2>3, <3>1 DEF Ordered
    <2> QED
        BY <2>4, <2>5
<1>13. CASE p \in W /\ q \notin W
    <2>1. next[p] = p
        BY <1>2, <1>4, <1>8, <1>9, <1>13
    <2>2. k[p] = h[i] /\ k[q] = h[q] /\ ~Less(load, h[i], h[q])
        BY <1>2, <1>5, <1>8, <1>9, <1>13, <2>1
    <2> QED
        BY <1>8, <2>2 DEF Ordered
<1>14. CASE p \notin W /\ q \in W
    <2>1. k[p] = h[p] /\ p # i
        BY <1>4, <1>5, <1>9, <1>14
    <2>2. CASE next[q] = q /\ q = i
        <3>1. k[q] = h[q]
            BY <1>5, <1>9, <1>14, <2>2
        <3> QED
            BY <1>8, <2>1, <2>2, <3>1 DEF Ordered
    <2>3. CASE next[q] = q /\ q # i
        <3>1. k[q] = h[i]
            BY <1>5, <1>9, <1>14, <2>3
        <3>2. PICK w \in W : next[w] = q /\ w # q
            BY <1>2, <1>3, <1>14, <2>3, WayCame
        <3>3. Less(load, h[i], h[q])
            BY <1>2, <1>4, <3>2
        <3>4. ~Less(load, h[p], h[q]) /\ ~Less(load, h[q], h[i])
            BY <1>1, <1>6, <1>9, <1>11, <2>1, <2>3, <3>3
        <3>5. ~Less(load, h[p], h[i])
            BY <1>1, <1>7, <1>9, <3>4
        <3> QED
            BY <1>8, <2>1, <3>1, <3>5 DEF Ordered
    <2>4. CASE next[q] # q /\ q = i
        <3>1. k[q] = h[q \div 2] /\ q > 1
            BY <1>2, <1>5, <1>9, <1>14, <2>4
        <3> QED
            BY <1>8, <2>1, <2>4, <3>1 DEF Ordered
    <2>5. CASE next[q] # q /\ q # i
        <3>1. k[q] = h[q \div 2] /\ q > 1
            BY <1>2, <1>5, <1>9, <1>14, <2>5
        <3>2. q < i
            BY <1>1, <1>4, <1>9, <1>14, <2>5
        <3>3. ~Less(load, h[p], h[q]) /\ ~Less(load, h[q], h[q \div 2])
            BY <1>11, <2>1, <2>5, <3>1, <3>2
        <3>4. ~Less(load, h[p], h[q \div 2])
            BY <1>1, <1>7, <1>9, <1>10, <3>1, <3>3
        <3> QED
            BY <1>8, <2>1, <3>1, <3>4 DEF Ordered
    <2> QED
        BY <2>2, <2>3, <2>4, <2>5
<1>15. CASE p \notin W /\ q \notin W
    <2>1. k[p] = h[p] /\ k[q] = h[q] /\ p # i /\ q # i
        BY <1>4, <1>5, <1>9, <1>15
    <2> QED
        BY <1>8, <1>11, <2>1 DEF Ordered
<1> QED
    BY <1>12, <1>13, <1>14, <1>15

GoingDown(load, h, i, n, next) ==
    /\ Straight(next, n) /\ Rises(next, n)
    /\ \A p \in 1 .. n : next[p] # p =>
           /\ next[p] \in 2 .. n /\ next[p] \div 2 = p /\ Less(load, h[next[p]], h[i])
           /\ \A s \in 2 .. n : s \div 2 = p => ~Less(load, h[s], h[next[p]])
    /\ \A p \in 1 .. n : next[p] = p =>
           \A s \in 2 .. n : s \div 2 = p => ~Less(load, h[s], h[i])

LEMMA GoesDown ==
    ASSUME NEW load, Loads(load), NEW h \in Seq(Targets), NEW n, n = Len(h), NEW i \in 1 .. n,
           NEW next, next = Down(load, h, i)
    PROVE  GoingDown(load, h, i, n, next)
<1>1. n \in Nat /\ DOMAIN h = 1 .. n /\ \A p \in 1 .. n : h[p] \in Targets
    OBVIOUS
<1>2. next = [p \in 1 .. n |->
                IF 2 * p + 1 <= n /\ Less(load, h[2 * p + 1], IF Less(load, h[2 * p], h[i]) THEN h[2 * p] ELSE h[i])
                THEN 2 * p + 1
                ELSE IF 2 * p <= n /\ Less(load, h[2 * p], h[i]) THEN 2 * p ELSE p]
    BY <1>1 DEF Down
<1>3. \A p \in 1 .. n : next[p] \in 1 .. n /\ next[p] >= p
    BY <1>1, <1>2
<1>4. Straight(next, n) /\ Rises(next, n)
    BY <1>1, <1>2, <1>3 DEF Straight, Rises
<1>5. \A a, b \in Targets : Less(load, a, b) => ~Less(load, b, a)
    BY LessOrder
<1>6. \A a, b, c \in Targets : ~Less(load, a, b) /\ ~Less(load, b, c) => ~Less(load, a, c)
    BY LessOrder
<1>7. ASSUME NEW p \in 1 .. n
      PROVE  /\ next[p] # p =>
                  /\ next[p] \in 2 .. n /\ next[p] \div 2 = p /\ Less(load, h[next[p]], h[i])
                  /\ \A s \in 2 .. n : s \div 2 = p => ~Less(load, h[s], h[next[p]])
             /\ next[p] = p => \A s \in 2 .. n : s \div 2 = p => ~Less(load, h[s], h[i])
    <2>1. PICK l : l = 2 * p
        OBVIOUS
    <2>2. PICK r : r = 2 * p + 1
        OBVIOUS
    <2>3. /\ l \in Nat /\ r \in Nat /\ p \in Nat /\ l # p /\ r # p /\ l > 1 /\ r > 1 /\ r = l + 1
          /\ l \div 2 = p /\ r \div 2 = p
        BY <1>1, <2>1, <2>2
    <2>4. \A s \in 2 .. n : s \div 2 = p => s = l \/ s = r
        BY <1>1, <2>1, <2>2, Halves
    <2>5. next[p] = IF r <= n /\ Less(load, h[r], IF Less(load, h[l], h[i]) THEN h[l] ELSE h[i])
                    THEN r
                    ELSE IF l <= n /\ Less(load, h[l], h[i]) THEN l ELSE p
        BY <1>2, <2>1, <2>2
    <2>6. h[i] \in Targets /\ (l <= n => h[l] \in Targets) /\ (r <= n => h[r] \in Targets /\ l <= n)
        BY <1>1, <2>3
    <2>7. CASE r <= n /\ Less(load, h[r], IF Less(load, h[l], h[i]) THEN h[l] ELSE h[i])
        <3>1. next[p] = r /\ r \in 2 .. n
            BY <1>1, <2>3, <2>5, <2>7
        <3>2. Less(load, h[r], h[i]) /\ ~Less(load, h[l], h[r]) /\ ~Less(load, h[r], h[r])
            <4>1. CASE Less(load, h[l], h[i])
                BY <1>5, <1>6, <2>6, <2>7, <4>1
            <4>2. CASE ~Less(load, h[l], h[i])
                BY <1>5, <1>6, <2>6, <2>7, <4>2
            <4> QED
                BY <4>1, <4>2
        <3> QED
            BY <2>3, <2>4, <3>1, <3>2
    <2>8. CASE /\ ~(r <= n /\ Less(load, h[r], IF Less(load, h[l], h[i]) THEN h[l] ELSE h[i]))
               /\ l <= n /\ Less(load, h[l], h[i])
        <3>1. next[p] = l /\ l \in 2 .. n
            BY <1>1, <2>3, <2>5, <2>8
        <3>2. ~Less(load, h[l], h[l]) /\ (r <= n => ~Less(load, h[r], h[l]))
            BY <1>5, <2>6, <2>8
        <3> QED
            BY <1>1, <2>3, <2>4, <2>8, <3>1, <3>2
    <2>9. CASE /\ ~(r <= n /\ Less(load, h[r], IF Less(load, h[l], h[i]) THEN h[l] ELSE h[i]))
               /\ ~(l <= n /\ Less(load, h[l], h[i]))
        <3>1. next[p] = p
            BY <2>5, <2>9
        <3>2. (l <= n => ~Less(load, h[l], h[i])) /\ (r <= n => ~Less(load, h[r], h[i]))
            BY <2>6, <2>9
        <3> QED
            BY <1>1, <2>3, <2>4, <3>1, <3>2
    <2> QED
        BY <2>7, <2>8, <2>9
<1> QED
    BY <1>4, <1>7 DEF GoingDown

(* heapify puts the target at i right with those below it.                 *)
LEMMA Sunk ==
    ASSUME NEW load, Loads(load), NEW h \in Seq(Targets), NEW n, n = Len(h), NEW i \in 1 .. n,
           \A p \in 2 .. n : p \div 2 # i => Ordered(load, h, p),
           \A p \in 2 .. n : p \div 2 = i /\ i > 1 => ~Less(load, h[p], h[i \div 2]),
           NEW k, k = Heapify(load, h, i)
    PROVE  \A p \in 2 .. n : Ordered(load, k, p)
<1>1. n \in Nat /\ DOMAIN h = 1 .. n /\ \A p \in 1 .. n : h[p] \in Targets
    OBVIOUS
<1>2. PICK next : next = Down(load, h, i)
    OBVIOUS
<1>3. /\ Straight(next, n) /\ Rises(next, n)
      /\ \A p \in 1 .. n : next[p] # p =>
             /\ next[p] \in 2 .. n /\ next[p] \div 2 = p /\ Less(load, h[next[p]], h[i])
             /\ \A s \in 2 .. n : s \div 2 = p => ~Less(load, h[s], h[next[p]])
      /\ \A p \in 1 .. n : next[p] = p =>
             \A s \in 2 .. n : s \div 2 = p => ~Less(load, h[s], h[i])
    <2>1. GoingDown(load, h, i, n, next)
        BY <1>2, GoesDown
    <2> QED
        BY <2>1 DEF GoingDown
<1>4. PICK W : W = Way(next, i)
    OBVIOUS
<1>5. /\ W \subseteq 1 .. n /\ i \in W /\ \A p \in W : next[p] \in W /\ p >= i
    <2>1. next \in [1 .. n -> 1 .. n]
        BY <1>3 DEF Straight
    <2> QED
        BY <1>3, <1>4, <2>1, WayClosed, WayMonotone
<1>6. \A p \in 1 .. n : k[p] = IF p \notin W THEN h[p] ELSE IF next[p] = p THEN h[i] ELSE h[next[p]]
    BY <1>1, <1>2, <1>4 DEF Heapify, Moved
<1>7. \A a, b \in Targets : Less(load, a, b) => ~Less(load, b, a)
    BY LessOrder
<1> SUFFICES ASSUME NEW p \in 2 .. n PROVE Ordered(load, k, p)
    OBVIOUS
<1>8. PICK q : q = p \div 2
    OBVIOUS
<1>9. p \in 1 .. n /\ p > 1 /\ q \in 1 .. n /\ q < p
    BY <1>1, <1>8, Halves
<1>10. ASSUME p \in W, p # i PROVE q \in W /\ next[q] = p
    <2>1. PICK w \in W : next[w] = p /\ w # p
        BY <1>3, <1>4, <1>10, WayCame
    <2>2. w = q
        BY <1>3, <1>5, <1>8, <2>1
    <2> QED
        BY <2>1, <2>2
<1>11. CASE p \in W /\ q \in W
    <2>1. p # i
        BY <1>1, <1>5, <1>9, <1>11
    <2>2. next[q] = p /\ k[q] = h[p] /\ Less(load, h[p], h[i])
        <3>1. next[q] = p /\ next[q] # q
            BY <1>9, <1>10, <1>11, <2>1
        <3> QED
            BY <1>3, <1>6, <1>9, <1>11, <3>1
    <2>3. CASE next[p] = p
        <3>1. k[p] = h[i]
            BY <1>6, <1>9, <1>11, <2>3
        <3> QED
            BY <1>1, <1>7, <1>8, <1>9, <2>2, <3>1 DEF Ordered
    <2>4. CASE next[p] # p
        <3>1. k[p] = h[next[p]]
            BY <1>6, <1>9, <1>11, <2>4
        <3>2. Ordered(load, h, next[p]) /\ next[p] \div 2 = p
            BY <1>3, <1>9, <2>1, <2>4
        <3> QED
            BY <1>8, <2>2, <3>1, <3>2 DEF Ordered
    <2> QED
        BY <2>3, <2>4
<1>12. CASE p \in W /\ q \notin W
    <2>1. p = i /\ k[q] = h[q]
        BY <1>6, <1>9, <1>10, <1>12
    <2>2. CASE next[i] = i
        <3>1. k[p] = h[p]
            BY <1>6, <1>9, <1>12, <2>1, <2>2
        <3>2. Ordered(load, h, p)
            BY <1>8, <1>9, <2>1
        <3> QED
            BY <1>8, <2>1, <3>1, <3>2 DEF Ordered
    <2>3. CASE next[i] # i
        <3>1. k[p] = h[next[i]] /\ next[i] \in 2 .. n /\ next[i] \div 2 = i
            BY <1>3, <1>6, <1>9, <1>12, <2>1, <2>3
        <3>2. ~Less(load, h[next[i]], h[i \div 2])
            BY <1>9, <2>1, <3>1
        <3> QED
            BY <1>8, <2>1, <3>1, <3>2 DEF Ordered
    <2> QED
        BY <2>2, <2>3
<1>13. CASE p \notin W /\ q \in W
    <2>1. k[p] = h[p]
        BY <1>6, <1>9, <1>13
    <2>2. CASE next[q] = q
        <3>1. k[q] = h[i] /\ ~Less(load, h[p], h[i])
            BY <1>3, <1>6, <1>8, <1>9, <1>13, <2>2
        <3> QED
            BY <1>8, <2>1, <3>1 DEF Ordered
    <2>3. CASE next[q] # q
        <3>1. k[q] = h[next[q]] /\ ~Less(load, h[p], h[next[q]])
            BY <1>3, <1>6, <1>8, <1>9, <1>13, <2>3
        <3> QED
            BY <1>8, <2>1, <3>1 DEF Ordered
    <2> QED
        BY <2>2, <2>3
<1>14. CASE p \notin W /\ q \notin W
    <2>1. k[p] = h[p] /\ k[q] = h[q] /\ q # i
        BY <1>5, <1>6, <1>9, <1>14
    <2> QED
        BY <1>8, <2>1 DEF Ordered
<1> QED
    BY <1>11, <1>12, <1>13, <1>14

InHeapOrder(load, h, n) == \A p \in 2 .. n : Ordered(load, h, p)

(* The heap h is in order but for the target at i.                         *)
Displaced(load, h, i) ==
    /\ Loads(load) /\ i \in 1 .. Len(h)
    /\ \A p \in 2 .. Len(h) : p # i /\ p \div 2 # i => Ordered(load, h, p)
    /\ \A p \in 2 .. Len(h) : p \div 2 = i /\ i > 1 => ~Less(load, h[p], h[i \div 2])

RightAbove(load, h, i) == i > 1 => Ordered(load, h, i)
RightBelow(load, h, i) == \A p \in 2 .. Len(h) : p \div 2 = i => Ordered(load, h, p)

LEMMA Climbs ==
    ASSUME NEW load, NEW h \in Seq(Targets), NEW i, Displaced(load, h, i),
           NEW k, k = HeapAdjust(load, h, i), NEW next, next = Up(load, h, i)
    PROVE  /\ RightBelow(load, h, i) \/ next[i] # i => InHeapOrder(load, k, Len(h))
           /\ \A p \in 2 .. Len(h) : p \div 2 # i => Ordered(load, k, p)
<1>1. \A p \in 2 .. Len(h) :
          (p \div 2 = i /\ next[i] = i => Ordered(load, h, p)) => Ordered(load, k, p)
    BY Climbed DEF Displaced
<1> QED
    BY <1>1 DEF RightBelow, InHeapOrder

LEMMA Sinks ==
    ASSUME NEW load, NEW h \in Seq(Targets), NEW i, Displaced(load, h, i), RightAbove(load, h, i),
           NEW k, k = Heapify(load, h, i)
    PROVE  InHeapOrder(load, k, Len(h))
<1>1. Len(h) \in Nat /\ i \in 1 .. Len(h)
    BY DEF Displaced
<1>2. \A p \in 2 .. Len(h) : p \div 2 # i => Ordered(load, h, p)
    BY <1>1 DEF Displaced, RightAbove
<1>3. \A p \in 2 .. Len(h) : Ordered(load, k, p)
    BY <1>2, Sunk DEF Displaced
<1> QED
    BY <1>3 DEF InHeapOrder

LEMMA SameOrder ==
    ASSUME NEW h \in Seq(Targets), NEW load, NEW was, \A t \in Targets : load[t] = was[t],
           InHeapOrder(was, h, Len(h))
    PROVE  InHeapOrder(load, h, Len(h))
<1> SUFFICES ASSUME NEW p \in 2 .. Len(h) PROVE Ordered(load, h, p)
    BY DEF InHeapOrder
<1>1. p \in 1 .. Len(h) /\ p \div 2 \in 1 .. Len(h)
    BY Halves
<1>2. h[p] \in Targets /\ h[p \div 2] \in Targets
    BY <1>1
<1>3. Ordered(was, h, p)
    BY DEF InHeapOrder
<1> QED
    BY <1>2, <1>3, LessSame DEF Ordered

(* No target of a heap is less than the one at its top.                    *)
LEMMA TopIsLeast ==
    ASSUME NEW load, Loads(load), NEW h \in Seq(Targets), NEW n, n = Len(h),
           \A p \in 2 .. n : Ordered(load, h, p)
    PROVE  \A p \in 1 .. n : ~Less(load, h[p], h[1])
<1>1. n \in Nat /\ \A p \in 1 .. n : h[p] \in Targets
    OBVIOUS
<1> DEFINE T == {p \in 1 .. n : Less(load, h[p], h[1])}
<1> SUFFICES ASSUME T # {} PROVE FALSE
    OBVIOUS
<1>2. T \subseteq Nat
    OBVIOUS
<1>3. PICK x \in T : \A y \in T : x <= y
    BY <1>2, SmallestOf
<1>4. x \in 1 .. n /\ Less(load, h[x], h[1])
    OBVIOUS
<1>5. \A a, b \in Targets : Less(load, a, b) => ~Less(load, b, a)
    BY LessOrder
<1>6. x # 1 /\ 1 \in 1 .. n
    BY <1>1, <1>4, <1>5
<1>7. PICK q : q = x \div 2
    OBVIOUS
<1>8. x \in 2 .. n /\ q \in 1 .. n /\ q < x
    BY <1>1, <1>4, <1>6, <1>7, Halves
<1>9. ~Less(load, h[x], h[q])
    BY <1>7, <1>8 DEF Ordered
<1>10. ~Less(load, h[q], h[1])
    <2>1. q \notin T
        BY <1>1, <1>3, <1>4, <1>8
    <2> QED
        BY <1>8, <2>1
<1>11. h[x] \in Targets /\ h[q] \in Targets /\ h[1] \in Targets
    BY <1>1, <1>6, <1>8
<1> QED
    BY <1>4, <1>9, <1>10, <1>11, LessOrder

-----------------------------------------------------------------------------
(* The invariant, first what it says of the heaps.                         *)

(* Each member of a group is in its heap, where its index says; and there  *)
(* is nothing else in it.                                                  *)
Placed ==
    \A g \in Groups :
        /\ \A t \in Targets : group[t] = g => index[t] \in 1 .. Len(heap[g]) /\ heap[g][index[t]] = t
        /\ \A p \in 1 .. Len(heap[g]) : group[heap[g][p]] = g /\ index[heap[g][p]] = p

InOrder == \A g \in Groups : \A p \in 2 .. Len(heap[g]) : Ordered(cur, heap[g], p)

LEMMA LessMonotone ==
    ASSUME NEW load, Loads(load), NEW was, Loads(was), NEW a \in Targets, NEW b \in Targets,
           load[a] >= was[a], load[b] <= was[b], Less(load, a, b)
    PROVE  Less(was, a, b)
<1>1. PICK x, y, z, w, A, B :
          /\ x = load[a] /\ y = load[b] /\ z = was[a] /\ w = was[b]
          /\ A = MaxLoad[a] /\ B = MaxLoad[b]
    OBVIOUS
<1>2. x \in Nat /\ y \in Nat /\ z \in Nat /\ w \in Nat /\ A \in Nat \ {0} /\ B \in Nat \ {0}
    BY <1>1, CommSchedAssumption DEF Loads
<1>3. x * B < y * A
    BY <1>1 DEF Less
<1>4. ~(x < z) /\ ~(w < y)
    BY <1>1, <1>2
<1>5. ~(x * B < z * B)
    BY <1>2, <1>4, Scaled
<1>6. ~(w * A < y * A)
    BY <1>2, <1>4, Scaled
<1>7. x * B \in Nat /\ y * A \in Nat /\ z * B \in Nat /\ w * A \in Nat
    BY <1>2
<1>8. z * B < w * A
    BY <1>3, <1>5, <1>6, <1>7
<1> QED
    BY <1>1, <1>8 DEF Less

LEMMA Untouched ==
    ASSUME TypeOK, Placed, InOrder, heap' = heap, index' = index, group' = group,
           \A t \in Targets : group[t] \in Groups => cur'[t] = cur[t]
    PROVE  Placed' /\ InOrder'
<1>1. Placed'
    BY DEF Placed
<1>2. ASSUME NEW g \in Groups, NEW p \in 2 .. Len(heap[g]) PROVE Ordered(cur', heap[g], p)
    <2>1. heap[g] \in Seq(Targets)
        BY DEF TypeOK
    <2>2. p \in 1 .. Len(heap[g]) /\ p \div 2 \in 1 .. Len(heap[g])
        BY <2>1, Halves
    <2>3. cur'[heap[g][p]] = cur[heap[g][p]] /\ cur'[heap[g][p \div 2]] = cur[heap[g][p \div 2]]
        BY <2>1, <2>2 DEF Placed
    <2>4. Ordered(cur, heap[g], p)
        BY DEF InOrder
    <2> QED
        BY <2>3, <2>4, LessSame DEF Ordered
<1>3. InOrder'
    BY <1>2 DEF InOrder, Ordered, Less
<1> QED
    BY <1>1, <1>3

(* The heap of g becomes k: what has to be shown of k and of the rest.     *)
Reheap(g, k) ==
    /\ heap' = [heap EXCEPT ![g] = k]
    /\ \A p \in 1 .. Len(k) : group'[k[p]] = g /\ index'[k[p]] = p
    /\ \A t \in Targets : group'[t] = g => \E p \in 1 .. Len(k) : k[p] = t
    /\ \A p \in 2 .. Len(k) : Ordered(cur', k, p)
    /\ \A t \in Targets : group[t] \in Groups \ {g} \/ group'[t] \in Groups \ {g} =>
           group'[t] = group[t] /\ index'[t] = index[t] /\ cur'[t] = cur[t]

LEMMA Reheaped ==
    ASSUME TypeOK, Placed, InOrder, NEW g \in Groups, NEW k \in Seq(Targets),
           Reheap(g, k)
    PROVE  heap' \in [Groups -> Seq(Targets)] /\ Placed' /\ InOrder'
<1> USE DEF Reheap
<1>1. /\ heap \in [Groups -> Seq(Targets)] /\ heap'[g] = k
      /\ \A f \in Groups \ {g} : heap'[f] = heap[f] /\ heap[f] \in Seq(Targets)
      /\ heap' \in [Groups -> Seq(Targets)]
    BY DEF TypeOK
<1>2. Placed'
    <2>1. ASSUME NEW f \in Groups, NEW t \in Targets, group'[t] = f
          PROVE  index'[t] \in 1 .. Len(heap'[f]) /\ heap'[f][index'[t]] = t
        <3>1. CASE f = g
            <4>1. PICK p \in 1 .. Len(k) : k[p] = t
                BY <2>1, <3>1
            <4> QED
                BY <1>1, <3>1, <4>1
        <3>2. CASE f # g
            <4>1. group[t] = f /\ index'[t] = index[t]
                BY <2>1, <3>2
            <4> QED
                BY <1>1, <3>2, <4>1 DEF Placed
        <3> QED
            BY <3>1, <3>2
    <2>2. ASSUME NEW f \in Groups, NEW p \in 1 .. Len(heap'[f])
          PROVE  group'[heap'[f][p]] = f /\ index'[heap'[f][p]] = p
        <3>1. CASE f = g
            BY <1>1, <3>1
        <3>2. CASE f # g
            <4>1. p \in 1 .. Len(heap[f]) /\ heap'[f] = heap[f] /\ heap[f] \in Seq(Targets)
                BY <1>1, <3>2
            <4>2. group[heap[f][p]] = f /\ index[heap[f][p]] = p /\ heap[f][p] \in Targets
                BY <4>1 DEF Placed
            <4> QED
                BY <3>2, <4>1, <4>2
        <3> QED
            BY <3>1, <3>2
    <2> QED
        BY <2>1, <2>2 DEF Placed
<1>3. ASSUME NEW f \in Groups, NEW p \in 2 .. Len(heap'[f]) PROVE Ordered(cur', heap'[f], p)
    <2>1. CASE f = g
        BY <1>1, <2>1
    <2>2. CASE f # g
        <3>1. heap'[f] = heap[f] /\ heap[f] \in Seq(Targets)
            BY <1>1, <2>2
        <3>2. p \in 2 .. Len(heap[f]) /\ p \in 1 .. Len(heap[f]) /\ p \div 2 \in 1 .. Len(heap[f])
            BY <3>1, Halves
        <3>3. \A r \in 1 .. Len(heap[f]) : cur'[heap[f][r]] = cur[heap[f][r]]
            BY <2>2, <3>1 DEF Placed
        <3>4. Ordered(cur, heap[f], p)
            BY <3>2 DEF InOrder
        <3>5. Ordered(cur', heap[f], p)
            BY <3>2, <3>3, <3>4, LessSame DEF Ordered
        <3> QED
            BY <3>1, <3>5
    <2> QED
        BY <2>1, <2>2
<1>4. InOrder'
    BY <1>3 DEF InOrder, Ordered, Less
<1> QED
    BY <1>1, <1>2, <1>4

(* What there is to know of the heap of one group.                         *)
LEMMA OneHeap ==
    ASSUME TypeOK, Placed, InOrder, NEW g \in Groups, NEW h, h = heap[g]
    PROVE  /\ h \in Seq(Targets) /\ Len(h) \in Nat /\ Distinct(h)
           /\ \A p \in 1 .. Len(h) : h[p] \in Targets /\ group[h[p]] = g /\ index[h[p]] = p
           /\ \A t \in Targets : group[t] = g => index[t] \in 1 .. Len(h) /\ h[index[t]] = t
           /\ \A p \in 2 .. Len(h) : Ordered(cur, h, p)
<1>1. h \in Seq(Targets) /\ Len(h) \in Nat /\ DOMAIN h = 1 .. Len(h)
    BY DEF TypeOK
<1>2. \A p \in 1 .. Len(h) : h[p] \in Targets /\ group[h[p]] = g /\ index[h[p]] = p
    BY <1>1 DEF Placed
<1>3. Distinct(h)
    BY <1>1, <1>2 DEF Distinct
<1>4. \A t \in Targets : group[t] = g => index[t] \in 1 .. Len(h) /\ h[index[t]] = t
    BY DEF Placed
<1>5. \A p \in 2 .. Len(h) : Ordered(cur, h, p)
    BY DEF InOrder
<1> QED
    BY <1>1, <1>2, <1>3, <1>4, <1>5

(* A child of i is not less than the parent of i.                          *)
LEMMA Grandparent ==
    ASSUME NEW load, Loads(load), NEW h \in Seq(Targets), NEW i \in 2 .. Len(h), NEW p \in 2 .. Len(h),
           p \div 2 = i, Ordered(load, h, p), Ordered(load, h, i)
    PROVE  ~Less(load, h[p], h[i \div 2])
<1>1. Len(h) \in Nat /\ i \div 2 \in 1 .. Len(h) /\ i \in 1 .. Len(h) /\ p \in 1 .. Len(h)
    BY Halves
<1>2. h[p] \in Targets /\ h[i] \in Targets /\ h[i \div 2] \in Targets
    BY <1>1
<1>3. ~Less(load, h[p], h[i]) /\ ~Less(load, h[i], h[i \div 2])
    BY DEF Ordered
<1> QED
    BY <1>2, <1>3, LessOrder

-----------------------------------------------------------------------------
(* The four operations on heaps.                                           *)

(* The heap of the group of t, with another load for t.                    *)
LEMMA Reloaded ==
    ASSUME TypeOK, Placed, InOrder, NEW g \in Groups, NEW t \in Targets, group[t] = g,
           NEW load, Loads(load), \A s \in Targets : s # t => load[s] = cur[s],
           NEW h, h = heap[g], NEW i, i = index[t]
    PROVE  /\ Displaced(load, h, i) /\ h[i] = t
           /\ load[t] >= cur[t] => RightAbove(load, h, i)
           /\ load[t] <= cur[t] => RightBelow(load, h, i)
<1>1. /\ h \in Seq(Targets) /\ Len(h) \in Nat
      /\ \A p \in 1 .. Len(h) : h[p] \in Targets /\ index[h[p]] = p
      /\ i \in 1 .. Len(h) /\ h[i] = t
      /\ \A p \in 2 .. Len(h) : Ordered(cur, h, p)
    BY OneHeap
<1>2. /\ Loads(load) /\ Loads(cur)
      /\ \A s \in Targets : s # t => load[s] = cur[s]
    BY DEF TypeOK, Objects, Loads
<1>3. \A p \in 1 .. Len(h) : p # i => load[h[p]] = cur[h[p]]
    BY <1>1, <1>2
<1>4. \A p \in 2 .. Len(h) : p \in 1 .. Len(h) /\ p \div 2 \in 1 .. Len(h) /\ p \div 2 < p
    BY <1>1, Halves
<1>5. ASSUME NEW p \in 2 .. Len(h), p # i, p \div 2 # i PROVE Ordered(load, h, p)
    <2>1. Ordered(cur, h, p)
        BY <1>1
    <2>2. load[h[p]] = cur[h[p]] /\ load[h[p \div 2]] = cur[h[p \div 2]]
        BY <1>3, <1>4, <1>5
    <2> QED
        BY <2>1, <2>2, LessSame DEF Ordered
<1>6. ASSUME NEW p \in 2 .. Len(h), p \div 2 = i, i > 1 PROVE ~Less(load, h[p], h[i \div 2])
    <2>1. i \in 2 .. Len(h)
        BY <1>1, <1>6
    <2>2. ~Less(cur, h[p], h[i \div 2])
        BY <1>1, <1>2, <1>6, <2>1, Grandparent
    <2>3. p \in 1 .. Len(h) /\ i \div 2 \in 1 .. Len(h) /\ p # i /\ i \div 2 # i
        BY <1>1, <1>4, <1>6, <2>1
    <2> QED
        BY <1>3, <2>2, <2>3, LessSame
<1>7. ASSUME load[t] >= cur[t], i > 1 PROVE Ordered(load, h, i)
    <2>1. i \in 2 .. Len(h)
        BY <1>1, <1>7
    <2>2. PICK q : q = i \div 2
        OBVIOUS
    <2>3. q \in 1 .. Len(h) /\ q # i
        BY <1>1, <1>4, <2>1, <2>2
    <2>4. ~Less(cur, h[i], h[q])
        BY <1>1, <2>1, <2>2 DEF Ordered
    <2>5. load[h[q]] = cur[h[q]] /\ load[h[i]] >= cur[h[i]] /\ h[q] \in Targets /\ h[i] \in Targets
        BY <1>1, <1>2, <1>3, <1>7, <2>3
    <2>6. cur[h[q]] \in Nat
        BY <1>2, <2>5 DEF Loads
    <2>7. ~Less(load, h[i], h[q])
        <3> SUFFICES ASSUME Less(load, h[i], h[q]) PROVE FALSE
            OBVIOUS
        <3>1. load[h[q]] <= cur[h[q]]
            BY <2>5, <2>6
        <3>2. Less(cur, h[i], h[q])
            BY <1>2, <2>5, <3>1, LessMonotone
        <3> QED
            BY <2>4, <3>2
    <2> QED
        BY <2>2, <2>7 DEF Ordered
<1>8. ASSUME load[t] <= cur[t], NEW p \in 2 .. Len(h), p \div 2 = i PROVE Ordered(load, h, p)
    <2>1. p \in 1 .. Len(h) /\ p # i
        BY <1>1, <1>4, <1>8
    <2>2. ~Less(cur, h[p], h[i])
        BY <1>1, <1>8 DEF Ordered
    <2>3. load[h[p]] = cur[h[p]] /\ load[h[i]] <= cur[h[i]] /\ h[p] \in Targets /\ h[i] \in Targets
        BY <1>1, <1>2, <1>3, <1>8, <2>1
    <2>4. cur[h[p]] \in Nat
        BY <1>2, <2>3 DEF Loads
    <2>5. ~Less(load, h[p], h[i])
        <3> SUFFICES ASSUME Less(load, h[p], h[i]) PROVE FALSE
            OBVIOUS
        <3>1. load[h[p]] >= cur[h[p]]
            BY <2>3, <2>4
        <3>2. Less(cur, h[p], h[i])
            BY <1>2, <2>3, <3>1, LessMonotone
        <3> QED
            BY <2>2, <3>2
    <2> QED
        BY <1>8, <2>5 DEF Ordered
<1> QED
    BY <1>1, <1>2, <1>5, <1>6, <1>7, <1>8 DEF Displaced, RightAbove, RightBelow

(* The heap of the group of t after a move that puts the order right.      *)
Moves(g, t, next, load, k) ==
    /\ Straight(next, Len(heap[g]))
    /\ k = Moved(heap[g], index[t], next)
    /\ heap' = [heap EXCEPT ![g] = k]
    /\ index' = Indexed(k, index, Way(next, index[t]))
    /\ group' = group
    /\ \A s \in Targets : cur'[s] = load[s] /\ (s # t => cur'[s] = cur[s])
    /\ InHeapOrder(load, k, Len(heap[g]))

LEMMA MovedHeap ==
    ASSUME TypeOK, Placed, InOrder, NEW g \in Groups, NEW t \in Targets, group[t] = g,
           NEW next, NEW load, NEW k, Moves(g, t, next, load, k)
    PROVE  heap' \in [Groups -> Seq(Targets)] /\ index' \in [Targets -> Nat] /\ Placed' /\ InOrder'
<1>1. PICK h : h = heap[g]
    OBVIOUS
<1>2. PICK i : i = index[t]
    OBVIOUS
<1>3. PICK n : n = Len(h)
    OBVIOUS
<1>4. /\ h \in Seq(Targets) /\ n \in Nat /\ Distinct(h) /\ i \in 1 .. n /\ h[i] = t
      /\ \A p \in 1 .. n : h[p] \in Targets /\ group[h[p]] = g /\ index[h[p]] = p
      /\ \A s \in Targets : group[s] = g => index[s] \in 1 .. n /\ h[index[s]] = s
    BY <1>1, <1>2, <1>3, OneHeap
<1>5. \A p \in (1 .. n) \ Way(next, i) : index[h[p]] = p
    BY <1>4
<1>6. index \in [Targets -> Nat]
    BY DEF TypeOK
<1>7. Straight(next, n) /\ k = Moved(h, i, next) /\ index' = Indexed(k, index, Way(next, i))
    BY <1>1, <1>2, <1>3 DEF Moves
<1>8. /\ k \in Seq(Targets) /\ Len(k) = n /\ index' \in [Targets -> Nat]
      /\ \A p \in 1 .. n : index'[k[p]] = p
      /\ \A s \in Targets : (\E p \in 1 .. n : k[p] = s) <=> (\E p \in 1 .. n : h[p] = s)
      /\ \A s \in Targets : (\A p \in 1 .. n : h[p] # s) => index'[s] = index[s]
      /\ \A p \in 1 .. n : k[p] \in Targets
    <2>1. SameTargets(h, n, index, k, index')
        BY <1>3, <1>4, <1>5, <1>6, <1>7, Rearranged
    <2> QED
        BY <2>1 DEF SameTargets
<1>9. \A p \in 1 .. Len(k) : group'[k[p]] = g /\ index'[k[p]] = p
    <2> SUFFICES ASSUME NEW p \in 1 .. n PROVE group'[k[p]] = g /\ index'[k[p]] = p
        BY <1>8 DEF Moves
    <2>1. PICK r \in 1 .. n : h[r] = k[p]
        BY <1>8
    <2>2. group[h[r]] = g
        BY <1>4
    <2>3. group' = group
        BY DEF Moves
    <2> QED
        BY <1>8, <2>1, <2>2, <2>3
<1>10. \A s \in Targets : group'[s] = g => \E p \in 1 .. Len(k) : k[p] = s
    <2> SUFFICES ASSUME NEW s \in Targets, group[s] = g PROVE \E p \in 1 .. n : k[p] = s
        BY <1>8 DEF Moves
    <2>1. index[s] \in 1 .. n /\ h[index[s]] = s
        BY <1>4
    <2>2. \E p \in 1 .. n : h[p] = s
        BY <2>1
    <2> QED
        BY <1>8, <2>2
<1>11. \A s \in Targets : group[s] \in Groups \ {g} \/ group'[s] \in Groups \ {g} =>
           group'[s] = group[s] /\ index'[s] = index[s] /\ cur'[s] = cur[s]
    <2> SUFFICES ASSUME NEW s \in Targets, group[s] \in Groups \ {g}
                 PROVE  group'[s] = group[s] /\ index'[s] = index[s] /\ cur'[s] = cur[s]
        BY DEF Moves
    <2>1. \A p \in 1 .. n : h[p] # s
        BY <1>4
    <2>2. index'[s] = index[s]
        BY <1>8, <2>1
    <2>3. s # t
        OBVIOUS
    <2> QED
        BY <2>2, <2>3 DEF Moves
<1>12. \A p \in 2 .. Len(k) : Ordered(cur', k, p)
    <2>1. InHeapOrder(load, k, Len(k))
        BY <1>1, <1>3, <1>8 DEF Moves
    <2>2. InHeapOrder(cur', k, Len(k))
        BY <1>8, <2>1, SameOrder DEF Moves
    <2> QED
        BY <2>2 DEF InHeapOrder
<1>13. heap' \in [Groups -> Seq(Targets)] /\ Placed' /\ InOrder'
    <2>1. Reheap(g, k)
        BY <1>9, <1>10, <1>11, <1>12 DEF Reheap, Moves
    <2> QED
        BY <1>8, <2>1, Reheaped
<1> QED
    BY <1>8, <1>13

LEMMA LoadHeap ==
    ASSUME TypeOK, Placed, InOrder, NEW t \in Targets, Load(t), group' = group
    PROVE  /\ heap' \in [Groups -> Seq(Targets)] /\ index' \in [Targets -> Nat]
           /\ Placed' /\ InOrder'
<1>1. cur \in [Objects -> Nat] /\ group[t] \in Groups \cup {NoGroup} /\ cur[t] \in Nat
    BY DEF TypeOK, Objects
<1>2. CASE group[t] = NoGroup
    <2>1. cur' = [cur EXCEPT ![t] = @ + 1] /\ heap' = heap /\ index' = index
        BY <1>2 DEF Load
    <2>2. \A s \in Targets : group[s] \in Groups => cur'[s] = cur[s]
        BY <1>1, <1>2, <2>1, CommSchedAssumption DEF Objects
    <2>3. Placed' /\ InOrder'
        BY <2>1, <2>2, Untouched
    <2> QED
        BY <2>1, <2>3 DEF TypeOK
<1>3. CASE group[t] \in Groups
    <2>1. PICK g : g = group[t]
        OBVIOUS
    <2>2. PICK load : load = [cur EXCEPT ![t] = @ + 1]
        OBVIOUS
    <2>3. PICK h : h = heap[g]
        OBVIOUS
    <2>4. PICK i : i = index[t]
        OBVIOUS
    <2>5. PICK k : k = Heapify(load, h, i)
        OBVIOUS
    <2>6. PICK next : next = Down(load, h, i)
        OBVIOUS
    <2>7. g \in Groups /\ g # NoGroup /\ g \notin Targets
        BY <1>3, <2>1, CommSchedAssumption
    <2>8. /\ cur' = [load EXCEPT ![g] = @ + 1] /\ heap' = [heap EXCEPT ![g] = k]
          /\ index' = Indexed(k, index, Way(next, i))
        BY <2>1, <2>2, <2>3, <2>4, <2>5, <2>6, <2>7 DEF Load
    <2>9. load = [cur EXCEPT ![t] = cur[t] + 1] /\ cur[t] + 1 \in Nat /\ cur[t] + 1 >= cur[t]
        BY <1>1, <2>2
    <2>10. Displaced(load, h, i) /\ RightAbove(load, h, i)
        <3>1. Loads(load) /\ load[t] >= cur[t] /\ \A s \in Targets : s # t => load[s] = cur[s]
            BY <1>1, <2>9 DEF Loads, Objects
        <3> QED
            BY <2>1, <2>3, <2>4, <2>7, <3>1, Reloaded
    <2>11. h \in Seq(Targets)
        BY <2>3, <2>7, OneHeap
    <2>12. InHeapOrder(load, k, Len(h))
        BY <2>5, <2>10, <2>11, Sinks
    <2>13. Straight(next, Len(h))
        <3>1. GoingDown(load, h, i, Len(h), next)
            BY <2>6, <2>10, <2>11, GoesDown DEF Displaced
        <3> QED
            BY <3>1 DEF GoingDown
    <2>14. k = Moved(h, i, next)
        BY <2>5, <2>6 DEF Heapify
    <2>15. \A s \in Targets : cur'[s] = load[s] /\ (s # t => cur'[s] = cur[s])
        BY <1>1, <2>2, <2>7, <2>8 DEF Objects
    <2>16. Moves(g, t, next, load, k)
        BY <2>3, <2>4, <2>8, <2>12, <2>13, <2>14, <2>15 DEF Moves
    <2> QED
        BY <2>1, <2>7, <2>16, MovedHeap
<1> QED
    BY <1>1, <1>2, <1>3

(* Release, without the callers.                                           *)
LEMMA ReleaseHeap ==
    ASSUME TypeOK, Placed, InOrder, NEW c \in Callers, NEW t \in Targets, object[c] = t,
           Release(c), cur[t] > 0
    PROVE  /\ heap' \in [Groups -> Seq(Targets)] /\ index' \in [Targets -> Nat]
           /\ Placed' /\ InOrder'
<1>1. /\ cur \in [Objects -> Nat] /\ group[t] \in Groups \cup {NoGroup} /\ cur[t] \in Nat
      /\ group' = group
    BY DEF TypeOK, Objects, Release
<1>2. CASE group[t] = NoGroup
    <2>1. cur' = [cur EXCEPT ![t] = @ - 1] /\ heap' = heap /\ index' = index
        BY <1>2 DEF Release
    <2>2. \A s \in Targets : group[s] \in Groups => cur'[s] = cur[s]
        BY <1>1, <1>2, <2>1, CommSchedAssumption DEF Objects
    <2>3. Placed' /\ InOrder'
        BY <1>1, <2>1, <2>2, Untouched
    <2> QED
        BY <2>1, <2>3 DEF TypeOK
<1>3. CASE group[t] \in Groups
    <2>1. PICK g : g = group[t]
        OBVIOUS
    <2>2. PICK load : load = [cur EXCEPT ![t] = @ - 1]
        OBVIOUS
    <2>3. PICK h : h = heap[g]
        OBVIOUS
    <2>4. PICK i : i = index[t]
        OBVIOUS
    <2>5. PICK k : k = HeapAdjust(load, h, i)
        OBVIOUS
    <2>6. PICK next : next = Up(load, h, i)
        OBVIOUS
    <2>7. g \in Groups /\ g # NoGroup /\ g \notin Targets
        BY <1>3, <2>1, CommSchedAssumption
    <2>8. /\ cur' = [load EXCEPT ![g] = @ - 1] /\ heap' = [heap EXCEPT ![g] = k]
          /\ index' = Indexed(k, index, Way(next, i))
        BY <2>1, <2>2, <2>3, <2>4, <2>5, <2>6, <2>7 DEF Release
    <2>9. load = [cur EXCEPT ![t] = cur[t] - 1] /\ cur[t] - 1 \in Nat /\ cur[t] - 1 <= cur[t]
        BY <1>1, <2>2
    <2>10. Displaced(load, h, i) /\ RightBelow(load, h, i)
        <3>1. Loads(load) /\ load[t] <= cur[t] /\ \A s \in Targets : s # t => load[s] = cur[s]
            BY <1>1, <2>9 DEF Loads, Objects
        <3> QED
            BY <2>1, <2>3, <2>4, <2>7, <3>1, Reloaded
    <2>11. h \in Seq(Targets)
        BY <2>3, <2>7, OneHeap
    <2>12. InHeapOrder(load, k, Len(h))
        BY <2>5, <2>10, <2>11, Climbs
    <2>13. Straight(next, Len(h))
        <3>1. GoingUp(load, h, i, Len(h), next)
            BY <2>6, <2>10, <2>11, GoesUp DEF Displaced
        <3> QED
            BY <3>1 DEF GoingUp
    <2>14. k = Moved(h, i, next)
        BY <2>5, <2>6 DEF HeapAdjust
    <2>15. \A s \in Targets : cur'[s] = load[s] /\ (s # t => cur'[s] = cur[s])
        BY <1>1, <2>2, <2>7, <2>8 DEF Objects
    <2>16. Moves(g, t, next, load, k)
        BY <1>1, <2>3, <2>4, <2>8, <2>12, <2>13, <2>14, <2>15 DEF Moves
    <2> QED
        BY <2>1, <2>7, <2>16, MovedHeap
<1> QED
    BY <1>1, <1>2, <1>3

(* The heap h becomes k and the indices jx, for a group g whose members    *)
(* are now those in h.                                                     *)
Regroup(g, h, ix, k) ==
    /\ SameTargets(h, Len(h), ix, k, index')
    /\ heap' = [heap EXCEPT ![g] = k]
    /\ \A s \in Targets : group'[s] = g <=> \E p \in 1 .. Len(h) : h[p] = s
    /\ \A s \in Targets : group[s] \in Groups \ {g} \/ group'[s] \in Groups \ {g} =>
           group'[s] = group[s] /\ ix[s] = index[s]
    /\ \A s \in Targets : cur'[s] = cur[s]
    /\ InHeapOrder(cur, k, Len(h))

LEMMA Regrouped ==
    ASSUME TypeOK, Placed, InOrder, NEW g \in Groups, NEW h \in Seq(Targets), NEW k,
           NEW ix, Regroup(g, h, ix, k)
    PROVE  heap' \in [Groups -> Seq(Targets)] /\ index' \in [Targets -> Nat] /\ Placed' /\ InOrder'
<1> USE DEF Regroup
<1>1. PICK n : n = Len(h) /\ n \in Nat
    OBVIOUS
<1>2. /\ k \in Seq(Targets) /\ Len(k) = n /\ index' \in [Targets -> Nat]
      /\ \A p \in 1 .. n : index'[k[p]] = p
      /\ \A s \in Targets : (\E p \in 1 .. n : k[p] = s) <=> (\E p \in 1 .. n : h[p] = s)
      /\ \A s \in Targets : (\A p \in 1 .. n : h[p] # s) => index'[s] = ix[s]
    BY <1>1 DEF SameTargets
<1>3. \A p \in 1 .. n : k[p] \in Targets
    BY <1>2
<1>4. \A p \in 1 .. Len(k) : group'[k[p]] = g /\ index'[k[p]] = p
    <2> SUFFICES ASSUME NEW p \in 1 .. n PROVE group'[k[p]] = g /\ index'[k[p]] = p
        BY <1>2
    <2>1. k[p] \in Targets /\ index'[k[p]] = p
        BY <1>2, <1>3
    <2>2. \E r \in 1 .. n : h[r] = k[p]
        BY <1>2, <2>1
    <2>3. group'[k[p]] = g
        BY <1>1, <2>1, <2>2
    <2> QED
        BY <2>1, <2>3
<1>5. \A s \in Targets : group'[s] = g => \E p \in 1 .. Len(k) : k[p] = s
    BY <1>1, <1>2
<1>6. InHeapOrder(cur', k, Len(k))
    <2>1. InHeapOrder(cur, k, Len(k))
        BY <1>1, <1>2
    <2> QED
        BY <1>2, <2>1, SameOrder
<1>7. ASSUME NEW s \in Targets, group[s] \in Groups \ {g} \/ group'[s] \in Groups \ {g}
      PROVE  group'[s] = group[s] /\ index'[s] = index[s] /\ cur'[s] = cur[s]
    <2>1. group'[s] = group[s] /\ ix[s] = index[s] /\ group'[s] # g
        BY <1>7
    <2>2. \A p \in 1 .. n : h[p] # s
        BY <1>1, <2>1
    <2> QED
        BY <1>2, <2>1, <2>2
<1>8. Reheap(g, k)
    BY <1>4, <1>5, <1>6, <1>7 DEF Reheap, InHeapOrder
<1> QED
    BY <1>2, <1>8, Reheaped

LEMMA AddHeap ==
    ASSUME TypeOK, Placed, InOrder, NEW g \in Groups, NEW t \in Targets, Add(g, t)
    PROVE  /\ heap' \in [Groups -> Seq(Targets)] /\ index' \in [Targets -> Nat]
           /\ Placed' /\ InOrder'
<1>1. PICK old : old = heap[g]
    OBVIOUS
<1>2. PICK m : m = Len(old)
    OBVIOUS
<1>3. PICK h : h = Append(old, t)
    OBVIOUS
<1>4. PICK n : n = m + 1
    OBVIOUS
<1>5. PICK k : k = HeapAdjust(cur, h, n)
    OBVIOUS
<1>6. PICK next : next = Up(cur, h, n)
    OBVIOUS
<1>7. /\ old \in Seq(Targets) /\ m \in Nat /\ Distinct(old)
      /\ \A p \in 1 .. m : old[p] \in Targets /\ group[old[p]] = g /\ index[old[p]] = p
      /\ \A s \in Targets : group[s] = g => index[s] \in 1 .. m /\ old[index[s]] = s
      /\ \A p \in 2 .. m : Ordered(cur, old, p)
    BY <1>1, <1>2, OneHeap
<1>8. /\ h \in Seq(Targets) /\ Len(h) = n /\ n \in Nat /\ h[n] = t /\ n \in 1 .. n
      /\ \A p \in 1 .. m : h[p] = old[p]
      /\ \A p \in 1 .. n : p # n => p \in 1 .. m
    BY <1>2, <1>3, <1>4, <1>7
<1>9. /\ group[t] = NoGroup
      /\ heap' = [heap EXCEPT ![g] = k]
      /\ index' = Indexed(k, index, Way(next, n))
      /\ group' = [group EXCEPT ![t] = g]
      /\ cur' = [cur EXCEPT ![g] = @ + cur[t]]
    BY <1>1, <1>2, <1>3, <1>4, <1>5, <1>6, <1>8 DEF Add
<1>10. /\ group \in [Targets -> Groups \cup {NoGroup}] /\ index \in [Targets -> Nat]
       /\ cur \in [Objects -> Nat] /\ NoGroup # g /\ NoGroup \notin Groups /\ g \notin Targets
    BY CommSchedAssumption DEF TypeOK
<1>11. Distinct(h)
    <2>1. \A p \in 1 .. m : h[p] # t
        BY <1>7, <1>8, <1>9, <1>10
    <2>2. ASSUME NEW p \in 1 .. n, NEW q \in 1 .. n, h[p] = h[q] PROVE p = q
        <3>1. CASE p = n
            BY <1>8, <2>1, <2>2, <3>1
        <3>2. CASE q = n
            BY <1>8, <2>1, <2>2, <3>2
        <3>3. CASE p # n /\ q # n
            BY <1>7, <1>8, <2>2, <3>3
        <3> QED
            BY <3>1, <3>2, <3>3
    <2> QED
        BY <1>8, <2>2 DEF Distinct
<1>12. Displaced(cur, h, n) /\ RightBelow(cur, h, n)
    <2>1. Loads(cur)
        BY <1>10 DEF Loads, Objects
    <2>2. \A p \in 2 .. n : p \div 2 # n
        BY <1>8, Halves
    <2>3. ASSUME NEW p \in 2 .. n, p # n PROVE Ordered(cur, h, p)
        <3>1. p \in 2 .. m /\ p \in 1 .. m /\ p \div 2 \in 1 .. m
            BY <1>4, <1>7, <2>3, Halves
        <3>2. h[p] = old[p] /\ h[p \div 2] = old[p \div 2]
            BY <1>8, <3>1
        <3>3. Ordered(cur, old, p)
            BY <1>7, <3>1
        <3> QED
            BY <3>2, <3>3 DEF Ordered
    <2> QED
        BY <1>8, <2>1, <2>2, <2>3 DEF Displaced, RightBelow
<1>13. InHeapOrder(cur, k, Len(h))
    BY <1>5, <1>8, <1>12, Climbs
<1>14. Straight(next, n)
    <2>1. GoingUp(cur, h, n, n, next)
        BY <1>6, <1>8, GoesUp
    <2> QED
        BY <2>1 DEF GoingUp
<1>15. n \in Way(next, n)
    BY <1>8, <1>14, WayClosed DEF Straight
<1>16. \A p \in (1 .. n) \ Way(next, n) : index[h[p]] = p
    BY <1>7, <1>8, <1>15
<1>17. SameTargets(h, Len(h), index, k, index')
    <2>1. k = Moved(h, n, next)
        BY <1>5, <1>6 DEF HeapAdjust
    <2> QED
        BY <1>8, <1>9, <1>10, <1>11, <1>14, <1>16, <2>1, Rearranged
<1>18. \A s \in Targets : group'[s] = g <=> \E p \in 1 .. Len(h) : h[p] = s
    <2> SUFFICES ASSUME NEW s \in Targets PROVE group'[s] = g <=> \E p \in 1 .. n : h[p] = s
        BY <1>8
    <2>1. CASE s = t
        BY <1>8, <1>9, <1>10, <2>1
    <2>2. CASE s # t
        <3>1. group'[s] = group[s]
            BY <1>9, <1>10, <2>2
        <3>2. ASSUME group[s] = g PROVE \E p \in 1 .. n : h[p] = s
            <4>1. index[s] \in 1 .. m /\ old[index[s]] = s
                BY <1>7, <3>2
            <4>2. index[s] \in 1 .. n /\ h[index[s]] = s
                BY <1>4, <1>7, <1>8, <4>1
            <4> QED
                BY <4>2
        <3>3. ASSUME NEW p \in 1 .. n, h[p] = s PROVE group[s] = g
            BY <1>7, <1>8, <2>2, <3>3
        <3> QED
            BY <3>1, <3>2, <3>3
    <2> QED
        BY <2>1, <2>2
<1>19. \A s \in Targets : group[s] \in Groups \ {g} \/ group'[s] \in Groups \ {g} =>
           group'[s] = group[s] /\ index[s] = index[s]
    BY <1>9, <1>10
<1>20. \A s \in Targets : cur'[s] = cur[s]
    BY <1>9, <1>10 DEF Objects
<1>21. heap' \in [Groups -> Seq(Targets)] /\ index' \in [Targets -> Nat] /\ Placed' /\ InOrder'
    <2>1. Regroup(g, h, index, k)
        BY <1>9, <1>13, <1>17, <1>18, <1>19, <1>20 DEF Regroup
    <2> QED
        BY <1>8, <2>1, Regrouped
<1> QED
    BY <1>21

(* Climbing and then sinking, after the gap at i was filled.               *)
LEMMA Refilled ==
    ASSUME NEW load, NEW h \in Seq(Targets), Distinct(h), NEW n, n = Len(h), NEW i,
           Displaced(load, h, i),
           NEW ix \in [Targets -> Nat], \A p \in 1 .. n : p # i => ix[h[p]] = p,
           NEW a, a = HeapAdjust(load, h, i),
           NEW jx, jx = Indexed(a, ix, Way(Up(load, h, i), i)),
           NEW j, j = jx[h[i]],
           NEW k, k = Heapify(load, a, j),
           NEW lx, lx = Indexed(k, jx, Way(Down(load, a, j), j))
    PROVE  InHeapOrder(load, k, n) /\ SameTargets(h, n, ix, k, lx)
<1>1. n \in Nat /\ i \in 1 .. n /\ Loads(load) /\ \A p \in 1 .. n : h[p] \in Targets
    BY DEF Displaced
<1>2. PICK up : up = Up(load, h, i)
    OBVIOUS
<1>3. GoingUp(load, h, i, n, up)
    BY <1>1, <1>2, GoesUp
<1>4. Straight(up, n)
    BY <1>3 DEF GoingUp
<1>5. i \in Way(up, i)
    BY <1>1, <1>4, WayClosed DEF Straight
<1>6. \A p \in (1 .. n) \ Way(up, i) : ix[h[p]] = p
    BY <1>5
<1>7. SameTargets(h, n, ix, a, jx) /\ j \in Way(up, i) /\ up[j] = j
    <2>1. a = Moved(h, i, up) /\ jx = Indexed(a, ix, Way(up, i))
        BY <1>2 DEF HeapAdjust
    <2> QED
        BY <1>1, <1>4, <1>6, <2>1, Rearranged
<1>8. /\ a \in Seq(Targets) /\ Len(a) = n /\ jx \in [Targets -> Nat]
      /\ \A p \in 1 .. n : jx[a[p]] = p /\ a[p] \in Targets
      /\ \A t \in Targets : (\E p \in 1 .. n : a[p] = t) <=> (\E p \in 1 .. n : h[p] = t)
      /\ \A t \in Targets : (\A p \in 1 .. n : h[p] # t) => jx[t] = ix[t]
    BY <1>7 DEF SameTargets
<1>9. j \in 1 .. n
    BY <1>1, <1>4, <1>7, WayClosed DEF Straight
<1>10. Distinct(a)
    <2>1. DOMAIN a = 1 .. n
        BY <1>8
    <2> QED
        BY <1>8, <2>1 DEF Distinct
<1>11. /\ RightBelow(load, h, i) \/ up[i] # i => InHeapOrder(load, a, n)
       /\ \A p \in 2 .. n : p \div 2 # i => Ordered(load, a, p)
    BY <1>2, Climbs
<1>12. Displaced(load, a, j) /\ RightAbove(load, a, j)
    <2>1. CASE InHeapOrder(load, a, n)
        <3>1. ASSUME NEW p \in 2 .. n, p \div 2 = j, j > 1 PROVE ~Less(load, a[p], a[j \div 2])
            <4>1. j \in 2 .. n
                BY <1>1, <1>9, <3>1
            <4>2. Ordered(load, a, p) /\ Ordered(load, a, j)
                BY <2>1, <4>1 DEF InHeapOrder
            <4> QED
                BY <1>1, <1>8, <3>1, <4>1, <4>2, Grandparent
        <3>2. \A p \in 2 .. n : Ordered(load, a, p)
            BY <2>1 DEF InHeapOrder
        <3>3. j > 1 => Ordered(load, a, j)
            BY <1>1, <1>9, <3>2
        <3> QED
            BY <1>1, <1>8, <1>9, <3>1, <3>2, <3>3 DEF Displaced, RightAbove
    <2>2. CASE up[i] = i
        <3>1. Way(up, i) = {i}
            <4>1. PICK D : D = 1 .. n
                OBVIOUS
            <4>2. up \in [D -> D] /\ i \in D
                BY <1>1, <1>4, <4>1 DEF Straight
            <4> QED
                BY <2>2, <4>2, WayEnds, Zenon
        <3>2. j = i
            BY <1>7, <3>1
        <3>3. DOMAIN h = 1 .. n
            OBVIOUS
        <3>4. \A p \in 1 .. n : a[p] = h[p]
            BY <1>2, <2>2, <3>1, <3>3 DEF HeapAdjust, Moved
        <3>5. ASSUME NEW p \in 2 .. n, p \div 2 = j, j > 1 PROVE ~Less(load, a[p], a[j \div 2])
            <4>1. p \in 1 .. n /\ j \div 2 \in 1 .. n
                BY <1>1, <1>9, <3>5, Halves
            <4>2. ~Less(load, h[p], h[j \div 2])
                BY <3>2, <3>5 DEF Displaced
            <4> QED
                BY <3>4, <4>1, <4>2
        <3>6. \A p \in 2 .. n : p \div 2 # j => Ordered(load, a, p)
            BY <1>11, <3>2
        <3>7. j > 1 => j \in 2 .. n /\ j \div 2 # j
            BY <1>1, <1>9, Halves
        <3> QED
            BY <1>1, <1>8, <1>9, <3>5, <3>6, <3>7 DEF Displaced, RightAbove
    <2> QED
        BY <1>11, <2>1, <2>2
<1>13. InHeapOrder(load, k, n)
    BY <1>8, <1>12, Sinks
<1>14. PICK down : down = Down(load, a, j)
    OBVIOUS
<1>15. Straight(down, n)
    <2>1. GoingDown(load, a, j, n, down)
        BY <1>1, <1>8, <1>9, <1>14, GoesDown
    <2> QED
        BY <2>1 DEF GoingDown
<1>16. SameTargets(a, n, jx, k, lx)
    <2>1. k = Moved(a, j, down) /\ lx = Indexed(k, jx, Way(down, j))
        BY <1>14 DEF Heapify
    <2>2. \A p \in (1 .. n) \ Way(down, j) : jx[a[p]] = p
        BY <1>8
    <2> QED
        <3>1. Rearranges(a, n, down, j, jx, k, lx)
            BY <1>8, <1>9, <1>10, <1>15, <2>1, <2>2 DEF Rearranges
        <3> QED
            BY <3>1, RearrangedBy
<1>17. SameTargets(h, n, ix, k, lx)
    <2>1. /\ k \in Seq(Targets) /\ Len(k) = n /\ lx \in [Targets -> Nat]
          /\ \A p \in 1 .. n : lx[k[p]] = p
          /\ \A t \in Targets : (\E p \in 1 .. n : k[p] = t) <=> (\E p \in 1 .. n : a[p] = t)
          /\ \A t \in Targets : (\A p \in 1 .. n : a[p] # t) => lx[t] = jx[t]
        BY <1>16 DEF SameTargets
    <2>2. ASSUME NEW t \in Targets, \A p \in 1 .. n : h[p] # t PROVE lx[t] = ix[t]
        <3>1. jx[t] = ix[t] /\ \A p \in 1 .. n : a[p] # t
            BY <1>8, <2>2
        <3> QED
            BY <2>1, <3>1
    <2>3. \A t \in Targets : (\E p \in 1 .. n : k[p] = t) <=> (\E p \in 1 .. n : h[p] = t)
        BY <1>8, <2>1
    <2> QED
        BY <2>1, <2>2, <2>3 DEF SameTargets
<1> QED
    BY <1>13, <1>17

Refills(load, h, n, i, ix, k, lx) ==
    LET a == HeapAdjust(load, h, i)
        jx == Indexed(a, ix, Way(Up(load, h, i), i))
        j == jx[h[i]]
    IN  /\ h \in Seq(Targets) /\ Distinct(h) /\ n = Len(h) /\ Displaced(load, h, i)
        /\ ix \in [Targets -> Nat] /\ \A p \in 1 .. n : p # i => ix[h[p]] = p
        /\ k = Heapify(load, a, j)
        /\ lx = Indexed(k, jx, Way(Down(load, a, j), j))

LEMMA RefilledBy ==
    ASSUME NEW load, NEW h, NEW n, NEW i, NEW ix, NEW k, NEW lx,
           Refills(load, h, n, i, ix, k, lx)
    PROVE  InHeapOrder(load, k, n) /\ SameTargets(h, n, ix, k, lx)
<1>1. PICK a : a = HeapAdjust(load, h, i)
    OBVIOUS
<1>2. PICK jx : jx = Indexed(a, ix, Way(Up(load, h, i), i))
    OBVIOUS
<1>3. PICK j : j = jx[h[i]]
    OBVIOUS
<1>4. /\ h \in Seq(Targets) /\ Distinct(h) /\ n = Len(h) /\ Displaced(load, h, i)
      /\ ix \in [Targets -> Nat] /\ \A p \in 1 .. n : p # i => ix[h[p]] = p
    BY DEF Refills
<1>5. k = Heapify(load, a, j) /\ lx = Indexed(k, jx, Way(Down(load, a, j), j))
    BY <1>1, <1>2, <1>3 DEF Refills
<1> QED
    BY <1>1, <1>2, <1>3, <1>4, <1>5, Refilled

LEMMA RemoveHeap ==
    ASSUME TypeOK, Placed, InOrder, NEW g \in Groups, NEW t \in Targets, Remove(g, t)
    PROVE  /\ heap' \in [Groups -> Seq(Targets)] /\ index' \in [Targets -> Nat]
           /\ Placed' /\ InOrder'
<1>1. PICK old : old = heap[g]
    OBVIOUS
<1>2. PICK n : n = Len(old) - 1
    OBVIOUS
<1>3. PICK i : i = index[t]
    OBVIOUS
<1>4. PICK last : last = old[n + 1]
    OBVIOUS
<1>5. /\ group[t] = g
      /\ group' = [group EXCEPT ![t] = NoGroup]
      /\ cur' = [cur EXCEPT ![g] = @ - cur[t]]
    BY DEF Remove
<1>6. /\ old \in Seq(Targets) /\ Len(old) \in Nat
      /\ \A p \in 1 .. Len(old) : old[p] \in Targets /\ group[old[p]] = g /\ index[old[p]] = p
      /\ \A s \in Targets : group[s] = g => index[s] \in 1 .. Len(old) /\ old[index[s]] = s
      /\ \A p \in 2 .. Len(old) : Ordered(cur, old, p)
    BY <1>1, OneHeap
<1>7. n \in Nat /\ Len(old) = n + 1 /\ i \in 1 .. n + 1 /\ old[i] = t /\ last \in Targets /\ index[last] = n + 1
    BY <1>2, <1>3, <1>4, <1>5, <1>6
<1>8. /\ group \in [Targets -> Groups \cup {NoGroup}] /\ index \in [Targets -> Nat]
      /\ cur \in [Objects -> Nat] /\ NoGroup # g /\ NoGroup \notin Groups /\ g \notin Targets
      /\ Loads(cur)
    BY CommSchedAssumption DEF TypeOK, Loads, Objects
<1>9. \A s \in Targets : cur'[s] = cur[s]
    BY <1>5, <1>8 DEF Objects
<1>10. \A s \in Targets : group[s] \in Groups \ {g} \/ group'[s] \in Groups \ {g} =>
           group'[s] = group[s] /\ index[s] = index[s]
    BY <1>5, <1>8
<1>11. \A s \in Targets : group'[s] = g <=> s # t /\ group[s] = g
    BY <1>5, <1>8
<1>12. \A p \in 1 .. n : p \in 1 .. n + 1
    BY <1>7
<1>13. CASE i = n + 1
    <2>1. PICK h : h = SubSeq(old, 1, n)
        OBVIOUS
    <2>2. h \in Seq(Targets) /\ Len(h) = n /\ \A p \in 1 .. n : h[p] = old[p]
        BY <1>6, <1>7, <2>1
    <2>3. heap' = [heap EXCEPT ![g] = h] /\ index' = index
        BY <1>1, <1>2, <1>3, <1>13, <2>1 DEF Remove
    <2>4. SameTargets(h, Len(h), index, h, index')
        BY <1>6, <1>7, <1>8, <1>12, <2>2, <2>3 DEF SameTargets
    <2>5. ASSUME NEW p \in 2 .. n PROVE Ordered(cur, h, p)
        <3>1. p \in 2 .. n + 1 /\ p \in 1 .. n /\ p \div 2 \in 1 .. n
            BY <1>7, Halves
        <3>2. Ordered(cur, old, p)
            BY <1>6, <1>7, <3>1
        <3> QED
            BY <2>2, <3>1, <3>2 DEF Ordered
    <2>6. ASSUME NEW s \in Targets PROVE group'[s] = g <=> \E p \in 1 .. n : h[p] = s
        <3>1. ASSUME s # t, group[s] = g PROVE \E p \in 1 .. n : h[p] = s
            <4>1. index[s] \in 1 .. n + 1 /\ old[index[s]] = s
                BY <1>6, <1>7, <3>1
            <4>2. index[s] # n + 1
                BY <1>7, <1>13, <3>1, <4>1
            <4>3. index[s] \in 1 .. n
                BY <1>7, <4>1, <4>2
            <4> QED
                BY <2>2, <4>1, <4>3
        <3>2. ASSUME NEW p \in 1 .. n, h[p] = s PROVE s # t /\ group[s] = g
            <4>1. old[p] = s /\ p \in 1 .. n + 1 /\ p # i
                BY <1>7, <1>12, <1>13, <2>2, <3>2
            <4> QED
                BY <1>3, <1>6, <1>7, <4>1
        <3> QED
            BY <1>11, <3>1, <3>2
    <2>7. Regroup(g, h, index, h)
        BY <1>9, <1>10, <2>2, <2>3, <2>4, <2>5, <2>6 DEF Regroup, InHeapOrder
    <2> QED
        BY <2>2, <2>7, Regrouped
<1>14. CASE i # n + 1
    <2>1. PICK h : h = [SubSeq(old, 1, n) EXCEPT ![i] = last]
        OBVIOUS
    <2>2. i \in 1 .. n
        BY <1>7, <1>14
    <2>3. h \in Seq(Targets) /\ Len(h) = n /\ h[i] = last /\ \A p \in 1 .. n : p # i => h[p] = old[p]
        <3>1. PICK cut : cut = SubSeq(old, 1, n)
            OBVIOUS
        <3>2. cut \in Seq(Targets) /\ Len(cut) = n /\ \A p \in 1 .. n : cut[p] = old[p]
            BY <1>6, <1>7, <3>1
        <3>3. h = [cut EXCEPT ![i] = last]
            BY <2>1, <3>1
        <3>4. h \in [1 .. n -> Targets] /\ h[i] = last /\ \A p \in 1 .. n : p # i => h[p] = cut[p]
            BY <1>7, <2>2, <3>2, <3>3
        <3>5. h \in Seq(Targets) /\ Len(h) = n
            BY <1>7, <3>4, SeqDef, LenProperties
        <3> QED
            BY <3>2, <3>4, <3>5
    <2>4. \A p \in 1 .. n : index[h[p]] = IF p = i THEN n + 1 ELSE p
        BY <1>6, <1>7, <1>12, <2>3
    <2>5. Distinct(h)
        BY <1>7, <2>2, <2>3, <2>4 DEF Distinct
    <2>6. Displaced(cur, h, i)
        <3>1. ASSUME NEW p \in 2 .. n, p # i, p \div 2 # i PROVE Ordered(cur, h, p)
            <4>1. p \in 2 .. n + 1 /\ p \in 1 .. n /\ p \div 2 \in 1 .. n
                BY <1>7, Halves
            <4>2. Ordered(cur, old, p)
                BY <1>6, <1>7, <4>1
            <4>3. h[p] = old[p] /\ h[p \div 2] = old[p \div 2]
                BY <2>3, <3>1, <4>1
            <4> QED
                BY <4>2, <4>3 DEF Ordered
        <3>2. ASSUME NEW p \in 2 .. n, p \div 2 = i, i > 1 PROVE ~Less(cur, h[p], h[i \div 2])
            <4>1. /\ p \in 2 .. Len(old) /\ i \in 2 .. Len(old) /\ p \in 1 .. n /\ p # i
                  /\ i \div 2 \in 1 .. n /\ i \div 2 # i
                BY <1>7, <2>2, <3>2, Halves
            <4>2. ~Less(cur, old[p], old[i \div 2])
                BY <1>6, <1>8, <3>2, <4>1, Grandparent
            <4> QED
                BY <2>3, <4>1, <4>2
        <3> QED
            BY <1>8, <2>2, <2>3, <3>1, <3>2 DEF Displaced
    <2>7. PICK k : heap' = [heap EXCEPT ![g] = k] /\ Refills(cur, h, n, i, index, k, index')
        <3> DEFINE top == Len(heap[g]) - 1
                   end == heap[g][top + 1]
                   filled == [SubSeq(heap[g], 1, top) EXCEPT ![index[t]] = end]
                   a == HeapAdjust(cur, filled, index[t])
                   jx == Indexed(a, index, Way(Up(cur, filled, index[t]), index[t]))
                   k == Heapify(cur, a, jx[end])
        <3>1. index[t] # top + 1
            BY <1>1, <1>2, <1>3, <1>14
        <3>2. /\ heap' = [heap EXCEPT ![g] = k]
              /\ index' = Indexed(k, jx, Way(Down(cur, a, jx[end]), jx[end]))
            BY <3>1 DEF Remove
        <3>3. end = last /\ filled = h
            BY <1>1, <1>2, <1>3, <1>4, <2>1
        <3> HIDE DEF top, end, filled
        <3>4. /\ a = HeapAdjust(cur, h, i) /\ jx = Indexed(a, index, Way(Up(cur, h, i), i))
              /\ jx[end] = jx[h[i]] /\ k = Heapify(cur, a, jx[h[i]])
            BY <1>3, <2>3, <3>3
        <3> HIDE DEF a, jx, k
        <3>5. \A p \in 1 .. n : p # i => index[h[p]] = p
            BY <2>4
        <3>6. Refills(cur, h, n, i, index, k, index')
            BY <1>8, <2>3, <2>5, <2>6, <3>2, <3>4, <3>5 DEF Refills
        <3> QED
            BY <3>2, <3>6
    <2>8. InHeapOrder(cur, k, n) /\ SameTargets(h, n, index, k, index')
        BY <2>7, RefilledBy
    <2>9. ASSUME NEW s \in Targets PROVE group'[s] = g <=> \E p \in 1 .. n : h[p] = s
        <3>1. ASSUME s # t, group[s] = g PROVE \E p \in 1 .. n : h[p] = s
            <4>1. index[s] \in 1 .. n + 1 /\ old[index[s]] = s
                BY <1>6, <1>7, <3>1
            <4>2. CASE index[s] = n + 1
                BY <1>4, <2>2, <2>3, <4>1, <4>2
            <4>3. CASE index[s] # n + 1
                <5>1. index[s] \in 1 .. n /\ index[s] # i
                    BY <1>7, <3>1, <4>1, <4>3
                <5> QED
                    BY <2>3, <4>1, <5>1
            <4> QED
                BY <4>2, <4>3
        <3>2. ASSUME NEW p \in 1 .. n, h[p] = s PROVE s # t /\ group[s] = g
            <4>1. PICK r \in 1 .. n + 1 : old[r] = s /\ r # i
                BY <1>4, <1>7, <1>12, <1>14, <2>3, <3>2
            <4> QED
                BY <1>3, <1>6, <1>7, <4>1
        <3> QED
            BY <1>11, <3>1, <3>2
    <2>10. Regroup(g, h, index, k)
        BY <1>9, <1>10, <2>3, <2>7, <2>8, <2>9 DEF Regroup
    <2> QED
        BY <2>3, <2>10, Regrouped
<1> QED
    BY <1>13, <1>14

-----------------------------------------------------------------------------
(* Counting callers and slots.                                             *)

(* Who is counted in wait_cnt: those who wait and those who are woken and  *)
(* have not run yet.                                                       *)
Counted(o) == {c \in Callers : pc[c] \in {"waiting", "woken"} /\ object[c] = o}

WaitsCounted == \A o \in Objects : waitCnt[o] = Cardinality(Counted(o))

(* What a caller waits for, and what it uses.                              *)
CallersOK ==
    \A c \in Callers : /\ pc[c] = "using" => object[c] \in Targets
                       /\ pc[c] \in {"waiting", "woken"} => object[c] \in Objects

CommSchedInv ==
    /\ TypeOK
    /\ CallersOK
    /\ WaitsCounted
    /\ LoadsAddUp
    /\ Placed
    /\ InOrder
    /\ FreeSlotsNoticed

LEMMA CallerSets ==
    ASSUME NEW S, S \subseteq Callers
    PROVE  IsFiniteSet(S) /\ Cardinality(S) \in Nat /\ (S = {} <=> Cardinality(S) = 0)
<1>1. IsFiniteSet(S)
    BY CommSchedAssumption, FS_Subset
<1> QED
    BY <1>1, FS_CardinalityType, FS_EmptySet

LEMMA OneMore ==
    ASSUME NEW S, NEW T, S \subseteq Callers, NEW c \in Callers, c \notin S, T = S \cup {c}
    PROVE  Cardinality(T) = Cardinality(S) + 1 /\ Cardinality(S) \in Nat
BY CallerSets, FS_AddElement

LEMMA OneLess ==
    ASSUME NEW S, NEW T, S \subseteq Callers, NEW c \in S, T = S \ {c}
    PROVE  Cardinality(T) = Cardinality(S) - 1 /\ Cardinality(S) > 0 /\ Cardinality(S) \in Nat
<1>1. IsFiniteSet(S) /\ Cardinality(S) \in Nat /\ S # {}
    BY CallerSets
<1>2. Cardinality(S) # 0
    BY <1>1, FS_EmptySet
<1>3. Cardinality(S) > 0
    BY <1>1, <1>2
<1> QED
    BY <1>1, <1>3, FS_RemoveElement

LEMMA SlotsFinite ==
    ASSUME NEW M, M \subseteq Targets
    PROVE  IsFiniteSet(UNION {{t} \X (1 .. MaxLoad[t]) : t \in M})
<1> DEFINE S == {{t} \X (1 .. MaxLoad[t]) : t \in M}
           f == [t \in M |-> {t} \X (1 .. MaxLoad[t])]
<1>1. IsFiniteSet(M)
    BY CommSchedAssumption, FS_Subset
<1>2. f \in Surjection(M, S)
    BY DEF Surjection
<1>3. IsFiniteSet(S)
    <2> HIDE DEF f, S
    <2> QED
        BY <1>1, <1>2, FS_Surjection
<1>4. ASSUME NEW t \in M PROVE IsFiniteSet({t} \X (1 .. MaxLoad[t]))
    <2>1. 1 \in Int /\ MaxLoad[t] \in Int
        BY CommSchedAssumption
    <2>2. IsFiniteSet(1 .. MaxLoad[t]) /\ IsFiniteSet({t})
        BY <2>1, FS_Interval, FS_Singleton
    <2> QED
        BY <2>2, FS_Product
<1>5. \A T \in S : IsFiniteSet(T)
    BY <1>4
<1> HIDE DEF S
<1>6. IsFiniteSet(UNION S)
    BY <1>3, <1>5, FS_UNION
<1> QED
    BY <1>6 DEF S

SlotsOf(M) == UNION {{t} \X (1 .. MaxLoad[t]) : t \in M}

LEMMA OneMoreMember ==
    ASSUME NEW M, M \subseteq Targets, NEW t \in Targets, t \notin M
    PROVE  /\ Cardinality(SlotsOf(M \cup {t})) = Cardinality(SlotsOf(M)) + MaxLoad[t]
           /\ Cardinality(SlotsOf(M)) \in Nat
<1>1. PICK S : S = {t} \X (1 .. MaxLoad[t])
    OBVIOUS
<1>2. SlotsOf(M \cup {t}) = SlotsOf(M) \cup S
    BY <1>1 DEF SlotsOf
<1>3. SlotsOf(M) \cap S = {}
    BY <1>1 DEF SlotsOf
<1>4. IsFiniteSet(SlotsOf(M)) /\ Cardinality(SlotsOf(M)) \in Nat
    BY SlotsFinite, FS_CardinalityType DEF SlotsOf
<1>5. MaxLoad[t] \in Nat /\ MaxLoad[t] # 0
    BY CommSchedAssumption
<1>6. IsFiniteSet(S) /\ Cardinality(S) = MaxLoad[t]
    <2>1. IsFiniteSet(1 .. MaxLoad[t]) /\ Cardinality(1 .. MaxLoad[t]) = MaxLoad[t]
        <3>1. 1 \in Int /\ MaxLoad[t] \in Int /\ ~(1 > MaxLoad[t]) /\ MaxLoad[t] - 1 + 1 = MaxLoad[t]
            BY <1>5
        <3> QED
            BY <3>1, FS_Interval
    <2>2. IsFiniteSet({t}) /\ Cardinality({t}) = 1
        BY FS_Singleton
    <2>3. PICK A, B : A = {t} /\ B = 1 .. MaxLoad[t]
        OBVIOUS
    <2>4. S = A \X B /\ IsFiniteSet(A) /\ IsFiniteSet(B)
        BY <1>1, <2>1, <2>2, <2>3
    <2>5. IsFiniteSet(S) /\ Cardinality(S) = Cardinality(A) * Cardinality(B)
        BY <2>4, FS_Product
    <2>6. Cardinality(A) = 1 /\ Cardinality(B) = MaxLoad[t]
        BY <2>1, <2>2, <2>3
    <2>7. 1 * MaxLoad[t] = MaxLoad[t]
        BY <1>5
    <2> QED
        BY <2>5, <2>6, <2>7
<1>7. Cardinality(SlotsOf(M) \cup S) = Cardinality(SlotsOf(M)) + Cardinality(S) - Cardinality(SlotsOf(M) \cap S)
    BY <1>4, <1>6, FS_Union
<1>8. Cardinality(SlotsOf(M) \cap S) = 0
    BY <1>3, FS_EmptySet
<1>9. PICK x, y : x = Cardinality(SlotsOf(M)) /\ y = MaxLoad[t]
    OBVIOUS
<1>10. Cardinality(SlotsOf(M \cup {t})) = x + y - 0
    BY <1>2, <1>6, <1>7, <1>8, <1>9
<1>11. x \in Nat /\ y \in Nat /\ x + y - 0 = x + y
    BY <1>4, <1>5, <1>9
<1> QED
    BY <1>4, <1>9, <1>10, <1>11

(* A group whose members are all full is full.                             *)
LEMMA FullGroup ==
    ASSUME TypeOK, LoadsAddUp, NEW g \in Groups, \A t \in Targets : group[t] = g => cur[t] >= MaxLoad[t]
    PROVE  ~HasRoom(g)
<1>1. /\ cur[g] = Cardinality(UsingGroup(g)) /\ groupMax[g] = Cardinality(Slots(g))
      /\ ObjectMax(g) = groupMax[g]
    BY CommSchedAssumption DEF LoadsAddUp, ObjectMax
<1>2. ASSUME NEW t \in Members(g)
      PROVE  \E f \in [1 .. MaxLoad[t] -> Using(t)] : \A a, b \in 1 .. MaxLoad[t] : f[a] = f[b] => a = b
    <2>1. t \in Targets /\ cur[t] = MaxLoad[t] /\ cur[t] = Cardinality(Using(t))
        BY CommSchedAssumption DEF Members, LoadsAddUp, TypeOK, Objects
    <2>2. Using(t) \subseteq Callers
        BY DEF Using
    <2>3. ExistsBijection(1 .. Cardinality(Using(t)), Using(t))
        BY <2>2, CallerSets, FS_CardinalityType
    <2>4. PICK f : f \in Bijection(1 .. MaxLoad[t], Using(t))
        BY <2>1, <2>3 DEF ExistsBijection
    <2> QED
        BY <2>4 DEF Bijection, Injection, IsInjective
<1> DEFINE F(t) == CHOOSE f \in [1 .. MaxLoad[t] -> Using(t)] :
                       \A a, b \in 1 .. MaxLoad[t] : f[a] = f[b] => a = b
<1>3. \A t \in Members(g) : /\ F(t) \in [1 .. MaxLoad[t] -> Using(t)]
                            /\ \A a, b \in 1 .. MaxLoad[t] : F(t)[a] = F(t)[b] => a = b
    BY <1>2
<1> HIDE DEF F
<1> DEFINE G == [s \in Slots(g) |-> F(s[1])[s[2]]]
<1>4. \A s \in Slots(g) : s[1] \in Members(g) /\ s[2] \in 1 .. MaxLoad[s[1]] /\ s = <<s[1], s[2]>>
    BY DEF Slots
<1>5. \A s \in Slots(g) : G[s] \in Using(s[1])
    <2> SUFFICES ASSUME NEW s \in Slots(g) PROVE F(s[1])[s[2]] \in Using(s[1])
        OBVIOUS
    <2>1. PICK f : f = F(s[1])
        OBVIOUS
    <2>2. f \in [1 .. MaxLoad[s[1]] -> Using(s[1])] /\ s[2] \in 1 .. MaxLoad[s[1]]
        BY <1>3, <1>4, <2>1
    <2>3. f[s[2]] \in Using(s[1])
        BY <2>2
    <2> QED
        BY <2>1, <2>3
<1>6. G \in [Slots(g) -> UsingGroup(g)]
    <2>1. \A s \in Slots(g) : G[s] \in UsingGroup(g)
        BY <1>4, <1>5 DEF Using, UsingGroup
    <2> QED
        BY <2>1
<1>7. ASSUME NEW r \in Slots(g), NEW s \in Slots(g), G[r] = G[s] PROVE r = s
    <2>1. r[1] = s[1]
        BY <1>5, <1>7 DEF Using
    <2>2. F(r[1])[r[2]] = F(r[1])[s[2]]
        BY <1>7, <2>1
    <2>3. r[2] = s[2]
        BY <1>3, <1>4, <2>1, <2>2
    <2> QED
        BY <1>4, <2>1, <2>3
<1>8. G \in Injection(Slots(g), UsingGroup(g))
    BY <1>6, <1>7 DEF Injection, IsInjective
<1> HIDE DEF G
<1>9. IsFiniteSet(UsingGroup(g)) /\ Cardinality(UsingGroup(g)) \in Nat
    BY CallerSets DEF UsingGroup
<1>10. Cardinality(Slots(g)) <= Cardinality(UsingGroup(g)) /\ IsFiniteSet(Slots(g))
    BY <1>8, <1>9, FS_Injection
<1>11. Cardinality(Slots(g)) \in Nat
    BY <1>10, FS_CardinalityType
<1> QED
    BY <1>1, <1>9, <1>10, <1>11 DEF HasRoom

(* So the target at the top of the heap of a group with room has room.     *)
LEMMA GroupRoom ==
    ASSUME TypeOK, LoadsAddUp, Placed, InOrder, NEW g \in Groups, HasRoom(g)
    PROVE  Chosen(g) \in Targets /\ group[Chosen(g)] = g /\ HasRoom(Chosen(g))
<1>1. PICK h : h = heap[g]
    OBVIOUS
<1>2. PICK t \in Targets : group[t] = g /\ ~(cur[t] >= MaxLoad[t])
    BY FullGroup
<1>3. /\ h \in Seq(Targets) /\ Len(h) \in Nat
      /\ \A p \in 1 .. Len(h) : h[p] \in Targets /\ group[h[p]] = g /\ index[h[p]] = p
      /\ index[t] \in 1 .. Len(h) /\ h[index[t]] = t
      /\ \A p \in 2 .. Len(h) : Ordered(cur, h, p)
    BY <1>1, <1>2, OneHeap
<1>4. 1 \in 1 .. Len(h)
    BY <1>3
<1>5. PICK x : x = h[1]
    OBVIOUS
<1>6. x \in Targets /\ group[x] = g /\ Chosen(g) = x /\ HasRoom(x) <=> x \in Targets /\ group[x] = g /\ cur[x] < MaxLoad[x]
    BY <1>1, <1>3, <1>4, <1>5, CommSchedAssumption DEF Chosen, HasRoom, ObjectMax
<1>7. Loads(cur)
    BY DEF TypeOK, Objects, Loads
<1>8. ~Less(cur, t, x)
    BY <1>3, <1>5, <1>7, TopIsLeast
<1>9. cur[x] < MaxLoad[x]
    <2>1. PICK a, b, A, B : a = cur[t] /\ b = cur[x] /\ A = MaxLoad[t] /\ B = MaxLoad[x]
        OBVIOUS
    <2>2. a \in Nat /\ b \in Nat /\ A \in Nat \ {0} /\ B \in Nat \ {0}
        BY <1>3, <1>4, <1>5, <1>7, <2>1, CommSchedAssumption DEF Loads
    <2>3. ~(a * B < b * A) /\ a < A
        BY <1>2, <1>8, <2>1, <2>2 DEF Less
    <2>4. a * B < A * B
        BY <2>2, <2>3, Scaled
    <2>5. a * B \in Nat /\ b * A \in Nat /\ A * B \in Nat /\ B * A \in Nat /\ A * B = B * A
        BY <2>2
    <2>6. b * A < B * A
        BY <2>3, <2>4, <2>5
    <2>7. b < B
        BY <2>2, <2>6, Scaled
    <2> QED
        BY <2>1, <2>7
<1> QED
    BY <1>3, <1>4, <1>5, <1>6, <1>9

-----------------------------------------------------------------------------
(* A caller takes a slot: what Acquire, Resume and TimesOut share.         *)

LEMMA LoadFigures ==
    ASSUME TypeOK, NEW t \in Targets, Load(t)
    PROVE  /\ cur' \in [Objects -> Nat]
           /\ \A s \in Targets : cur'[s] = IF s = t THEN cur[s] + 1 ELSE cur[s]
           /\ \A g \in Groups : cur'[g] = IF g = group[t] THEN cur[g] + 1 ELSE cur[g]
<1>1. /\ cur \in [Objects -> Nat] /\ Objects = Targets \cup Groups /\ Targets \cap Groups = {}
      /\ NoGroup \notin Groups /\ group[t] \in Groups \cup {NoGroup}
    BY CommSchedAssumption DEF TypeOK, Objects
<1>2. PICK load : load = [cur EXCEPT ![t] = @ + 1]
    OBVIOUS
<1>3. /\ load \in [Objects -> Nat]
      /\ \A s \in Targets : load[s] = IF s = t THEN cur[s] + 1 ELSE cur[s]
      /\ \A g \in Groups : load[g] = cur[g]
    BY <1>1, <1>2
<1>4. CASE group[t] = NoGroup
    <2>1. cur' = load
        BY <1>2, <1>4 DEF Load
    <2> QED
        BY <1>1, <1>3, <1>4, <2>1
<1>5. CASE group[t] # NoGroup
    <2>1. PICK g : g = group[t] /\ g \in Groups /\ g \notin Targets
        BY <1>1, <1>5
    <2>2. cur' = [load EXCEPT ![g] = @ + 1]
        BY <1>2, <1>5, <2>1 DEF Load
    <2> QED
        BY <1>1, <1>3, <2>1, <2>2
<1> QED
    BY <1>4, <1>5

LEMMA SlotsSame ==
    ASSUME group' = group
    PROVE  \A g \in Groups : Slots(g)' = Slots(g)
BY DEF Slots, Members

LEMMA TakeStep ==
    ASSUME CommSchedInv, NEW c \in Callers, NEW o \in Objects, HasRoom(o), pc[c] # "using",
           Take(c, o)
    PROVE  /\ LoadsAddUp' /\ Placed' /\ InOrder' /\ CallersOK'
           /\ cur' \in [Objects -> Nat] /\ heap' \in [Groups -> Seq(Targets)] /\ index' \in [Targets -> Nat]
           /\ \A s \in Targets : cur'[s] >= cur[s] /\ (s = o => cur'[s] = cur[s] + 1)
<1>1. PICK t : t = Chosen(o)
    OBVIOUS
<1>2. t \in Targets /\ HasRoom(t) /\ (o \in Targets => t = o)
    <2>1. CASE o \in Targets
        BY <1>1, <2>1 DEF Chosen
    <2>2. CASE o \in Groups
        <3>1. o \notin Targets
            BY <2>2, CommSchedAssumption
        <3> QED
            BY <1>1, <2>2, <3>1, GroupRoom DEF CommSchedInv
    <2> QED
        BY <2>1, <2>2 DEF Objects
<1>3. /\ Load(t) /\ group' = group /\ groupMax' = groupMax
      /\ pc' = [pc EXCEPT ![c] = "using"] /\ object' = [object EXCEPT ![c] = t]
    BY <1>1 DEF Take
<1>4. TypeOK /\ LoadsAddUp /\ Placed /\ InOrder /\ CallersOK
    BY DEF CommSchedInv
<1>5. heap' \in [Groups -> Seq(Targets)] /\ index' \in [Targets -> Nat] /\ Placed' /\ InOrder'
    BY <1>2, <1>3, <1>4, LoadHeap
<1>6. /\ cur' \in [Objects -> Nat]
      /\ \A s \in Targets : cur'[s] = IF s = t THEN cur[s] + 1 ELSE cur[s]
      /\ \A g \in Groups : cur'[g] = IF g = group[t] THEN cur[g] + 1 ELSE cur[g]
    BY <1>2, <1>3, <1>4, LoadFigures
<1>7. /\ pc \in [Callers -> {"idle", "waiting", "woken", "using"}]
      /\ object \in [Callers -> Objects \cup {NoObject}]
      /\ \A s \in Targets : cur[s] \in Nat
    BY <1>4 DEF TypeOK, Objects
<1>8. /\ pc'[c] = "using" /\ object'[c] = t
      /\ \A d \in Callers : d # c => pc'[d] = pc[d] /\ object'[d] = object[d]
    BY <1>3, <1>7
<1>9. CallersOK'
    BY <1>2, <1>4, <1>8 DEF CallersOK
<1>10. ASSUME NEW s \in Targets PROVE cur'[s] = Cardinality(Using(s)') /\ cur'[s] <= MaxLoad[s]
    <2>1. cur[s] = Cardinality(Using(s)) /\ cur[s] <= MaxLoad[s] /\ Using(s) \subseteq Callers /\ c \notin Using(s)
        BY <1>4 DEF LoadsAddUp, Using
    <2>2. CASE s = t
        <3>1. Using(s)' = Using(s) \cup {c}
            BY <1>8, <2>2 DEF Using
        <3>2. Cardinality(Using(s)') = Cardinality(Using(s)) + 1
            BY <2>1, <3>1, OneMore
        <3>3. cur[t] < MaxLoad[t] /\ MaxLoad[t] \in Nat
            BY <1>2, CommSchedAssumption DEF HasRoom, ObjectMax
        <3> QED
            BY <1>6, <1>7, <2>1, <2>2, <3>2, <3>3
    <2>3. CASE s # t
        <3>1. Using(s)' = Using(s)
            BY <1>8, <2>1, <2>3 DEF Using
        <3> QED
            BY <1>6, <2>1, <2>3, <3>1
    <2> QED
        BY <2>2, <2>3
<1>11. ASSUME NEW g \in Groups PROVE cur'[g] = Cardinality(UsingGroup(g)') /\ groupMax'[g] = Cardinality(Slots(g)')
    <2>1. /\ cur[g] = Cardinality(UsingGroup(g)) /\ groupMax[g] = Cardinality(Slots(g))
          /\ UsingGroup(g) \subseteq Callers /\ c \notin UsingGroup(g)
        BY <1>4 DEF LoadsAddUp, UsingGroup
    <2>2. groupMax'[g] = Cardinality(Slots(g)')
        BY <1>3, <2>1, SlotsSame
    <2>3. CASE g = group[t]
        <3>1. UsingGroup(g)' = UsingGroup(g) \cup {c}
            BY <1>2, <1>3, <1>8, <2>3 DEF UsingGroup, Members
        <3>2. Cardinality(UsingGroup(g)') = Cardinality(UsingGroup(g)) + 1
            BY <2>1, <3>1, OneMore
        <3> QED
            BY <1>6, <2>1, <2>2, <2>3, <3>2
    <2>4. CASE g # group[t]
        <3>1. UsingGroup(g)' = UsingGroup(g)
            BY <1>2, <1>3, <1>8, <2>1, <2>4 DEF UsingGroup, Members
        <3> QED
            BY <1>6, <2>1, <2>2, <2>4, <3>1
    <2> QED
        BY <2>3, <2>4
<1>12. LoadsAddUp'
    BY <1>10, <1>11 DEF LoadsAddUp
<1>13. \A s \in Targets : cur'[s] >= cur[s] /\ (s = o => cur'[s] = cur[s] + 1)
    BY <1>2, <1>6, <1>7
<1> QED
    BY <1>5, <1>6, <1>9, <1>12, <1>13

(* A step that changes no load and no heap.                                *)
LEMMA QuietStep ==
    ASSUME CommSchedInv, cur' = cur, groupMax' = groupMax, group' = group, index' = index, heap' = heap,
           \A c \in Callers : /\ pc'[c] = "using" <=> pc[c] = "using"
                              /\ pc[c] = "using" => object'[c] = object[c]
    PROVE  LoadsAddUp' /\ Placed' /\ InOrder'
<1>1. Placed' /\ InOrder'
    BY Untouched DEF CommSchedInv
<1>2. \A t \in Targets : Using(t)' = Using(t)
    BY DEF Using
<1>3. \A g \in Groups : UsingGroup(g)' = UsingGroup(g) /\ Slots(g)' = Slots(g)
    BY SlotsSame DEF UsingGroup, Members
<1>4. LoadsAddUp'
    BY <1>2, <1>3 DEF CommSchedInv, LoadsAddUp
<1> QED
    BY <1>1, <1>4

-----------------------------------------------------------------------------
(* Those who wait.                                                         *)

Waits(c) == pc[c] \in {"waiting", "woken"}

LEMMA CountedSame ==
    ASSUME CommSchedInv, waitCnt' = waitCnt,
           \A c \in Callers : (Waits(c)' <=> Waits(c)) /\ (Waits(c) => object'[c] = object[c])
    PROVE  WaitsCounted'
<1>1. \A o \in Objects : Counted(o)' = Counted(o)
    BY DEF Counted, Waits
<1> QED
    BY <1>1 DEF CommSchedInv, WaitsCounted

LEMMA CountedEnters ==
    ASSUME CommSchedInv, NEW c \in Callers, NEW o \in Objects, waitCnt' = [waitCnt EXCEPT ![o] = @ + 1],
           ~Waits(c), Waits(c)', object'[c] = o,
           \A d \in Callers : d # c => pc'[d] = pc[d] /\ object'[d] = object[d]
    PROVE  WaitsCounted' /\ waitCnt' \in [Objects -> Nat]
<1>1. waitCnt \in [Objects -> Nat] /\ \A x \in Objects : waitCnt[x] = Cardinality(Counted(x))
    BY DEF CommSchedInv, TypeOK, WaitsCounted
<1>2. waitCnt' \in [Objects -> Nat]
    BY <1>1
<1>3. ASSUME NEW x \in Objects PROVE waitCnt'[x] = Cardinality(Counted(x)')
    <2>1. CASE x = o
        <3>1. Counted(x) \subseteq Callers /\ c \notin Counted(x) /\ Counted(x)' = Counted(x) \cup {c}
            BY <2>1 DEF Counted, Waits
        <3>2. Cardinality(Counted(x)') = Cardinality(Counted(x)) + 1
            BY <3>1, OneMore
        <3> QED
            BY <1>1, <2>1, <3>2
    <2>2. CASE x # o
        <3>1. Counted(x)' = Counted(x)
            BY <2>2 DEF Counted, Waits
        <3> QED
            BY <1>1, <2>2, <3>1
    <2> QED
        BY <2>1, <2>2
<1> QED
    BY <1>2, <1>3 DEF WaitsCounted

LEMMA CountedLeaves ==
    ASSUME CommSchedInv, NEW c \in Callers, NEW o \in Objects, waitCnt' = [waitCnt EXCEPT ![o] = @ - 1],
           Waits(c), ~Waits(c)', object[c] = o,
           \A d \in Callers : d # c => pc'[d] = pc[d] /\ object'[d] = object[d]
    PROVE  WaitsCounted' /\ waitCnt' \in [Objects -> Nat]
<1>1. waitCnt \in [Objects -> Nat] /\ \A x \in Objects : waitCnt[x] = Cardinality(Counted(x))
    BY DEF CommSchedInv, TypeOK, WaitsCounted
<1>2. ASSUME NEW x \in Objects PROVE waitCnt'[x] = Cardinality(Counted(x)') /\ waitCnt'[x] \in Nat
    <2>1. CASE x = o
        <3>1. Counted(x) \subseteq Callers /\ c \in Counted(x) /\ Counted(x)' = Counted(x) \ {c}
            BY <2>1 DEF Counted, Waits
        <3>2. Cardinality(Counted(x)') = Cardinality(Counted(x)) - 1 /\ Cardinality(Counted(x)) > 0
            BY <3>1, OneLess
        <3> QED
            BY <1>1, <2>1, <3>2
    <2>2. CASE x # o
        <3>1. Counted(x)' = Counted(x)
            BY <2>2 DEF Counted, Waits
        <3> QED
            BY <1>1, <2>2, <3>1
    <2> QED
        BY <2>1, <2>2
<1>3. waitCnt' \in [Objects -> Nat]
    BY <1>1, <1>2
<1> QED
    BY <1>2, <1>3 DEF WaitsCounted

(* No more free slots, no more waiters, no fewer woken.                    *)
LEMMA NoticedStill ==
    ASSUME CommSchedInv, cur' \in [Objects -> Nat],
           \A t \in Targets : /\ cur'[t] >= cur[t]
                              /\ Waiting(t)' \subseteq Waiting(t) /\ Woken(t) \subseteq Woken(t)'
    PROVE  FreeSlotsNoticed'
<1> SUFFICES ASSUME NEW t \in Targets, Waiting(t)' # {}
             PROVE  MaxLoad[t] - cur'[t] <= Cardinality(Woken(t)')
    BY DEF FreeSlotsNoticed
<1>1. /\ MaxLoad[t] \in Nat /\ cur[t] \in Nat /\ cur'[t] \in Nat
      /\ MaxLoad[t] - cur[t] <= Cardinality(Woken(t))
    BY CommSchedAssumption DEF CommSchedInv, TypeOK, Objects, FreeSlotsNoticed
<1>2. Woken(t) \subseteq Callers /\ Woken(t)' \subseteq Callers /\ Woken(t) \subseteq Woken(t)'
    BY DEF Woken
<1>3. Cardinality(Woken(t)) <= Cardinality(Woken(t)') /\ Cardinality(Woken(t)) \in Nat /\ Cardinality(Woken(t)') \in Nat
    <2>1. IsFiniteSet(Woken(t)') /\ Cardinality(Woken(t)) \in Nat /\ Cardinality(Woken(t)') \in Nat
        BY <1>2, CallerSets
    <2> QED
        BY <1>2, <2>1, FS_Subset
<1> QED
    BY <1>1, <1>3

LEMMA AcquireStep ==
    ASSUME CommSchedInv, NEW c \in Callers, NEW o \in Objects, Acquire(c, o)
    PROVE  CommSchedInv'
<1>1. HasRoom(o) /\ pc[c] = "idle" /\ Take(c, o) /\ waitCnt' = waitCnt
    BY DEF Acquire
<1>2. /\ LoadsAddUp' /\ Placed' /\ InOrder' /\ CallersOK'
      /\ cur' \in [Objects -> Nat] /\ heap' \in [Groups -> Seq(Targets)] /\ index' \in [Targets -> Nat]
      /\ \A s \in Targets : cur'[s] >= cur[s]
    BY <1>1, TakeStep
<1>3. TypeOK
    BY DEF CommSchedInv
<1>4. /\ pc'[c] = "using" /\ \A d \in Callers : d # c => pc'[d] = pc[d] /\ object'[d] = object[d]
    BY <1>1, <1>3 DEF Take, TypeOK
<1>5. Chosen(o) \in Targets
    BY <1>1, GroupRoom DEF CommSchedInv, Objects, Chosen
<1>6. TypeOK'
    BY <1>1, <1>2, <1>3, <1>5 DEF Take, TypeOK, Objects
<1>7. WaitsCounted'
    <2>1. \A d \in Callers : (Waits(d)' <=> Waits(d)) /\ (Waits(d) => object'[d] = object[d])
        BY <1>1, <1>4 DEF Waits
    <2> QED
        BY <1>1, <2>1, CountedSame
<1>8. FreeSlotsNoticed'
    <2>1. \A t \in Targets : Waiting(t)' \subseteq Waiting(t) /\ Woken(t) \subseteq Woken(t)'
        BY <1>1, <1>4 DEF Waiting, Woken
    <2> QED
        BY <1>2, <2>1, NoticedStill
<1> QED
    BY <1>2, <1>6, <1>7, <1>8 DEF CommSchedInv

LEMMA ResumeStep ==
    ASSUME CommSchedInv, NEW c \in Callers, Resume(c)
    PROVE  CommSchedInv'
<1>1. PICK o : o = object[c]
    OBVIOUS
<1>2. /\ HasRoom(o) /\ pc[c] = "woken" /\ Take(c, o) /\ o \in Objects
      /\ waitCnt' = [waitCnt EXCEPT ![o] = @ - 1]
    BY <1>1 DEF Resume, CommSchedInv, CallersOK
<1>3. /\ LoadsAddUp' /\ Placed' /\ InOrder' /\ CallersOK'
      /\ cur' \in [Objects -> Nat] /\ heap' \in [Groups -> Seq(Targets)] /\ index' \in [Targets -> Nat]
      /\ \A s \in Targets : cur'[s] >= cur[s] /\ (s = o => cur'[s] = cur[s] + 1)
    BY <1>2, TakeStep
<1>4. TypeOK
    BY DEF CommSchedInv
<1>5. /\ pc'[c] = "using" /\ \A d \in Callers : d # c => pc'[d] = pc[d] /\ object'[d] = object[d]
    BY <1>2, <1>4 DEF Take, TypeOK
<1>6. Chosen(o) \in Targets
    BY <1>2, GroupRoom DEF CommSchedInv, Objects, Chosen
<1>7. WaitsCounted' /\ waitCnt' \in [Objects -> Nat]
    <2>1. Waits(c) /\ ~Waits(c)'
        BY <1>2, <1>5 DEF Waits
    <2> QED
        BY <1>1, <1>2, <1>5, <2>1, CountedLeaves
<1>8. TypeOK'
    BY <1>2, <1>3, <1>4, <1>6, <1>7 DEF Take, TypeOK, Objects
<1>9. FreeSlotsNoticed'
    <2> SUFFICES ASSUME NEW t \in Targets, Waiting(t)' # {}
                 PROVE  MaxLoad[t] - cur'[t] <= Cardinality(Woken(t)')
        BY DEF FreeSlotsNoticed
    <2>1. Waiting(t) # {}
        BY <1>2, <1>5 DEF Waiting
    <2>2. /\ MaxLoad[t] \in Nat /\ cur[t] \in Nat /\ cur'[t] \in Nat
          /\ MaxLoad[t] - cur[t] <= Cardinality(Woken(t))
        BY <1>3, <2>1, CommSchedAssumption DEF CommSchedInv, TypeOK, Objects, FreeSlotsNoticed
    <2>3. Woken(t) \subseteq Callers
        BY DEF Woken
    <2>4. CASE t = o
        <3>1. c \in Woken(t) /\ Woken(t)' = Woken(t) \ {c}
            BY <1>1, <1>2, <1>5, <2>4 DEF Woken
        <3>2. Cardinality(Woken(t)') = Cardinality(Woken(t)) - 1 /\ Cardinality(Woken(t)) \in Nat
            BY <2>3, <3>1, OneLess
        <3>3. cur'[t] = cur[t] + 1
            BY <1>3, <2>4
        <3> QED
            BY <2>2, <3>2, <3>3
    <2>5. CASE t # o
        <3>1. Woken(t)' = Woken(t)
            BY <1>1, <1>2, <1>5, <2>5 DEF Woken
        <3>2. Cardinality(Woken(t)) \in Nat /\ cur'[t] >= cur[t]
            BY <1>3, <2>3, CallerSets
        <3> QED
            BY <2>2, <3>1, <3>2
    <2> QED
        BY <2>4, <2>5
<1> QED
    BY <1>3, <1>7, <1>8, <1>9 DEF CommSchedInv

LEMMA AcquireWaitsStep ==
    ASSUME CommSchedInv, NEW c \in Callers, NEW o \in Objects, NEW b \in BOOLEAN, AcquireWaits(c, o, b)
    PROVE  CommSchedInv'
<1>1. /\ pc[c] = "idle" /\ ~HasRoom(o) /\ waitCnt' = [waitCnt EXCEPT ![o] = @ + 1]
      /\ pc' = [pc EXCEPT ![c] = "waiting"] /\ object' = [object EXCEPT ![c] = o]
      /\ timed' = [timed EXCEPT ![c] = b]
      /\ cur' = cur /\ groupMax' = groupMax /\ group' = group /\ index' = index /\ heap' = heap
    BY DEF AcquireWaits
<1>2. TypeOK
    BY DEF CommSchedInv
<1>3. /\ pc'[c] = "waiting" /\ object'[c] = o
      /\ \A d \in Callers : d # c => pc'[d] = pc[d] /\ object'[d] = object[d]
    BY <1>1, <1>2 DEF TypeOK
<1>4. LoadsAddUp' /\ Placed' /\ InOrder'
    <2>1. \A d \in Callers : /\ pc'[d] = "using" <=> pc[d] = "using"
                             /\ pc[d] = "using" => object'[d] = object[d]
        BY <1>1, <1>3
    <2> QED
        BY <1>1, <2>1, QuietStep
<1>5. WaitsCounted' /\ waitCnt' \in [Objects -> Nat]
    <2>1. ~Waits(c) /\ Waits(c)'
        BY <1>1, <1>3 DEF Waits
    <2> QED
        BY <1>1, <1>3, <2>1, CountedEnters
<1>6. TypeOK'
    BY <1>1, <1>2, <1>5 DEF TypeOK
<1>7. CallersOK'
    BY <1>3 DEF CommSchedInv, CallersOK
<1>8. FreeSlotsNoticed'
    <2> SUFFICES ASSUME NEW t \in Targets, Waiting(t)' # {}
                 PROVE  MaxLoad[t] - cur'[t] <= Cardinality(Woken(t)')
        BY DEF FreeSlotsNoticed
    <2>1. Woken(t)' = Woken(t)
        BY <1>1, <1>3 DEF Woken
    <2>2. MaxLoad[t] \in Nat /\ cur[t] \in Nat /\ Cardinality(Woken(t)) \in Nat
        <3>1. Woken(t) \subseteq Callers
            BY DEF Woken
        <3> QED
            BY <1>2, <3>1, CallerSets, CommSchedAssumption DEF TypeOK, Objects
    <2>3. CASE t = o
        <3>1. ~(cur[t] < MaxLoad[t])
            BY <1>1, <2>3 DEF HasRoom, ObjectMax
        <3> QED
            BY <1>1, <2>1, <2>2, <3>1
    <2>4. CASE t # o
        <3>1. Waiting(t) # {}
            BY <1>1, <1>3, <2>4 DEF Waiting
        <3> QED
            BY <1>1, <2>1, <3>1 DEF CommSchedInv, FreeSlotsNoticed
    <2> QED
        BY <2>3, <2>4
<1> QED
    BY <1>4, <1>5, <1>6, <1>7, <1>8 DEF CommSchedInv

LEMMA ResumeWaitsStep ==
    ASSUME CommSchedInv, NEW c \in Callers, ResumeWaits(c)
    PROVE  CommSchedInv'
<1>1. /\ pc[c] = "woken" /\ ~HasRoom(object[c]) /\ waitCnt' = waitCnt
      /\ pc' = [pc EXCEPT ![c] = "waiting"] /\ object' = object /\ timed' = timed
      /\ cur' = cur /\ groupMax' = groupMax /\ group' = group /\ index' = index /\ heap' = heap
    BY DEF ResumeWaits, objVars
<1>2. TypeOK
    BY DEF CommSchedInv
<1>3. pc'[c] = "waiting" /\ \A d \in Callers : d # c => pc'[d] = pc[d]
    BY <1>1, <1>2 DEF TypeOK
<1>4. LoadsAddUp' /\ Placed' /\ InOrder'
    <2>1. \A d \in Callers : /\ pc'[d] = "using" <=> pc[d] = "using"
                             /\ pc[d] = "using" => object'[d] = object[d]
        BY <1>1, <1>3
    <2> QED
        BY <1>1, <2>1, QuietStep
<1>5. WaitsCounted'
    <2>1. \A d \in Callers : (Waits(d)' <=> Waits(d)) /\ (Waits(d) => object'[d] = object[d])
        BY <1>1, <1>3 DEF Waits
    <2> QED
        BY <1>1, <2>1, CountedSame
<1>6. TypeOK'
    BY <1>1, <1>2 DEF TypeOK
<1>7. CallersOK'
    BY <1>1, <1>3 DEF CommSchedInv, CallersOK
<1>8. FreeSlotsNoticed'
    <2> SUFFICES ASSUME NEW t \in Targets, Waiting(t)' # {}
                 PROVE  MaxLoad[t] - cur'[t] <= Cardinality(Woken(t)')
        BY DEF FreeSlotsNoticed
    <2>1. CASE t = object[c]
        <3>1. ~(cur[t] < MaxLoad[t])
            BY <1>1, <2>1 DEF HasRoom, ObjectMax
        <3>2. Woken(t)' \subseteq Callers
            BY DEF Woken
        <3>3. MaxLoad[t] \in Nat /\ cur[t] \in Nat /\ Cardinality(Woken(t)') \in Nat
            BY <1>2, <3>2, CallerSets, CommSchedAssumption DEF TypeOK, Objects
        <3> QED
            BY <1>1, <3>1, <3>3
    <2>2. CASE t # object[c]
        <3>1. Waiting(t) # {} /\ Woken(t)' = Woken(t)
            BY <1>1, <1>3, <2>2 DEF Waiting, Woken
        <3> QED
            BY <1>1, <3>1 DEF CommSchedInv, FreeSlotsNoticed
    <2> QED
        BY <2>1, <2>2
<1> QED
    BY <1>4, <1>5, <1>6, <1>7, <1>8 DEF CommSchedInv

LEMMA SpuriousWakeupStep ==
    ASSUME CommSchedInv, NEW c \in Callers, SpuriousWakeup(c)
    PROVE  CommSchedInv'
<1>1. /\ pc[c] = "waiting" /\ waitCnt' = waitCnt
      /\ pc' = [pc EXCEPT ![c] = "woken"] /\ object' = object /\ timed' = timed
      /\ cur' = cur /\ groupMax' = groupMax /\ group' = group /\ index' = index /\ heap' = heap
    BY DEF SpuriousWakeup, objVars
<1>2. TypeOK
    BY DEF CommSchedInv
<1>3. pc'[c] = "woken" /\ \A d \in Callers : d # c => pc'[d] = pc[d]
    BY <1>1, <1>2 DEF TypeOK
<1>4. LoadsAddUp' /\ Placed' /\ InOrder'
    <2>1. \A d \in Callers : /\ pc'[d] = "using" <=> pc[d] = "using"
                             /\ pc[d] = "using" => object'[d] = object[d]
        BY <1>1, <1>3
    <2> QED
        BY <1>1, <2>1, QuietStep
<1>5. WaitsCounted'
    <2>1. \A d \in Callers : (Waits(d)' <=> Waits(d)) /\ (Waits(d) => object'[d] = object[d])
        BY <1>1, <1>3 DEF Waits
    <2> QED
        BY <1>1, <2>1, CountedSame
<1>6. TypeOK'
    BY <1>1, <1>2 DEF TypeOK
<1>7. CallersOK'
    BY <1>1, <1>3 DEF CommSchedInv, CallersOK
<1>8. FreeSlotsNoticed'
    <2>1. \A t \in Targets : cur[t] \in Nat /\ Waiting(t)' \subseteq Waiting(t) /\ Woken(t) \subseteq Woken(t)'
        BY <1>1, <1>2, <1>3 DEF Waiting, Woken, TypeOK, Objects
    <2> QED
        BY <1>1, <1>2, <2>1, NoticedStill DEF TypeOK
<1> QED
    BY <1>4, <1>5, <1>6, <1>7, <1>8 DEF CommSchedInv

LEMMA TimesOutStep ==
    ASSUME CommSchedInv, NEW c \in Callers, TimesOut(c)
    PROVE  CommSchedInv'
<1>1. PICK o : o = object[c]
    OBVIOUS
<1>2. /\ pc[c] = "waiting" /\ o \in Objects
      /\ waitCnt' = [waitCnt EXCEPT ![o] = @ - 1]
    BY <1>1 DEF TimesOut, CommSchedInv, CallersOK
<1>3. TypeOK
    BY DEF CommSchedInv
<1>4. CASE HasRoom(o)
    <2>1. Take(c, o)
        BY <1>1, <1>4 DEF TimesOut
    <2>2. /\ LoadsAddUp' /\ Placed' /\ InOrder' /\ CallersOK'
          /\ cur' \in [Objects -> Nat] /\ heap' \in [Groups -> Seq(Targets)] /\ index' \in [Targets -> Nat]
          /\ \A s \in Targets : cur'[s] >= cur[s]
        BY <1>2, <1>4, <2>1, TakeStep
    <2>3. /\ pc'[c] = "using" /\ \A d \in Callers : d # c => pc'[d] = pc[d] /\ object'[d] = object[d]
        BY <1>3, <2>1 DEF Take, TypeOK
    <2>4. Chosen(o) \in Targets
        BY <1>2, <1>4, GroupRoom DEF CommSchedInv, Objects, Chosen
    <2>5. WaitsCounted' /\ waitCnt' \in [Objects -> Nat]
        <3>1. Waits(c) /\ ~Waits(c)'
            BY <1>2, <2>3 DEF Waits
        <3> QED
            BY <1>1, <1>2, <2>3, <3>1, CountedLeaves
    <2>6. TypeOK'
        BY <1>3, <2>1, <2>2, <2>4, <2>5 DEF Take, TypeOK, Objects
    <2>7. FreeSlotsNoticed'
        <3>1. \A t \in Targets : Waiting(t)' \subseteq Waiting(t) /\ Woken(t) \subseteq Woken(t)'
            BY <1>2, <2>3 DEF Waiting, Woken
        <3> QED
            BY <2>2, <3>1, NoticedStill
    <2> QED
        BY <2>2, <2>5, <2>6, <2>7 DEF CommSchedInv
<1>5. CASE ~HasRoom(o)
    <2>1. /\ pc' = [pc EXCEPT ![c] = "idle"] /\ object' = [object EXCEPT ![c] = NoObject]
          /\ timed' = [timed EXCEPT ![c] = FALSE]
          /\ cur' = cur /\ groupMax' = groupMax /\ group' = group /\ index' = index /\ heap' = heap
        BY <1>1, <1>5 DEF TimesOut
    <2>2. /\ pc'[c] = "idle" /\ \A d \in Callers : d # c => pc'[d] = pc[d] /\ object'[d] = object[d]
        BY <1>3, <2>1 DEF TypeOK
    <2>3. LoadsAddUp' /\ Placed' /\ InOrder'
        <3>1. \A d \in Callers : /\ pc'[d] = "using" <=> pc[d] = "using"
                                 /\ pc[d] = "using" => object'[d] = object[d]
            BY <1>2, <2>2
        <3> QED
            BY <2>1, <3>1, QuietStep
    <2>4. WaitsCounted' /\ waitCnt' \in [Objects -> Nat]
        <3>1. Waits(c) /\ ~Waits(c)'
            BY <1>2, <2>2 DEF Waits
        <3> QED
            BY <1>1, <1>2, <2>2, <3>1, CountedLeaves
    <2>5. TypeOK'
        BY <1>3, <2>1, <2>4 DEF TypeOK
    <2>6. CallersOK'
        BY <2>2 DEF CommSchedInv, CallersOK
    <2>7. FreeSlotsNoticed'
        <3>1. \A t \in Targets : cur[t] \in Nat /\ Waiting(t)' \subseteq Waiting(t) /\ Woken(t) \subseteq Woken(t)'
            BY <1>2, <1>3, <2>2 DEF Waiting, Woken, TypeOK, Objects
        <3> QED
            BY <1>3, <2>1, <3>1, NoticedStill DEF TypeOK
    <2> QED
        BY <2>3, <2>4, <2>5, <2>6, <2>7 DEF CommSchedInv
<1> QED
    BY <1>4, <1>5

(* A signal wakes at most one of those who wait.                           *)
LEMMA SignalEffect ==
    ASSUME TypeOK, NEW from \in [Callers -> {"idle", "waiting", "woken", "using"}], NEW o,
           \A d \in Callers : pc[d] = "waiting" => from[d] = "waiting",
           Signalled(o, from, pc')
    PROVE  /\ pc' \in [Callers -> {"idle", "waiting", "woken", "using"}]
           /\ \A d \in Callers : pc'[d] = from[d] \/ (from[d] = "waiting" /\ pc'[d] = "woken")
<1>1. CASE Waiting(o) = {}
    BY <1>1 DEF Signalled
<1>2. CASE Waiting(o) # {}
    <2>1. PICK d \in Waiting(o) : pc' = [from EXCEPT ![d] = "woken"]
        BY <1>2 DEF Signalled
    <2>2. d \in Callers /\ from[d] = "waiting"
        BY DEF Waiting
    <2> QED
        BY <2>1, <2>2
<1> QED
    BY <1>1, <1>2

LEMMA ReleaseFigures ==
    ASSUME TypeOK, NEW c \in Callers, NEW t \in Targets, object[c] = t, Release(c), cur[t] > 0,
           group[t] \in Groups => cur[group[t]] > 0
    PROVE  /\ cur' \in [Objects -> Nat]
           /\ \A s \in Targets : cur'[s] = IF s = t THEN cur[s] - 1 ELSE cur[s]
           /\ \A g \in Groups : cur'[g] = IF g = group[t] THEN cur[g] - 1 ELSE cur[g]
<1>1. /\ cur \in [Objects -> Nat] /\ Objects = Targets \cup Groups /\ Targets \cap Groups = {}
      /\ NoGroup \notin Groups /\ group[t] \in Groups \cup {NoGroup}
    BY CommSchedAssumption DEF TypeOK, Objects
<1>2. PICK load : load = [cur EXCEPT ![t] = @ - 1]
    OBVIOUS
<1>3. /\ load \in [Objects -> Nat]
      /\ \A s \in Targets : load[s] = IF s = t THEN cur[s] - 1 ELSE cur[s]
      /\ \A g \in Groups : load[g] = cur[g]
    <2>1. cur[t] - 1 \in Nat
        BY <1>1
    <2> QED
        BY <1>1, <1>2, <2>1
<1>4. CASE group[t] = NoGroup
    <2>1. cur' = load
        BY <1>2, <1>4 DEF Release
    <2> QED
        BY <1>1, <1>3, <1>4, <2>1
<1>5. CASE group[t] # NoGroup
    <2>1. PICK g : g = group[t] /\ g \in Groups /\ g \notin Targets
        BY <1>1, <1>5
    <2>2. cur' = [load EXCEPT ![g] = @ - 1]
        BY <1>2, <1>5, <2>1 DEF Release
    <2>3. load[g] - 1 \in Nat
        BY <1>1, <1>3, <2>1
    <2> QED
        BY <1>1, <1>3, <2>1, <2>2, <2>3
<1> QED
    BY <1>4, <1>5

LEMMA ReleaseStep ==
    ASSUME CommSchedInv, NEW c \in Callers, Release(c)
    PROVE  CommSchedInv'
<1>1. PICK t : t = object[c]
    OBVIOUS
<1>2. PICK left : left = [pc EXCEPT ![c] = "idle"]
    OBVIOUS
<1>3. TypeOK /\ CallersOK /\ WaitsCounted /\ LoadsAddUp /\ Placed /\ InOrder
    BY DEF CommSchedInv
<1>4. /\ pc[c] = "using" /\ t \in Targets /\ object' = [object EXCEPT ![c] = NoObject]
      /\ groupMax' = groupMax /\ waitCnt' = waitCnt /\ group' = group /\ timed' = timed
    BY <1>1, <1>3 DEF Release, CallersOK
<1>5. c \in Using(t) /\ Using(t) \subseteq Callers /\ cur[t] = Cardinality(Using(t)) /\ cur[t] > 0
    <2>1. c \in Using(t) /\ Using(t) \subseteq Callers
        BY <1>1, <1>4 DEF Using
    <2>2. Cardinality(Using(t)) > 0
        BY <2>1, OneLess
    <2> QED
        BY <1>3, <1>4, <2>1, <2>2 DEF LoadsAddUp
<1>6. ASSUME NEW g \in Groups, g = group[t]
      PROVE  c \in UsingGroup(g) /\ UsingGroup(g) \subseteq Callers /\ cur[g] > 0
    <2>1. c \in UsingGroup(g) /\ UsingGroup(g) \subseteq Callers
        BY <1>1, <1>4, <1>6 DEF UsingGroup, Members
    <2>2. Cardinality(UsingGroup(g)) > 0
        BY <2>1, OneLess
    <2> QED
        BY <1>3, <2>1, <2>2 DEF LoadsAddUp
<1>7. heap' \in [Groups -> Seq(Targets)] /\ index' \in [Targets -> Nat] /\ Placed' /\ InOrder'
    BY <1>1, <1>3, <1>4, <1>5, ReleaseHeap
<1>8. /\ cur' \in [Objects -> Nat]
      /\ \A s \in Targets : cur'[s] = IF s = t THEN cur[s] - 1 ELSE cur[s]
      /\ \A g \in Groups : cur'[g] = IF g = group[t] THEN cur[g] - 1 ELSE cur[g]
    BY <1>1, <1>3, <1>4, <1>5, <1>6, ReleaseFigures
<1>9. /\ left \in [Callers -> {"idle", "waiting", "woken", "using"}] /\ left[c] = "idle"
      /\ \A d \in Callers : d # c => left[d] = pc[d]
    BY <1>2, <1>3 DEF TypeOK
<1>10. \/ Signalled(t, left, pc') /\ waitCnt[t] > 0
       \/ Signalled(group[t], left, pc') /\ ~(waitCnt[t] > 0)
       \/ pc' = left /\ ~(waitCnt[t] > 0)
    BY <1>1, <1>2 DEF Release
<1>11. /\ pc' \in [Callers -> {"idle", "waiting", "woken", "using"}]
       /\ \A d \in Callers : pc'[d] = left[d] \/ (left[d] = "waiting" /\ pc'[d] = "woken")
    <2>1. \A d \in Callers : pc[d] = "waiting" => left[d] = "waiting"
        BY <1>4, <1>9
    <2>2. CASE Signalled(t, left, pc')
        BY <1>3, <1>9, <2>1, <2>2, SignalEffect
    <2>3. CASE Signalled(group[t], left, pc')
        BY <1>3, <1>9, <2>1, <2>3, SignalEffect
    <2>4. CASE pc' = left
        BY <1>9, <2>4
    <2> QED
        BY <1>10, <2>2, <2>3, <2>4
<1>12. /\ pc'[c] = "idle"
       /\ \A d \in Callers : d # c =>
              object'[d] = object[d] /\ (pc'[d] = pc[d] \/ (pc[d] = "waiting" /\ pc'[d] = "woken"))
    BY <1>3, <1>4, <1>9, <1>11 DEF TypeOK
<1>13. TypeOK'
    BY <1>3, <1>4, <1>7, <1>8, <1>11 DEF TypeOK
<1>14. CallersOK'
    BY <1>3, <1>12 DEF CallersOK
<1>15. WaitsCounted'
    <2>1. \A d \in Callers : (Waits(d)' <=> Waits(d)) /\ (Waits(d) => object'[d] = object[d])
        BY <1>4, <1>12 DEF Waits
    <2> QED
        BY <1>4, <2>1, CountedSame
<1>16. ASSUME NEW s \in Targets PROVE cur'[s] = Cardinality(Using(s)') /\ cur'[s] <= MaxLoad[s]
    <2>1. /\ cur[s] = Cardinality(Using(s)) /\ cur[s] <= MaxLoad[s] /\ cur[s] \in Nat
          /\ MaxLoad[s] \in Nat
        BY <1>3, CommSchedAssumption DEF LoadsAddUp, TypeOK, Objects
    <2>2. CASE s = t
        <3>1. Using(s)' = Using(s) \ {c}
            BY <1>12, <2>2 DEF Using
        <3>2. Cardinality(Using(s)') = Cardinality(Using(s)) - 1
            BY <1>5, <2>2, <3>1, OneLess
        <3> QED
            BY <1>8, <2>1, <2>2, <3>2
    <2>3. CASE s # t
        <3>1. Using(s)' = Using(s)
            BY <1>1, <1>12, <2>3 DEF Using
        <3> QED
            BY <1>8, <2>1, <2>3, <3>1
    <2> QED
        BY <2>2, <2>3
<1>17. ASSUME NEW g \in Groups PROVE cur'[g] = Cardinality(UsingGroup(g)') /\ groupMax'[g] = Cardinality(Slots(g)')
    <2>1. cur[g] = Cardinality(UsingGroup(g)) /\ groupMax[g] = Cardinality(Slots(g))
        BY <1>3 DEF LoadsAddUp
    <2>2. groupMax'[g] = Cardinality(Slots(g)')
        BY <1>4, <2>1, SlotsSame
    <2>3. CASE g = group[t]
        <3>1. UsingGroup(g)' = UsingGroup(g) \ {c}
            BY <1>4, <1>12 DEF UsingGroup, Members
        <3>2. Cardinality(UsingGroup(g)') = Cardinality(UsingGroup(g)) - 1
            BY <1>6, <2>3, <3>1, OneLess
        <3> QED
            BY <1>8, <2>1, <2>2, <2>3, <3>2
    <2>4. CASE g # group[t]
        <3>1. UsingGroup(g)' = UsingGroup(g)
            BY <1>1, <1>4, <1>12, <2>4 DEF UsingGroup, Members
        <3> QED
            BY <1>8, <2>1, <2>2, <2>4, <3>1
    <2> QED
        BY <2>3, <2>4
<1>18. LoadsAddUp'
    BY <1>16, <1>17 DEF LoadsAddUp
<1>19. FreeSlotsNoticed'
    <2> SUFFICES ASSUME NEW s \in Targets, Waiting(s)' # {}
                 PROVE  MaxLoad[s] - cur'[s] <= Cardinality(Woken(s)')
        BY DEF FreeSlotsNoticed
    <2>1. Waiting(s) # {}
        BY <1>4, <1>12 DEF Waiting
    <2>2. /\ MaxLoad[s] \in Nat /\ cur[s] \in Nat /\ cur'[s] \in Nat
          /\ MaxLoad[s] - cur[s] <= Cardinality(Woken(s))
        BY <1>8, <2>1, CommSchedAssumption DEF CommSchedInv, TypeOK, Objects, FreeSlotsNoticed
    <2>3. Woken(s) \subseteq Callers /\ Woken(s)' \subseteq Callers
        BY DEF Woken
    <2>4. CASE s = t
        <3>1. waitCnt[t] > 0
            <4>1. Counted(t) \subseteq Callers /\ Counted(t) # {}
                BY <2>1, <2>4 DEF Counted, Waiting
            <4>2. waitCnt[t] = Cardinality(Counted(t))
                BY <1>3, <1>4 DEF WaitsCounted, Objects
            <4>3. Cardinality(Counted(t)) \in Nat /\ Cardinality(Counted(t)) # 0
                BY <4>1, CallerSets
            <4> QED
                BY <4>2, <4>3
        <3>2. PICK d \in Waiting(t) : pc' = [left EXCEPT ![d] = "woken"]
            BY <1>10, <2>1, <2>4, <3>1 DEF Signalled
        <3>3. /\ d \in Callers /\ d # c /\ pc[d] = "waiting" /\ object[d] = t /\ pc'[d] = "woken"
              /\ \A e \in Callers : e # c /\ e # d => pc'[e] = pc[e]
            BY <1>4, <1>9, <3>2 DEF Waiting
        <3>4. Woken(s)' = Woken(s) \cup {d} /\ d \notin Woken(s)
            BY <1>4, <1>12, <2>4, <3>3 DEF Woken
        <3>5. Cardinality(Woken(s)') = Cardinality(Woken(s)) + 1 /\ Cardinality(Woken(s)) \in Nat
            BY <2>3, <3>3, <3>4, OneMore
        <3>6. cur'[s] = cur[s] - 1
            BY <1>8, <2>4
        <3> QED
            BY <2>2, <3>5, <3>6
    <2>5. CASE s # t
        <3>1. cur'[s] = cur[s]
            BY <1>8, <2>5
        <3>2. Woken(s) \subseteq Woken(s)'
            BY <1>4, <1>12 DEF Woken
        <3>3. Cardinality(Woken(s)) <= Cardinality(Woken(s)') /\ Cardinality(Woken(s)) \in Nat /\ Cardinality(Woken(s)') \in Nat
            BY <2>3, <3>2, CallerSets, FS_Subset
        <3> QED
            BY <2>2, <3>1, <3>3
    <2> QED
        BY <2>4, <2>5
<1> QED
    BY <1>7, <1>13, <1>14, <1>15, <1>18, <1>19 DEF CommSchedInv

-----------------------------------------------------------------------------
(* A target joins a group or leaves it.                                    *)

(* What callers may notice of it: some who wait for the group are woken.   *)
LEMMA RegroupCallers ==
    ASSUME CommSchedInv, cur' \in [Objects -> Nat], waitCnt' = waitCnt, object' = object, timed' = timed,
           \A s \in Targets : cur'[s] = cur[s], NEW g \in Groups, pc' = pc \/ Signalled(g, pc, pc')
    PROVE  /\ CallersOK' /\ WaitsCounted' /\ FreeSlotsNoticed'
           /\ pc' \in [Callers -> {"idle", "waiting", "woken", "using"}]
           /\ \A s \in Targets : Using(s)' = Using(s)
           /\ \A c \in Callers : pc'[c] = "using" <=> pc[c] = "using"
<1>1. TypeOK /\ pc \in [Callers -> {"idle", "waiting", "woken", "using"}]
    BY DEF CommSchedInv, TypeOK
<1>2. /\ pc' \in [Callers -> {"idle", "waiting", "woken", "using"}]
      /\ \A d \in Callers : pc'[d] = pc[d] \/ (pc[d] = "waiting" /\ pc'[d] = "woken")
    BY <1>1, SignalEffect
<1>3. \A d \in Callers : pc'[d] # pc[d] => object[d] = g
    <2>1. CASE pc' = pc
        BY <2>1
    <2>2. CASE Signalled(g, pc, pc')
        <3>1. CASE Waiting(g) = {}
            BY <2>2, <3>1 DEF Signalled
        <3>2. CASE Waiting(g) # {}
            <4>1. PICK d \in Waiting(g) : pc' = [pc EXCEPT ![d] = "woken"]
                BY <2>2, <3>2 DEF Signalled
            <4>2. object[d] = g /\ d \in Callers
                BY DEF Waiting
            <4> QED
                BY <1>1, <4>1, <4>2
        <3> QED
            BY <3>1, <3>2
    <2> QED
        BY <2>1, <2>2
<1>4. CallersOK'
    BY <1>2 DEF CommSchedInv, CallersOK
<1>5. WaitsCounted'
    <2>1. \A d \in Callers : (Waits(d)' <=> Waits(d)) /\ (Waits(d) => object'[d] = object[d])
        BY <1>2 DEF Waits
    <2> QED
        BY <2>1, CountedSame
<1>6. FreeSlotsNoticed'
    <2>1. \A s \in Targets : s # g /\ cur[s] \in Nat
        BY <1>1, CommSchedAssumption DEF TypeOK, Objects
    <2>2. \A s \in Targets : /\ cur'[s] >= cur[s]
                             /\ Waiting(s)' \subseteq Waiting(s) /\ Woken(s) \subseteq Woken(s)'
        BY <1>2, <2>1 DEF Waiting, Woken
    <2> QED
        BY <2>2, NoticedStill
<1>7. \A c \in Callers : pc'[c] = "using" <=> pc[c] = "using"
    BY <1>2
<1>8. \A s \in Targets : Using(s)' = Using(s)
    BY <1>7 DEF Using
<1> QED
    BY <1>2, <1>4, <1>5, <1>6, <1>7, <1>8

LEMMA DisjointCallers ==
    ASSUME NEW S, NEW T, S \subseteq Callers, T \subseteq Callers, S \cap T = {}
    PROVE  /\ Cardinality(S \cup T) = Cardinality(S) + Cardinality(T)
           /\ Cardinality(S) \in Nat /\ Cardinality(T) \in Nat
<1>1. IsFiniteSet(S) /\ IsFiniteSet(T) /\ Cardinality(S) \in Nat /\ Cardinality(T) \in Nat
    BY CallerSets
<1>2. Cardinality(S \cup T) = Cardinality(S) + Cardinality(T) - Cardinality(S \cap T)
    BY <1>1, FS_Union
<1>3. Cardinality(S \cap T) = 0
    BY FS_EmptySet
<1> QED
    BY <1>1, <1>2, <1>3

LEMMA AddStep ==
    ASSUME CommSchedInv, NEW g \in Groups, NEW t \in Targets, Add(g, t)
    PROVE  CommSchedInv'
<1>1. TypeOK /\ LoadsAddUp /\ Placed /\ InOrder
    BY DEF CommSchedInv
<1>2. /\ group[t] = NoGroup /\ group' = [group EXCEPT ![t] = g]
      /\ groupMax' = [groupMax EXCEPT ![g] = @ + MaxLoad[t]]
      /\ cur' = [cur EXCEPT ![g] = @ + cur[t]]
      /\ waitCnt' = waitCnt /\ object' = object /\ timed' = timed
      /\ pc' = pc \/ Signalled(g, pc, pc')
    BY DEF Add
<1>3. heap' \in [Groups -> Seq(Targets)] /\ index' \in [Targets -> Nat] /\ Placed' /\ InOrder'
    BY <1>1, AddHeap
<1>4. /\ cur \in [Objects -> Nat] /\ group \in [Targets -> Groups \cup {NoGroup}]
      /\ groupMax \in [Groups -> Nat] /\ Objects = Targets \cup Groups /\ Targets \cap Groups = {}
      /\ NoGroup # g /\ NoGroup \notin Groups /\ MaxLoad[t] \in Nat
    BY <1>1, CommSchedAssumption DEF TypeOK, Objects
<1>5. /\ cur' \in [Objects -> Nat] /\ cur'[g] = cur[g] + cur[t]
      /\ \A s \in Targets : cur'[s] = cur[s]
      /\ \A f \in Groups : f # g => cur'[f] = cur[f] /\ groupMax'[f] = groupMax[f]
      /\ groupMax' \in [Groups -> Nat] /\ groupMax'[g] = groupMax[g] + MaxLoad[t]
    BY <1>2, <1>4
<1>6. /\ group' \in [Targets -> Groups \cup {NoGroup}] /\ group'[t] = g
      /\ \A s \in Targets : s # t => group'[s] = group[s]
    BY <1>2, <1>4
<1>7. /\ CallersOK' /\ WaitsCounted' /\ FreeSlotsNoticed'
      /\ pc' \in [Callers -> {"idle", "waiting", "woken", "using"}]
      /\ \A s \in Targets : Using(s)' = Using(s)
      /\ \A c \in Callers : pc'[c] = "using" <=> pc[c] = "using"
    BY <1>2, <1>5, RegroupCallers
<1>8. TypeOK'
    BY <1>1, <1>2, <1>3, <1>5, <1>6, <1>7 DEF TypeOK
<1>9. \A s \in Targets : cur'[s] = Cardinality(Using(s)') /\ cur'[s] <= MaxLoad[s]
    BY <1>1, <1>5, <1>7 DEF LoadsAddUp
<1>10. ASSUME NEW f \in Groups PROVE cur'[f] = Cardinality(UsingGroup(f)') /\ groupMax'[f] = Cardinality(Slots(f)')
    <2>1. cur[f] = Cardinality(UsingGroup(f)) /\ groupMax[f] = Cardinality(Slots(f)) /\ cur[t] = Cardinality(Using(t))
        BY <1>1 DEF LoadsAddUp
    <2>2. CASE f = g
        <3>1. Members(f)' = Members(f) \cup {t} /\ t \notin Members(f) /\ Members(f) \subseteq Targets
            BY <1>2, <1>4, <1>6, <2>2 DEF Members
        <3>2. /\ UsingGroup(f)' = UsingGroup(f) \cup Using(t) /\ UsingGroup(f) \cap Using(t) = {}
              /\ UsingGroup(f) \subseteq Callers /\ Using(t) \subseteq Callers
            BY <1>2, <1>7, <3>1 DEF UsingGroup, Using
        <3>3. Cardinality(UsingGroup(f)') = cur[f] + cur[t]
            BY <2>1, <3>2, DisjointCallers
        <3>4. Slots(f)' = SlotsOf(Members(f) \cup {t}) /\ Slots(f) = SlotsOf(Members(f))
            BY <3>1 DEF Slots, SlotsOf
        <3>5. Cardinality(Slots(f)') = groupMax[f] + MaxLoad[t]
            BY <2>1, <3>1, <3>4, OneMoreMember
        <3> QED
            BY <1>5, <2>2, <3>3, <3>5
    <2>3. CASE f # g
        <3>1. Members(f)' = Members(f)
            BY <1>2, <1>4, <1>6, <2>3 DEF Members
        <3>2. UsingGroup(f)' = UsingGroup(f) /\ Slots(f)' = Slots(f)
            BY <1>2, <1>7, <3>1 DEF UsingGroup, Slots
        <3> QED
            BY <1>5, <2>1, <2>3, <3>2
    <2> QED
        BY <2>2, <2>3
<1>11. LoadsAddUp'
    BY <1>9, <1>10 DEF LoadsAddUp
<1> QED
    BY <1>3, <1>7, <1>8, <1>11 DEF CommSchedInv

LEMMA RemoveStep ==
    ASSUME CommSchedInv, NEW g \in Groups, NEW t \in Targets, Remove(g, t)
    PROVE  CommSchedInv'
<1>1. TypeOK /\ LoadsAddUp /\ Placed /\ InOrder
    BY DEF CommSchedInv
<1>2. /\ group[t] = g /\ group' = [group EXCEPT ![t] = NoGroup]
      /\ groupMax' = [groupMax EXCEPT ![g] = @ - MaxLoad[t]]
      /\ cur' = [cur EXCEPT ![g] = @ - cur[t]]
      /\ waitCnt' = waitCnt /\ object' = object /\ timed' = timed
      /\ pc' = pc
    BY DEF Remove
<1>3. heap' \in [Groups -> Seq(Targets)] /\ index' \in [Targets -> Nat] /\ Placed' /\ InOrder'
    BY <1>1, RemoveHeap
<1>4. /\ cur \in [Objects -> Nat] /\ group \in [Targets -> Groups \cup {NoGroup}]
      /\ groupMax \in [Groups -> Nat] /\ Objects = Targets \cup Groups /\ Targets \cap Groups = {}
      /\ NoGroup # g /\ NoGroup \notin Groups /\ MaxLoad[t] \in Nat
    BY <1>1, CommSchedAssumption DEF TypeOK, Objects
<1>5. /\ group' \in [Targets -> Groups \cup {NoGroup}] /\ group'[t] = NoGroup
      /\ \A s \in Targets : s # t => group'[s] = group[s]
    BY <1>2, <1>4
<1>6. Members(g) = Members(g)' \cup {t} /\ t \notin Members(g)' /\ Members(g)' \subseteq Targets
    BY <1>2, <1>4, <1>5 DEF Members
<1>7. cur[g] = Cardinality(UsingGroup(g)') + cur[t] /\ Cardinality(UsingGroup(g)') \in Nat
    <2>1. /\ UsingGroup(g) = UsingGroup(g)' \cup Using(t) /\ UsingGroup(g)' \cap Using(t) = {}
          /\ UsingGroup(g)' \subseteq Callers /\ Using(t) \subseteq Callers
        <3>1. PICK M : M = Members(g)'
            OBVIOUS
        <3>2. Members(g) = M \cup {t} /\ t \notin M
            BY <1>6, <3>1
        <3>3. UsingGroup(g)' = {c \in Callers : pc[c] = "using" /\ object[c] \in M}
            BY <1>2, <3>1 DEF UsingGroup
        <3> QED
            BY <3>2, <3>3 DEF UsingGroup, Using
    <2>2. cur[g] = Cardinality(UsingGroup(g)) /\ cur[t] = Cardinality(Using(t))
        BY <1>1 DEF LoadsAddUp
    <2>3. PICK S, T : S = UsingGroup(g)' /\ T = Using(t)
        OBVIOUS
    <2>4. /\ UsingGroup(g) = S \cup T /\ S \cap T = {} /\ S \subseteq Callers /\ T \subseteq Callers
        BY <2>1, <2>3
    <2>5. Cardinality(S \cup T) = Cardinality(S) + Cardinality(T) /\ Cardinality(S) \in Nat
        BY <2>4, DisjointCallers
    <2> QED
        BY <2>2, <2>3, <2>4, <2>5
<1>8. groupMax[g] = Cardinality(Slots(g)') + MaxLoad[t] /\ Cardinality(Slots(g)') \in Nat
    <2>1. PICK M : M = Members(g)'
        OBVIOUS
    <2>2. Slots(g)' = SlotsOf(M) /\ Slots(g) = SlotsOf(M \cup {t})
        BY <1>6, <2>1 DEF Slots, SlotsOf
    <2>3. groupMax[g] = Cardinality(Slots(g))
        BY <1>1 DEF LoadsAddUp
    <2>4. M \subseteq Targets /\ t \notin M
        BY <1>6, <2>1
    <2> QED
        BY <2>2, <2>3, <2>4, OneMoreMember
<1>9. /\ cur[g] - cur[t] = Cardinality(UsingGroup(g)') /\ groupMax[g] - MaxLoad[t] = Cardinality(Slots(g)')
      /\ cur[g] - cur[t] \in Nat /\ groupMax[g] - MaxLoad[t] \in Nat
    BY <1>4, <1>7, <1>8
<1>10. /\ cur' \in [Objects -> Nat] /\ cur'[g] = cur[g] - cur[t]
       /\ \A s \in Targets : cur'[s] = cur[s]
       /\ \A f \in Groups : f # g => cur'[f] = cur[f] /\ groupMax'[f] = groupMax[f]
       /\ groupMax' \in [Groups -> Nat] /\ groupMax'[g] = groupMax[g] - MaxLoad[t]
    BY <1>2, <1>4, <1>9
<1>11. /\ CallersOK' /\ WaitsCounted' /\ FreeSlotsNoticed'
       /\ pc' \in [Callers -> {"idle", "waiting", "woken", "using"}]
       /\ \A s \in Targets : Using(s)' = Using(s)
    BY <1>2, <1>10, RegroupCallers
<1>12. TypeOK'
    BY <1>1, <1>2, <1>3, <1>5, <1>10, <1>11 DEF TypeOK
<1>13. \A s \in Targets : cur'[s] = Cardinality(Using(s)') /\ cur'[s] <= MaxLoad[s]
    BY <1>1, <1>10, <1>11 DEF LoadsAddUp
<1>14. ASSUME NEW f \in Groups PROVE cur'[f] = Cardinality(UsingGroup(f)') /\ groupMax'[f] = Cardinality(Slots(f)')
    <2>1. CASE f = g
        BY <1>9, <1>10, <2>1
    <2>2. CASE f # g
        <3>1. cur[f] = Cardinality(UsingGroup(f)) /\ groupMax[f] = Cardinality(Slots(f))
            BY <1>1 DEF LoadsAddUp
        <3>2. Members(f)' = Members(f)
            BY <1>2, <1>4, <1>5, <2>2 DEF Members
        <3>3. UsingGroup(f)' = UsingGroup(f) /\ Slots(f)' = Slots(f)
            BY <1>2, <3>2 DEF UsingGroup, Slots
        <3> QED
            BY <1>10, <2>2, <3>1, <3>3
    <2> QED
        BY <2>1, <2>2
<1>15. LoadsAddUp'
    BY <1>13, <1>14 DEF LoadsAddUp
<1> QED
    BY <1>3, <1>11, <1>12, <1>15 DEF CommSchedInv

-----------------------------------------------------------------------------
(* The theorems.                                                           *)

LEMMA InitHolds ==
    ASSUME Init
    PROVE  CommSchedInv
<1> USE DEF Init
<1>1. TypeOK
    BY CommSchedAssumption DEF TypeOK, Objects
<1>2. CallersOK
    BY DEF CallersOK
<1>3. ASSUME NEW o PROVE Counted(o) = {} /\ Using(o) = {} /\ UsingGroup(o) = {} /\ Waiting(o) = {}
    BY DEF Counted, Using, UsingGroup, Waiting
<1>4. WaitsCounted
    BY <1>3, FS_EmptySet DEF WaitsCounted
<1>5. LoadsAddUp
    <2>1. ASSUME NEW g \in Groups PROVE Slots(g) = {}
        BY CommSchedAssumption DEF Slots, Members
    <2>2. \A t \in Targets : cur[t] = 0 /\ MaxLoad[t] \in Nat /\ 0 <= MaxLoad[t]
        BY CommSchedAssumption DEF Objects
    <2>3. \A g \in Groups : cur[g] = 0 /\ groupMax[g] = 0
        BY DEF Objects
    <2> QED
        BY <1>3, <2>1, <2>2, <2>3, FS_EmptySet DEF LoadsAddUp
<1>6. \A g \in Groups : heap[g] = <<>> /\ Len(heap[g]) = 0
    OBVIOUS
<1>7. Placed
    BY <1>6, CommSchedAssumption DEF Placed
<1>8. InOrder
    BY <1>6 DEF InOrder
<1>9. FreeSlotsNoticed
    BY <1>3 DEF FreeSlotsNoticed
<1> QED
    BY <1>1, <1>2, <1>4, <1>5, <1>7, <1>8, <1>9 DEF CommSchedInv

(***************************************************************************)
(* The invariant holds throughout: besides the two properties below, every *)
(* target is where its index says and wait_cnt counts those who wait or    *)
(* have been woken, so that acquire, release, add and remove may rely on   *)
(* either.                                                                 *)
(***************************************************************************)
THEOREM CommSchedInductive == Spec => []CommSchedInv
<1>1. Init => CommSchedInv
    BY InitHolds
<1>2. CommSchedInv /\ [Next]_vars => CommSchedInv'
    <2> SUFFICES ASSUME CommSchedInv, [Next]_vars PROVE CommSchedInv'
        OBVIOUS
    <2>1. CASE UNCHANGED vars
        <3>1. /\ cur' = cur /\ groupMax' = groupMax /\ waitCnt' = waitCnt /\ group' = group
              /\ index' = index /\ heap' = heap /\ pc' = pc /\ object' = object /\ timed' = timed
            BY <2>1 DEF vars, objVars
        <3>2. TypeOK' /\ CallersOK'
            BY <3>1 DEF CommSchedInv, TypeOK, CallersOK
        <3>3. LoadsAddUp' /\ Placed' /\ InOrder'
            BY <3>1, QuietStep
        <3>4. WaitsCounted'
            BY <3>1 DEF CommSchedInv, WaitsCounted, Counted
        <3>5. FreeSlotsNoticed'
            BY <3>1 DEF CommSchedInv, FreeSlotsNoticed, Waiting, Woken
        <3> QED
            BY <3>2, <3>3, <3>4, <3>5 DEF CommSchedInv
    <2>2. ASSUME NEW c \in Callers, CallerStep(c) PROVE CommSchedInv'
        BY <2>2, ResumeStep, ResumeWaitsStep DEF CallerStep
    <2>3. ASSUME NEW c \in Callers, TimesOut(c) PROVE CommSchedInv'
        BY <2>3, TimesOutStep
    <2>4. ASSUME NEW c \in Callers, SpuriousWakeup(c) PROVE CommSchedInv'
        BY <2>4, SpuriousWakeupStep
    <2>5. ASSUME NEW c \in Callers, Release(c) PROVE CommSchedInv'
        BY <2>5, ReleaseStep
    <2>6. ASSUME NEW c \in Callers, NEW o \in Objects, Acquire(c, o) PROVE CommSchedInv'
        BY <2>6, AcquireStep
    <2>7. ASSUME NEW c \in Callers, NEW o \in Objects, NEW t \in BOOLEAN, AcquireWaits(c, o, t)
          PROVE  CommSchedInv'
        BY <2>7, AcquireWaitsStep
    <2>8. ASSUME NEW g \in Groups, NEW t \in Targets, Add(g, t) PROVE CommSchedInv'
        BY <2>8, AddStep
    <2>9. ASSUME NEW g \in Groups, NEW t \in Targets, Remove(g, t) PROVE CommSchedInv'
        BY <2>9, RemoveStep
    <2> QED
        BY <2>1, <2>2, <2>3, <2>4, <2>5, <2>6, <2>7, <2>8, <2>9 DEF Next
<1> QED
    BY <1>1, <1>2, PTL DEF Spec

(***************************************************************************)
(* cur_load is the slots in use and the figures of a group are those of    *)
(* its members, for every order of acquire, release, add and remove; no    *)
(* target serves more than max_load connections.                           *)
(***************************************************************************)
THEOREM LoadsStayRight == Spec => []LoadsAddUp
<1>1. CommSchedInv => LoadsAddUp
    BY DEF CommSchedInv
<1> QED
    BY <1>1, CommSchedInductive, PTL

LEMMA HeapIsSound ==
    ASSUME CommSchedInv
    PROVE  HeapSound
<1> SUFFICES ASSUME NEW g \in Groups
             PROVE  /\ Len(heap[g]) = Cardinality(Members(g))
                    /\ \A t \in Members(g) : index[t] \in DOMAIN heap[g] /\ heap[g][index[t]] = t
                    /\ \A p \in 2 .. Len(heap[g]) : ~Less(cur, heap[g][p], heap[g][p \div 2])
                    /\ heap[g] # <<>> => \A t \in Members(g) : ~Less(cur, t, Chosen(g))
                    /\ HasRoom(g) => HasRoom(Chosen(g))
    BY DEF HeapSound
<1>1. PICK h : h = heap[g]
    OBVIOUS
<1>2. TypeOK /\ LoadsAddUp /\ Placed /\ InOrder
    BY DEF CommSchedInv
<1>3. /\ h \in Seq(Targets) /\ Len(h) \in Nat /\ Distinct(h) /\ DOMAIN h = 1 .. Len(h)
      /\ \A p \in 1 .. Len(h) : h[p] \in Targets /\ group[h[p]] = g /\ index[h[p]] = p
      /\ \A t \in Targets : group[t] = g => index[t] \in 1 .. Len(h) /\ h[index[t]] = t
      /\ \A p \in 2 .. Len(h) : Ordered(cur, h, p)
    BY <1>1, <1>2, OneHeap
<1>4. \A t \in Members(g) : index[t] \in DOMAIN h /\ h[index[t]] = t
    BY <1>3 DEF Members
<1>5. Len(h) = Cardinality(Members(g))
    <2>1. h \in [1 .. Len(h) -> Members(g)]
        BY <1>3 DEF Members
    <2>2. h \in Bijection(1 .. Len(h), Members(g))
        <3>1. \A a, b \in 1 .. Len(h) : h[a] = h[b] => a = b
            BY <1>3 DEF Distinct
        <3>2. \A t \in Members(g) : \E p \in 1 .. Len(h) : h[p] = t
            BY <1>3, <1>4
        <3> QED
            BY <2>1, <3>1, <3>2 DEF Bijection, Injection, Surjection, IsInjective
    <2>3. ExistsBijection(1 .. Len(h), Members(g))
        BY <2>2 DEF ExistsBijection
    <2> QED
        BY <1>3, <2>3, FS_CountingElements
<1>6. ASSUME h # <<>>, NEW t \in Members(g) PROVE ~Less(cur, t, Chosen(g))
    <2>1. Chosen(g) = h[1]
        BY <1>1, CommSchedAssumption DEF Chosen
    <2>2. Loads(cur)
        BY <1>2 DEF TypeOK, Objects, Loads
    <2>3. \A p \in 1 .. Len(h) : ~Less(cur, h[p], h[1])
        BY <1>3, <2>2, TopIsLeast
    <2> QED
        BY <1>3, <1>4, <2>1, <2>3
<1>7. HasRoom(g) => HasRoom(Chosen(g))
    BY <1>2, GroupRoom
<1> QED
    BY <1>1, <1>3, <1>4, <1>5, <1>6, <1>7 DEF Ordered

(***************************************************************************)
(* The heap of a group is one after every heap_insert, heap_adjust,        *)
(* heapify and heap_remove, whatever the loads; the target at its top has  *)
(* the lowest relative load, and room whenever the group has.              *)
(***************************************************************************)
THEOREM HeapsStaySound == Spec => []HeapSound
<1>1. CommSchedInv => HeapSound
    BY HeapIsSound
<1> QED
    BY <1>1, CommSchedInductive, PTL

(***************************************************************************)
(* A slot that release frees while somebody waits for its target has a     *)
(* woken caller.                                                           *)
(***************************************************************************)
THEOREM NoSlotOverlooked == Spec => []FreeSlotsNoticed
<1>1. CommSchedInv => FreeSlotsNoticed
    BY DEF CommSchedInv
<1> QED
    BY <1>1, CommSchedInductive, PTL
=============================================================================
