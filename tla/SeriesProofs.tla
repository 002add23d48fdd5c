---------------------------- MODULE SeriesProofs ----------------------------
(***************************************************************************)
(* Proofs about Series, for any number of series, any initial size of      *)
(* their ring buffers and any number of tasks: a series keeps the order of *)
(* its pushes and leaves no task behind, cancel() stops it, and the done() *)
(* of a parallel task comes last.                                          *)
(*                                                                         *)
(* The ring buffer is proved apart from the series: what it means that n   *)
(* slots with front f and back b hold a list, and that push_front,         *)
(* push_back with or without expand_queue, and pop_task keep it so.        *)
(***************************************************************************)
EXTENDS Series, FiniteSetTheorems, SequenceTheorems, TLAPS

Tasks == 1 .. MaxTasks

TypeOK ==
    /\ last \in [Works -> {NoTask, LastTask}]
    /\ canceled \in [Works -> BOOLEAN]
    /\ saw \in [Works -> BOOLEAN]
    /\ pc \in [Works -> {"created", "running", "popping", "dismissing", "ended", "counted"}]
    /\ members \subseteq Works
    /\ undone \subseteq members
    /\ nleft \in Int
    /\ parallel \in {"created", "dispatched", "done"}
    /\ made \in 0 .. MaxTasks
    /\ after \in [Works -> Nat]

(* The n slots of q from front f up to back b hold the list l.             *)
Holds(n, q, f, b, l) ==
    /\ n \in Nat \ {0}
    /\ q \in [0 .. n - 1 -> Tasks \cup {NoTask}]
    /\ f \in 0 .. n - 1 /\ b \in 0 .. n - 1
    /\ l \in Seq(Tasks)
    /\ Len(l) = (b - f) % n
    /\ \A i \in 1 .. Len(l) : l[i] = q[(f + i - 1) % n]

RingsHold ==
    /\ DOMAIN queue = Works
    /\ DOMAIN front = Works /\ DOMAIN back = Works /\ DOMAIN queued = Works
    /\ \A s \in Works : Holds(Size(s), queue[s], front[s], back[s], queued[s])

(* A series that has deleted itself.                                       *)
EndsEmpty ==
    \A s \in Works : pc[s] \in {"ended", "counted"} => queued[s] = <<>> /\ last[s] = NoTask

(* The one task that may be dispatched after cancel() was under way when   *)
(* cancel() came, and then pop sees canceled.                              *)
StopsAfterOne ==
    \A s \in Works :
        /\ after[s] <= 1
        /\ pc[s] = "created" => after[s] = 0
        /\ after[s] = 1 => canceled[s] /\ (pc[s] = "popping" => saw[s])

(* The parallel task: who is counted, and who is still to come.            *)
Uncounted == {s \in members : pc[s] # "counted"}

ParallelCounts ==
    /\ \A s \in undone : pc[s] = "created"
    /\ parallel = "created" => undone = {} /\ \A s \in members : pc[s] = "created"
    /\ parallel = "dispatched" => nleft = Cardinality(Uncounted)
    /\ parallel = "done" => Uncounted = {}

IInv ==
    /\ TypeOK
    /\ RingsHold
    /\ EndsEmpty
    /\ StopsAfterOne
    /\ ParallelCounts

-----------------------------------------------------------------------------
(* The ring buffer.                                                        *)

(* Where the slots are and how many, without a remainder.                  *)
LEMMA RingArithmetic ==
    ASSUME NEW n \in Nat \ {0}, NEW f \in 0 .. n - 1
    PROVE  /\ \A b \in 0 .. n - 1 : (b - f) % n = IF b >= f THEN b - f ELSE b - f + n
           /\ \A i \in 1 .. n : (f + i - 1) % n = IF f + i - 1 < n THEN f + i - 1
                                                   ELSE f + i - 1 - n
           /\ Copied(n, f, f) = n
<1>1. \A x \in 0 .. n - 1 : x % n = x /\ (x + n) % n = x /\ (x - n) % n = x
    OBVIOUS
<1>2. ASSUME NEW b \in 0 .. n - 1
      PROVE  (b - f) % n = IF b >= f THEN b - f ELSE b - f + n
    <2>1. CASE b >= f
        BY <1>1, <2>1
    <2>2. CASE ~(b >= f)
        <3>1. b - f + n \in 0 .. n - 1 /\ (b - f + n) - n = b - f
            BY <2>2
        <3> QED
            BY <1>1, <2>2, <3>1
    <2> QED
        BY <2>1, <2>2
<1>3. ASSUME NEW i \in 1 .. n
      PROVE  (f + i - 1) % n = IF f + i - 1 < n THEN f + i - 1 ELSE f + i - 1 - n
    <2>1. CASE f + i - 1 < n
        BY <1>1, <2>1
    <2>2. CASE ~(f + i - 1 < n)
        <3>1. f + i - 1 - n \in 0 .. n - 1 /\ (f + i - 1 - n) + n = f + i - 1
            BY <2>2
        <3> QED
            BY <1>1, <2>2, <3>1
    <2> QED
        BY <2>1, <2>2
<1>4. Copied(n, f, f) = n
    <2>1. n - 1 \in 0 .. n - 1 /\ (n - 1) - n = -1 /\ f - f - 1 = -1
        OBVIOUS
    <2>2. (-1) % n = n - 1
        BY <1>1, <2>1
    <2>3. (f - f - 1) % n = n - 1
        BY <2>1, <2>2
    <2> QED
        BY <2>3 DEF Copied
<1> QED
    BY <1>2, <1>3, <1>4

(* Holds in the same terms.                                                *)
LEMMA HoldsPlainly ==
    ASSUME NEW n \in Nat \ {0}, NEW q \in [0 .. n - 1 -> Tasks \cup {NoTask}],
           NEW f \in 0 .. n - 1, NEW b \in 0 .. n - 1, NEW l \in Seq(Tasks)
    PROVE  Holds(n, q, f, b, l) <=>
               /\ Len(l) = IF b >= f THEN b - f ELSE b - f + n
               /\ \A i \in 1 .. Len(l) :
                      l[i] = q[IF f + i - 1 < n THEN f + i - 1 ELSE f + i - 1 - n]
<1>1. (b - f) % n = IF b >= f THEN b - f ELSE b - f + n
    BY RingArithmetic
<1>2. (IF b >= f THEN b - f ELSE b - f + n) \in 0 .. n - 1
    OBVIOUS
<1>3. Len(l) = (b - f) % n => \A i \in 1 .. Len(l) : i \in 1 .. n
    BY <1>1, <1>2
<1>4. \A i \in 1 .. n : (f + i - 1) % n = IF f + i - 1 < n THEN f + i - 1 ELSE f + i - 1 - n
    BY RingArithmetic
<1>5. Len(l) = (b - f) % n =>
          \A i \in 1 .. Len(l) :
              (f + i - 1) % n = IF f + i - 1 < n THEN f + i - 1 ELSE f + i - 1 - n
    BY <1>3, <1>4
<1>6. Holds(n, q, f, b, l) <=>
          /\ Len(l) = (b - f) % n
          /\ \A i \in 1 .. Len(l) : l[i] = q[(f + i - 1) % n]
    BY Zenon DEF Holds
<1>7. CASE Len(l) = (b - f) % n
    <2>1. (\A i \in 1 .. Len(l) : l[i] = q[(f + i - 1) % n]) <=>
          (\A i \in 1 .. Len(l) :
              l[i] = q[IF f + i - 1 < n THEN f + i - 1 ELSE f + i - 1 - n])
        BY <1>5, <1>7, Zenon
    <2> QED
        BY <1>1, <1>6, <1>7, <2>1, Zenon
<1> QED
    BY <1>1, <1>6, <1>7, Zenon

(* pop_task takes the first of the list.                                   *)
LEMMA PopKeeps ==
    ASSUME NEW n, NEW q, NEW f, NEW b, NEW l, Holds(n, q, f, b, l), f # b
    PROVE  /\ l # <<>> /\ q[f] = l[1] /\ q[f] \in Tasks
           /\ Holds(n, [q EXCEPT ![f] = NoTask], IF f + 1 = n THEN 0 ELSE f + 1, b, Tail(l))
<1>1. /\ n \in Nat \ {0} /\ q \in [0 .. n - 1 -> Tasks \cup {NoTask}]
      /\ f \in 0 .. n - 1 /\ b \in 0 .. n - 1 /\ l \in Seq(Tasks)
    BY DEF Holds
<1>2. /\ Len(l) = IF b >= f THEN b - f ELSE b - f + n
      /\ \A i \in 1 .. Len(l) :
             l[i] = q[IF f + i - 1 < n THEN f + i - 1 ELSE f + i - 1 - n]
    <2>1. Len(l) = IF b >= f THEN b - f ELSE b - f + n
        BY <1>1, HoldsPlainly
    <2>2. \A i \in 1 .. Len(l) :
              l[i] = q[IF f + i - 1 < n THEN f + i - 1 ELSE f + i - 1 - n]
        BY <1>1, HoldsPlainly, SMTT(30)
    <2> QED
        BY <2>1, <2>2, Zenon
<1>3. Len(l) \in 1 .. n - 1 /\ l # <<>>
    <2>1. Len(l) = IF b >= f THEN b - f ELSE b - f + n
        BY <1>2, Zenon
    <2>2. Len(l) \in 1 .. n - 1
        BY <1>1, <2>1
    <2> QED
        BY <1>1, <2>2, EmptySeq
<1>4. l[1] = q[f] /\ l[1] \in Tasks
    <2>1. 1 \in 1 .. Len(l) /\ f + 1 - 1 = f /\ f < n
        BY <1>1, <1>3
    <2>2. l[1] = q[f]
        BY <1>2, <2>1
    <2> QED
        BY <1>1, <2>1, <2>2, ElementOfSeq
<1> DEFINE f1 == IF f + 1 = n THEN 0 ELSE f + 1
           q1 == [q EXCEPT ![f] = NoTask]
           t == Tail(l)
<1>5. /\ t \in Seq(Tasks) /\ Len(t) = Len(l) - 1
      /\ \A i \in 1 .. Len(t) : t[i] = l[i + 1]
    BY <1>1, <1>3, HeadTailProperties
<1>6. /\ f1 \in 0 .. n - 1 /\ q1 \in [0 .. n - 1 -> Tasks \cup {NoTask}]
      /\ \A j \in 0 .. n - 1 : j # f => q1[j] = q[j]
    BY <1>1
<1>7. Len(t) = IF b >= f1 THEN b - f1 ELSE b - f1 + n
    <2>1. Len(l) = IF b >= f THEN b - f ELSE b - f + n
        BY <1>2
    <2>2. Len(t) = Len(l) - 1
        BY <1>5
    <2> QED
        BY <1>1, <2>1, <2>2
<1>8. ASSUME NEW i \in 1 .. Len(t)
      PROVE  t[i] = q1[IF f1 + i - 1 < n THEN f1 + i - 1 ELSE f1 + i - 1 - n]
    <2> DEFINE j == IF f + (i + 1) - 1 < n THEN f + (i + 1) - 1 ELSE f + (i + 1) - 1 - n
               k == IF f1 + i - 1 < n THEN f1 + i - 1 ELSE f1 + i - 1 - n
    <2>1. i + 1 \in 1 .. Len(l) /\ i \in 1 .. n - 1
        BY <1>1, <1>3, <1>5
    <2>2. j \in 0 .. n - 1 /\ j # f /\ k = j
        BY <1>1, <2>1
    <2>3. t[i] = q[j]
        BY <1>2, <1>5, <2>1
    <2> HIDE DEF j, q1, t
    <2>4. t[i] = q1[j]
        BY <1>6, <2>2, <2>3
    <2> QED
        BY <2>2, <2>4
<1> HIDE DEF f1, q1, t
<1>9. Holds(n, q1, f1, b, t)
    BY <1>1, <1>5, <1>6, <1>7, <1>8, HoldsPlainly
<1> QED
    BY <1>3, <1>4, <1>9 DEF f1, q1, t

(* After a push, front and back being the same means that all n slots are  *)
(* taken; expand_queue then lays them out from slot 0 of twice as many.    *)
Expanded(n, q, f, b) ==
    [j \in 0 .. 2 * n - 1 |-> IF j < Copied(n, f, b) THEN q[(f + j) % n] ELSE NoTask]

LEMMA ExpandKeeps ==
    ASSUME NEW n \in Nat \ {0}, NEW q \in [0 .. n - 1 -> Tasks \cup {NoTask}],
           NEW f \in 0 .. n - 1, NEW l \in Seq(Tasks), Len(l) = n,
           \A i \in 1 .. Len(l) :
               l[i] = q[IF f + i - 1 < n THEN f + i - 1 ELSE f + i - 1 - n]
    PROVE  Holds(2 * n, Expanded(n, q, f, f), 0, n, l)
<1> DEFINE q1 == Expanded(n, q, f, f)
<1>1. Copied(n, f, f) = n
    BY RingArithmetic
<1>2. ASSUME NEW j \in 0 .. n - 1
      PROVE  (f + j) % n = (IF f + j < n THEN f + j ELSE f + j - n) /\ (f + j) % n \in 0 .. n - 1
    <2>1. j + 1 \in 1 .. n /\ f + (j + 1) - 1 = f + j
        OBVIOUS
    <2>2. (f + (j + 1) - 1) % n = IF f + (j + 1) - 1 < n THEN f + (j + 1) - 1
                                  ELSE f + (j + 1) - 1 - n
        BY <2>1, RingArithmetic
    <2>3. (f + j) % n = IF f + j < n THEN f + j ELSE f + j - n
        BY <2>1, <2>2
    <2> QED
        BY <2>3
<1>3. q1 = [j \in 0 .. 2 * n - 1 |-> IF j < n THEN q[(f + j) % n] ELSE NoTask]
    BY <1>1 DEF Expanded
<1>4. \A j \in 0 .. n - 1 : q1[j] = q[IF f + j < n THEN f + j ELSE f + j - n]
    BY <1>2, <1>3
<1>5. q1 \in [0 .. 2 * n - 1 -> Tasks \cup {NoTask}]
    <2>1. \A j \in 0 .. 2 * n - 1 : j < n => q[(f + j) % n] \in Tasks \cup {NoTask}
        BY <1>2
    <2> QED
        BY <1>3, <2>1
<1>6. ASSUME NEW i \in 1 .. Len(l)
      PROVE  l[i] = q1[IF 0 + i - 1 < 2 * n THEN 0 + i - 1 ELSE 0 + i - 1 - 2 * n]
    <2>1. /\ i - 1 \in 0 .. n - 1 /\ f + (i - 1) = f + i - 1
          /\ i - 1 = IF 0 + i - 1 < 2 * n THEN 0 + i - 1 ELSE 0 + i - 1 - 2 * n
        OBVIOUS
    <2> HIDE DEF q1
    <2>2. l[i] = q1[i - 1]
        BY <1>4, <2>1
    <2> QED
        BY <2>1, <2>2
<1>7. /\ 2 * n \in Nat \ {0} /\ 0 \in 0 .. 2 * n - 1 /\ n \in 0 .. 2 * n - 1
      /\ Len(l) = IF n >= 0 THEN n - 0 ELSE n - 0 + 2 * n
    OBVIOUS
<1> HIDE DEF q1
<1>8. \A i \in 1 .. Len(l) :
          l[i] = q1[IF 0 + i - 1 < 2 * n THEN 0 + i - 1 ELSE 0 + i - 1 - 2 * n]
    BY <1>6
<1> DEFINE m == 2 * n
<1>9. /\ m \in Nat \ {0} /\ 0 \in 0 .. m - 1 /\ n \in 0 .. m - 1
      /\ q1 \in [0 .. m - 1 -> Tasks \cup {NoTask}]
      /\ Len(l) = IF n >= 0 THEN n - 0 ELSE n - 0 + m
      /\ \A i \in 1 .. Len(l) : l[i] = q1[IF 0 + i - 1 < m THEN 0 + i - 1 ELSE 0 + i - 1 - m]
    BY <1>5, <1>7, <1>8, Zenon
<1> HIDE DEF m
<1>10. Holds(m, q1, 0, n, l)
    BY <1>9, HoldsPlainly
<1> QED
    BY <1>10 DEF q1, m

(* What a push has to leave for Store: q is the ring with the new task in  *)
(* it, f and b its new ends.                                               *)
Filled(n, q, f, b, l) ==
    /\ n \in Nat \ {0} /\ q \in [0 .. n - 1 -> Tasks \cup {NoTask}]
    /\ f \in 0 .. n - 1 /\ b \in 0 .. n - 1 /\ l \in Seq(Tasks)
    /\ Len(l) = IF b > f THEN b - f ELSE b - f + n
    /\ \A i \in 1 .. Len(l) :
           l[i] = q[IF f + i - 1 < n THEN f + i - 1 ELSE f + i - 1 - n]

LEMMA StoreKeeps ==
    ASSUME NEW n, NEW q, NEW f, NEW b, NEW l, Filled(n, q, f, b, l)
    PROVE  /\ f = b => Holds(2 * n, Expanded(n, q, f, b), 0, Copied(n, f, b), l)
           /\ f # b => Holds(n, q, f, b, l)
<1>1. /\ n \in Nat \ {0} /\ q \in [0 .. n - 1 -> Tasks \cup {NoTask}]
      /\ f \in 0 .. n - 1 /\ b \in 0 .. n - 1 /\ l \in Seq(Tasks)
    BY DEF Filled
<1>2. Len(l) = IF b > f THEN b - f ELSE b - f + n
    BY DEF Filled
<1>3. \A i \in 1 .. Len(l) :
          l[i] = q[IF f + i - 1 < n THEN f + i - 1 ELSE f + i - 1 - n]
    BY DEF Filled
<1>4. CASE f = b
    <2>1. Len(l) = n
        BY <1>1, <1>2, <1>4
    <2>2. Copied(n, f, b) = n
        BY <1>1, <1>4, RingArithmetic
    <2>3. Holds(2 * n, Expanded(n, q, f, f), 0, n, l)
        BY <1>1, <1>3, <2>1, ExpandKeeps
    <2> QED
        BY <1>4, <2>2, <2>3
<1>5. CASE f # b
    <2>1. Len(l) = IF b >= f THEN b - f ELSE b - f + n
        BY <1>1, <1>2, <1>5
    <2> QED
        BY <1>1, <1>3, <1>5, <2>1, HoldsPlainly, Zenon
<1> QED
    BY <1>4, <1>5

(* push_back up to expand_queue.                                           *)
LEMMA PushBackFills ==
    ASSUME NEW n, NEW q, NEW f, NEW b, NEW l, Holds(n, q, f, b, l), NEW task \in Tasks,
           NEW b1, b1 = IF b + 1 = n THEN 0 ELSE b + 1
    PROVE  Filled(n, [q EXCEPT ![b] = task], f, b1, Append(l, task))
<1>1. /\ n \in Nat \ {0} /\ q \in [0 .. n - 1 -> Tasks \cup {NoTask}]
      /\ f \in 0 .. n - 1 /\ b \in 0 .. n - 1 /\ l \in Seq(Tasks)
    BY DEF Holds
<1>2. \A i \in 1 .. Len(l) :
          l[i] = q[IF f + i - 1 < n THEN f + i - 1 ELSE f + i - 1 - n]
    BY <1>1, HoldsPlainly
<1>3. Len(l) = IF b >= f THEN b - f ELSE b - f + n
    BY <1>1, HoldsPlainly
<1> DEFINE q1 == [q EXCEPT ![b] = task]
           l1 == Append(l, task)
<1>4. /\ l1 \in Seq(Tasks) /\ Len(l1) = Len(l) + 1 /\ Len(l) \in Nat
      /\ \A i \in 1 .. Len(l) : l1[i] = l[i]
      /\ l1[Len(l) + 1] = task
    BY <1>1, AppendProperties, LenProperties
<1>5. /\ q1 \in [0 .. n - 1 -> Tasks \cup {NoTask}]
      /\ \A j \in 0 .. n - 1 : j # b => q1[j] = q[j]
      /\ q1[b] = task
    BY <1>1
<1> HIDE DEF q1, l1
<1>6. Len(l1) = Len(l) + 1 /\ Len(l) \in Nat /\ b1 \in 0 .. n - 1
    BY <1>1, <1>4
<1>7. Len(l1) = IF b1 > f THEN b1 - f ELSE b1 - f + n
    BY <1>1, <1>3, <1>6
<1>8. ASSUME NEW i \in 1 .. Len(l1)
      PROVE  l1[i] = q1[IF f + i - 1 < n THEN f + i - 1 ELSE f + i - 1 - n]
    <2> DEFINE j == IF f + i - 1 < n THEN f + i - 1 ELSE f + i - 1 - n
    <2>1. CASE i = Len(l) + 1
        <3>1. j = b
            BY <1>1, <1>3, <1>6, <2>1
        <3> QED
            BY <1>4, <1>5, <2>1, <3>1
    <2>2. CASE i # Len(l) + 1
        <3>1. i \in 1 .. Len(l) /\ j \in 0 .. n - 1 /\ j # b
            BY <1>1, <1>3, <1>6, <2>2
        <3>2. l1[i] = q[j]
            BY <1>2, <1>4, <3>1
        <3> HIDE DEF j
        <3> QED
            BY <1>5, <3>1, <3>2 DEF j
    <2> QED
        BY <2>1, <2>2
<1>9. Filled(n, q1, f, b1, l1)
    BY <1>1, <1>4, <1>5, <1>6, <1>7, <1>8, Zenon DEF Filled
<1> QED
    BY <1>9 DEF q1, l1

LEMMA PrependFacts ==
    ASSUME NEW l \in Seq(Tasks), NEW task \in Tasks
    PROVE  /\ <<task>> \o l \in Seq(Tasks) /\ Len(<<task>> \o l) = Len(l) + 1
           /\ Len(l) \in Nat
           /\ (<<task>> \o l)[1] = task
           /\ \A i \in 2 .. Len(l) + 1 : (<<task>> \o l)[i] = l[i - 1]
<1>1. <<task>> \in Seq(Tasks) /\ Len(<<task>>) = 1 /\ <<task>>[1] = task
    OBVIOUS
<1>2. Len(l) \in Nat
    BY LenProperties
<1> DEFINE u == <<task>>
<1> HIDE DEF u
<1>3. /\ u \o l \in Seq(Tasks) /\ Len(u \o l) = Len(u) + Len(l)
      /\ \A i \in 1 .. Len(u) + Len(l) :
             (u \o l)[i] = IF i <= Len(u) THEN u[i] ELSE l[i - Len(u)]
    BY <1>1, ConcatProperties DEF u
<1> QED
    BY <1>1, <1>2, <1>3 DEF u

(* push_front up to expand_queue.                                          *)
LEMMA PushFrontFills ==
    ASSUME NEW n, NEW q, NEW f, NEW b, NEW l, Holds(n, q, f, b, l), NEW task \in Tasks,
           NEW f1, f1 = IF f = 0 THEN n - 1 ELSE f - 1
    PROVE  Filled(n, [q EXCEPT ![f1] = task], f1, b, <<task>> \o l)
<1>1. /\ n \in Nat \ {0} /\ q \in [0 .. n - 1 -> Tasks \cup {NoTask}]
      /\ f \in 0 .. n - 1 /\ b \in 0 .. n - 1 /\ l \in Seq(Tasks)
    BY DEF Holds
<1>2. \A i \in 1 .. Len(l) :
          l[i] = q[IF f + i - 1 < n THEN f + i - 1 ELSE f + i - 1 - n]
    BY <1>1, HoldsPlainly
<1>3. Len(l) = IF b >= f THEN b - f ELSE b - f + n
    BY <1>1, HoldsPlainly
<1> DEFINE q1 == [q EXCEPT ![f1] = task]
           l1 == <<task>> \o l
<1>4. /\ l1 \in Seq(Tasks) /\ Len(l1) = Len(l) + 1 /\ Len(l) \in Nat
      /\ l1[1] = task
      /\ \A i \in 2 .. Len(l) + 1 : l1[i] = l[i - 1]
    BY <1>1, PrependFacts
<1>5. /\ f1 \in 0 .. n - 1 /\ q1 \in [0 .. n - 1 -> Tasks \cup {NoTask}]
      /\ \A j \in 0 .. n - 1 : j # f1 => q1[j] = q[j]
      /\ q1[f1] = task
    BY <1>1
<1> HIDE DEF q1, l1
<1>6. Len(l1) = Len(l) + 1 /\ Len(l) \in Nat /\ f1 \in 0 .. n - 1
    BY <1>1, <1>4
<1>7. Len(l1) = IF b > f1 THEN b - f1 ELSE b - f1 + n
    BY <1>1, <1>3, <1>6
<1>8. ASSUME NEW i \in 1 .. Len(l1)
      PROVE  l1[i] = q1[IF f1 + i - 1 < n THEN f1 + i - 1 ELSE f1 + i - 1 - n]
    <2> DEFINE j == IF f1 + i - 1 < n THEN f1 + i - 1 ELSE f1 + i - 1 - n
    <2>1. CASE i = 1
        <3>1. j = f1
            BY <1>1, <1>6, <2>1
        <3> QED
            BY <1>4, <1>5, <2>1, <3>1
    <2>2. CASE i # 1
        <3>1. /\ i \in 2 .. Len(l) + 1 /\ i - 1 \in 1 .. Len(l)
              /\ j \in 0 .. n - 1 /\ j # f1
              /\ j = IF f + (i - 1) - 1 < n THEN f + (i - 1) - 1 ELSE f + (i - 1) - 1 - n
            BY <1>1, <1>3, <1>6, <2>2
        <3>2. l1[i] = q[j]
            BY <1>2, <1>4, <3>1
        <3> HIDE DEF j
        <3> QED
            BY <1>5, <3>1, <3>2 DEF j
    <2> QED
        BY <2>1, <2>2
<1>9. Filled(n, q1, f1, b, l1)
    BY <1>1, <1>4, <1>5, <1>6, <1>7, <1>8, Zenon DEF Filled
<1> QED
    BY <1>9 DEF q1, l1

-----------------------------------------------------------------------------
(* The rings of the series.                                                *)

(* A step on the ring of one series; queue_size is what new[] was given.   *)
LEMMA OneRing ==
    ASSUME IInv, NEW s \in Works, NEW n,
           DOMAIN queue' = Works, DOMAIN front' = Works, DOMAIN back' = Works,
           DOMAIN queued' = Works,
           \A t \in Works \ {s} : /\ queue'[t] = queue[t] /\ front'[t] = front[t]
                                  /\ back'[t] = back[t] /\ queued'[t] = queued[t],
           Holds(n, queue'[s], front'[s], back'[s], queued'[s])
    PROVE  RingsHold'
<1>1. n \in Nat \ {0} /\ DOMAIN queue'[s] = 0 .. n - 1
    BY DEF Holds
<1>2. Cardinality(0 .. n - 1) = n
    <2>1. 0 \in Int /\ n - 1 \in Int /\ ~(0 > n - 1) /\ n - 1 - 0 + 1 = n
        BY <1>1
    <2> QED
        BY <2>1, FS_Interval
<1>3. Cardinality(DOMAIN queue'[s]) = n
    BY <1>1, <1>2
<1>4. ASSUME NEW t \in Works
      PROVE  Holds(Cardinality(DOMAIN queue'[t]), queue'[t], front'[t], back'[t], queued'[t])
    <2>1. CASE t = s
        BY <1>3, <2>1
    <2>2. CASE t # s
        BY <2>2 DEF IInv, RingsHold, Size
    <2> QED
        BY <2>1, <2>2
<1> QED
    BY <1>4 DEF RingsHold, Size

(* Store after a push.                                                     *)
LEMMA StoreRings ==
    ASSUME IInv, NEW s \in Works, NEW i, NEW task, NEW f, NEW b, NEW l,
           Store(s, i, task, f, b), queued' = [queued EXCEPT ![s] = l],
           Filled(Size(s), [queue[s] EXCEPT ![i] = task], f, b, l)
    PROVE  RingsHold'
<1> DEFINE n == Size(s)
           q == [queue[s] EXCEPT ![i] = task]
           full == f = b
<1>1. /\ queue' = [queue EXCEPT ![s] = IF full THEN Expanded(n, q, f, b) ELSE q]
      /\ front' = [front EXCEPT ![s] = IF full THEN 0 ELSE f]
      /\ back' = [back EXCEPT ![s] = IF full THEN Copied(n, f, b) ELSE b]
    BY DEF Store, Expanded
<1>2. /\ full => Holds(2 * n, Expanded(n, q, f, b), 0, Copied(n, f, b), l)
      /\ ~full => Holds(n, q, f, b, l)
    BY StoreKeeps
<1> HIDE DEF n, q
<1>3. /\ DOMAIN queue' = Works /\ DOMAIN front' = Works /\ DOMAIN back' = Works
      /\ DOMAIN queued' = Works
      /\ \A t \in Works \ {s} : /\ queue'[t] = queue[t] /\ front'[t] = front[t]
                                 /\ back'[t] = back[t] /\ queued'[t] = queued[t]
      /\ queued'[s] = l
      /\ full => /\ queue'[s] = Expanded(n, q, f, b) /\ front'[s] = 0
                 /\ back'[s] = Copied(n, f, b)
      /\ ~full => queue'[s] = q /\ front'[s] = f /\ back'[s] = b
    BY <1>1 DEF IInv, RingsHold
<1>4. CASE full
    BY <1>2, <1>3, <1>4, OneRing
<1>5. CASE ~full
    BY <1>2, <1>3, <1>5, OneRing
<1> QED
    BY <1>4, <1>5

LEMMA RingsUnchanged ==
    ASSUME IInv, UNCHANGED <<queue, front, back, queued>>
    PROVE  RingsHold'
BY DEF IInv, RingsHold, Size

LEMMA PushRings ==
    ASSUME IInv, NEW s \in Works, PushFront(s) \/ PushBack(s)
    PROVE  RingsHold'
<1>1. made' \in Tasks
    BY SeriesAssumption DEF IInv, TypeOK, PushFront, PushBack, MayPush, Tasks
<1>2. Holds(Size(s), queue[s], front[s], back[s], queued[s])
    BY DEF IInv, RingsHold
<1>3. PICK task \in Tasks : task = made'
    BY <1>1
<1>4. CASE PushFront(s)
    <2> DEFINE f == IF front[s] = 0 THEN Size(s) - 1 ELSE front[s] - 1
    <2>1. Filled(Size(s), [queue[s] EXCEPT ![f] = task], f, back[s], <<task>> \o queued[s])
        BY <1>2, PushFrontFills
    <2>2. /\ Store(s, f, task, f, back[s])
          /\ queued' = [queued EXCEPT ![s] = <<task>> \o queued[s]]
        BY <1>3, <1>4 DEF PushFront
    <2> HIDE DEF f
    <2> QED
        BY <2>1, <2>2, StoreRings
<1>5. CASE PushBack(s)
    <2> DEFINE b == IF back[s] + 1 = Size(s) THEN 0 ELSE back[s] + 1
    <2>1. Filled(Size(s), [queue[s] EXCEPT ![back[s]] = task], front[s], b,
                 Append(queued[s], task))
        BY <1>2, PushBackFills
    <2>2. /\ Store(s, back[s], task, front[s], b)
          /\ queued' = [queued EXCEPT ![s] = Append(queued[s], task)]
        BY <1>3, <1>5 DEF PushBack
    <2> HIDE DEF b
    <2> QED
        BY <2>1, <2>2, StoreRings
<1> QED
    BY <1>4, <1>5

(* pop_task, and what it finds.                                            *)
LEMMA PoppedTask ==
    ASSUME IInv, NEW s \in Works
    PROVE  /\ front[s] = back[s] => queued[s] = <<>>
           /\ Popped(s) = NoTask => front[s] = back[s] /\ last[s] = NoTask
<1>1. Holds(Size(s), queue[s], front[s], back[s], queued[s])
    BY DEF IInv, RingsHold
<1>2. CASE front[s] = back[s]
    <2>1. /\ Size(s) \in Nat \ {0} /\ queued[s] \in Seq(Tasks)
          /\ front[s] \in 0 .. Size(s) - 1
          /\ Len(queued[s]) = (back[s] - front[s]) % Size(s)
        BY <1>1 DEF Holds
    <2>2. (back[s] - front[s]) % Size(s) = 0
        BY <1>2, <2>1, RingArithmetic
    <2>3. queued[s] = <<>>
        BY <2>1, <2>2, EmptySeq
    <2> QED
        BY <1>2, <2>3 DEF Popped
<1>3. CASE front[s] # back[s]
    <2>1. queue[s][front[s]] \in Tasks
        BY <1>1, <1>3, PopKeeps
    <2> QED
        BY <1>3, <2>1, SeriesAssumption DEF Popped, Tasks
<1> QED
    BY <1>2, <1>3

LEMMA PopRings ==
    ASSUME IInv, NEW s \in Works, PopTask(s)
    PROVE  RingsHold'
<1>1. CASE front[s] # back[s]
    <2> DEFINE f == IF front[s] + 1 = Size(s) THEN 0 ELSE front[s] + 1
               q == [queue[s] EXCEPT ![front[s]] = NoTask]
    <2>1. /\ queue' = [queue EXCEPT ![s] = q] /\ front' = [front EXCEPT ![s] = f]
          /\ queued' = [queued EXCEPT ![s] = Tail(queued[s])] /\ back' = back
        BY <1>1 DEF PopTask
    <2>2. Holds(Size(s), q, f, back[s], Tail(queued[s]))
        BY <1>1, PopKeeps DEF IInv, RingsHold
    <2> HIDE DEF f, q
    <2>3. /\ DOMAIN queue' = Works /\ DOMAIN front' = Works /\ DOMAIN back' = Works
          /\ DOMAIN queued' = Works
          /\ \A t \in Works \ {s} : /\ queue'[t] = queue[t] /\ front'[t] = front[t]
                                     /\ back'[t] = back[t] /\ queued'[t] = queued[t]
          /\ queue'[s] = q /\ front'[s] = f /\ back'[s] = back[s]
          /\ queued'[s] = Tail(queued[s])
        BY <2>1 DEF IInv, RingsHold
    <2> QED
        BY <2>2, <2>3, OneRing
<1>2. CASE front[s] = back[s]
    BY <1>2, RingsUnchanged DEF PopTask, ring
<1> QED
    BY <1>1, <1>2

(* The series is deleted, and so is its ring.                              *)
LEMMA NewRing == Holds(QueueSize, NoQueue, 0, 0, <<>>)
<1>1. QueueSize \in Nat \ {0} /\ 0 \in 0 .. QueueSize - 1
    BY SeriesAssumption
<1>2. NoQueue \in [0 .. QueueSize - 1 -> Tasks \cup {NoTask}]
    BY <1>1 DEF NoQueue
<1>3. <<>> \in Seq(Tasks) /\ Len(<<>>) = 0
    BY EmptySeq
<1>4. (0 - 0) % QueueSize = 0
    BY <1>1, RingArithmetic
<1> QED
    BY <1>1, <1>2, <1>3, <1>4 DEF Holds

LEMMA EndRings ==
    ASSUME IInv, NEW s \in Works, End(s)
    PROVE  RingsHold'
<1>1. queued[s] = <<>>
    BY PoppedTask DEF End
<1>2. /\ queue' = [queue EXCEPT ![s] = NoQueue] /\ front' = [front EXCEPT ![s] = 0]
      /\ back' = [back EXCEPT ![s] = 0] /\ queued' = queued
    BY DEF End
<1>3. /\ DOMAIN queue' = Works /\ DOMAIN front' = Works /\ DOMAIN back' = Works
      /\ DOMAIN queued' = Works
      /\ \A t \in Works \ {s} : /\ queue'[t] = queue[t] /\ front'[t] = front[t]
                                 /\ back'[t] = back[t] /\ queued'[t] = queued[t]
      /\ queue'[s] = NoQueue /\ front'[s] = 0 /\ back'[s] = 0
      /\ queued'[s] = <<>>
    BY <1>1, <1>2 DEF IInv, RingsHold
<1> QED
    BY <1>3, NewRing, OneRing

-----------------------------------------------------------------------------
(* The invariant, part by part.                                            *)

LEMMA InitIInv == Init => IInv
<1> SUFFICES ASSUME Init PROVE IInv
    OBVIOUS
<1>1. TypeOK
    BY SeriesAssumption DEF Init, TypeOK
<1>2. \A s \in Works : /\ queue[s] = NoQueue /\ front[s] = 0 /\ back[s] = 0
                       /\ queued[s] = <<>>
    BY DEF Init
<1>3. Cardinality(DOMAIN NoQueue) = QueueSize
    <2>1. /\ DOMAIN NoQueue = 0 .. QueueSize - 1 /\ 0 \in Int /\ QueueSize - 1 \in Int
          /\ ~(0 > QueueSize - 1) /\ QueueSize - 1 - 0 + 1 = QueueSize
        BY SeriesAssumption DEF NoQueue
    <2> QED
        BY <2>1, FS_Interval
<1>4. RingsHold
    BY <1>2, <1>3, NewRing DEF Init, RingsHold, Size
<1>5. EndsEmpty /\ StopsAfterOne
    BY DEF Init, EndsEmpty, StopsAfterOne
<1>6. ParallelCounts
    BY DEF Init, ParallelCounts
<1> QED
    BY <1>1, <1>4, <1>5, <1>6 DEF IInv

(* What a step of a series leaves alone.                                   *)
SeriesStep(s) ==
    \/ PushFront(s) \/ PushBack(s) \/ Cancel(s) \/ Start(s) \/ Dismiss(s) \/ Run(s)

LEMMA PopTaskTypes ==
    ASSUME IInv, NEW s \in Works, PopTask(s)
    PROVE  /\ last' \in [Works -> {NoTask, LastTask}]
           /\ \A t \in Works \ {s} : last'[t] = last[t] /\ queued'[t] = queued[t]
<1>1. CASE front[s] # back[s]
    BY <1>1 DEF PopTask, IInv, TypeOK, RingsHold
<1>2. CASE front[s] = back[s]
    BY <1>2 DEF PopTask, IInv, TypeOK
<1> QED
    BY <1>1, <1>2

LEMMA TypeStep ==
    ASSUME IInv, [Next]_vars
    PROVE  TypeOK'
<1>1. CASE ParallelStart
    <2>1. Cardinality(members) \in Int
        <3>1. IsFiniteSet(members)
            BY SeriesAssumption, FS_Subset DEF IInv, TypeOK
        <3> QED
            BY <3>1, FS_CardinalityType
    <2> QED
        BY <1>1, <2>1 DEF IInv, TypeOK, ParallelStart, seriesVars
<1>2. ASSUME NEW s \in Works, PushFront(s) \/ PushBack(s) PROVE TypeOK'
    <2>1. made' \in 0 .. MaxTasks
        BY <1>2, SeriesAssumption DEF IInv, TypeOK, PushFront, PushBack, MayPush
    <2> QED
        BY <1>2, <2>1 DEF IInv, TypeOK, PushFront, PushBack, parallelVars
<1>3. ASSUME NEW s \in Works, Cancel(s) \/ Start(s) \/ Dismiss(s) \/ Done(s) PROVE TypeOK'
    <2>1. canceled' \in [Works -> BOOLEAN] /\ saw' \in [Works -> BOOLEAN]
        BY <1>3 DEF IInv, TypeOK, Cancel, Start, Dismiss, Done
    <2> QED
        BY <1>3, <2>1 DEF IInv, TypeOK, Cancel, Start, Dismiss, Done, parallelVars
<1>4. ASSUME NEW s \in Works, Dispatch(s) \/ Destroy(s) PROVE TypeOK'
    <2>1. last' \in [Works -> {NoTask, LastTask}]
        BY <1>4, PopTaskTypes DEF Dispatch, Destroy
    <2>2. after' \in [Works -> Nat]
        BY <1>4 DEF IInv, TypeOK, Dispatch, Destroy
    <2>3. /\ pc' \in [Works -> {"created", "running", "popping", "dismissing", "ended",
                                 "counted"}]
          /\ UNCHANGED <<canceled, saw, made, members, undone, nleft, parallel>>
        BY <1>4 DEF IInv, TypeOK, Dispatch, Destroy, parallelVars
    <2> QED
        BY <2>1, <2>2, <2>3 DEF IInv, TypeOK
<1>5. ASSUME NEW s \in Works, End(s) \/ ParallelDispatch(s) \/ ParentCounts(s) PROVE TypeOK'
    <2>1. saw' \in [Works -> BOOLEAN]
        BY <1>5 DEF IInv, TypeOK, End, ParallelDispatch, ParentCounts
    <2> QED
        BY <1>5, <2>1 DEF IInv, TypeOK, End, ParallelDispatch, ParentCounts, parallelVars
<1>6. CASE UNCHANGED vars
    BY <1>6 DEF IInv, TypeOK, vars, seriesVars, parallelVars
<1> QED
    BY <1>1, <1>2, <1>3, <1>4, <1>5, <1>6 DEF Next, Run, AllOver

LEMMA RingsStep ==
    ASSUME IInv, [Next]_vars
    PROVE  RingsHold'
<1>1. ASSUME NEW s \in Works, Dispatch(s) \/ Destroy(s) PROVE RingsHold'
    BY <1>1, PopRings DEF Dispatch, Destroy
<1>2. ASSUME NEW s \in Works,
             \/ Cancel(s) \/ Start(s) \/ Dismiss(s) \/ Done(s)
             \/ ParallelDispatch(s) \/ ParentCounts(s)
      PROVE  RingsHold'
    BY <1>2, RingsUnchanged
    DEF Cancel, Start, Dismiss, Done, ParallelDispatch, ParentCounts, ring
<1>3. CASE ParallelStart \/ UNCHANGED vars
    BY <1>3, RingsUnchanged DEF ParallelStart, vars, seriesVars, ring
<1> QED
    BY <1>1, <1>2, <1>3, PushRings, EndRings DEF Next, Run, AllOver

LEMMA EmptyStep ==
    ASSUME IInv, [Next]_vars
    PROVE  EndsEmpty'
<1> SUFFICES ASSUME NEW t \in Works, pc'[t] \in {"ended", "counted"}
             PROVE  queued'[t] = <<>> /\ last'[t] = NoTask
    BY DEF EndsEmpty
<1>1. ASSUME NEW s \in Works, PushFront(s) \/ PushBack(s)
      PROVE  queued'[t] = <<>> /\ last'[t] = NoTask
    <2>1. pc'[t] = pc[t] /\ last' = last /\ pc[s] \in {"created", "running"}
        BY <1>1 DEF PushFront, PushBack, MayPush
    <2>2. t # s
        BY <2>1
    <2>3. queued'[t] = queued[t]
        BY <1>1, <2>2 DEF IInv, RingsHold, PushFront, PushBack
    <2> QED
        BY <2>1, <2>3 DEF IInv, EndsEmpty
<1>2. ASSUME NEW s \in Works, Dispatch(s) \/ Destroy(s)
      PROVE  queued'[t] = <<>> /\ last'[t] = NoTask
    <2>1. t # s /\ pc'[t] = pc[t]
        BY <1>2 DEF IInv, TypeOK, Dispatch, Destroy
    <2> QED
        BY <1>2, <2>1, PopTaskTypes DEF IInv, EndsEmpty, Dispatch, Destroy
<1>3. ASSUME NEW s \in Works, End(s)
      PROVE  queued'[t] = <<>> /\ last'[t] = NoTask
    <2>1. queued' = queued /\ last' = last /\ (t # s => pc'[t] = pc[t])
        BY <1>3 DEF IInv, TypeOK, End
    <2>2. queued[s] = <<>> /\ last[s] = NoTask
        BY <1>3, PoppedTask DEF End
    <2> QED
        BY <2>1, <2>2 DEF IInv, EndsEmpty
<1>4. ASSUME NEW s \in Works,
             \/ Cancel(s) \/ Start(s) \/ Dismiss(s) \/ Done(s)
             \/ ParallelDispatch(s) \/ ParentCounts(s)
      PROVE  queued'[t] = <<>> /\ last'[t] = NoTask
    <2>1. queued' = queued /\ last' = last
        BY <1>4 DEF Cancel, Start, Dismiss, Done, ParallelDispatch, ParentCounts
    <2>2. pc[t] \in {"ended", "counted"}
        BY <1>4
        DEF IInv, TypeOK, Cancel, Start, Dismiss, Done, ParallelDispatch, ParentCounts
    <2> QED
        BY <2>1, <2>2 DEF IInv, EndsEmpty
<1>5. CASE ParallelStart \/ UNCHANGED vars
    BY <1>5 DEF IInv, EndsEmpty, ParallelStart, vars, seriesVars
<1> QED
    BY <1>1, <1>2, <1>3, <1>4, <1>5 DEF Next, Run, AllOver

LEMMA StopStep ==
    ASSUME IInv, [Next]_vars
    PROVE  StopsAfterOne'
<1> SUFFICES ASSUME NEW t \in Works
             PROVE  /\ after'[t] <= 1
                    /\ pc'[t] = "created" => after'[t] = 0
                    /\ after'[t] = 1 => canceled'[t] /\ (pc'[t] = "popping" => saw'[t])
    BY DEF StopsAfterOne
<1>1. /\ after[t] \in Nat /\ after[t] <= 1
      /\ pc[t] = "created" => after[t] = 0
      /\ after[t] = 1 => canceled[t] /\ (pc[t] = "popping" => saw[t])
    BY DEF IInv, TypeOK, StopsAfterOne
<1>2. ASSUME NEW s \in Works, PushFront(s) \/ PushBack(s) \/ Destroy(s)
      PROVE  UNCHANGED <<after, canceled, saw, pc>>
    BY <1>2 DEF PushFront, PushBack, Destroy
<1>3. CASE ParallelStart \/ UNCHANGED vars
    BY <1>1, <1>3 DEF ParallelStart, vars, seriesVars
<1>4. ASSUME NEW s \in Works, Cancel(s) \/ Start(s) \/ Dismiss(s) \/ Done(s)
      PROVE  /\ after'[t] = after[t]
             /\ pc'[t] = "created" => pc[t] = "created"
             /\ canceled[t] => canceled'[t]
             /\ \/ pc'[t] = "popping" => pc[t] = "popping" /\ saw'[t] = saw[t]
                \/ saw'[t] = canceled[t]
    BY <1>4 DEF IInv, TypeOK, Cancel, Start, Dismiss, Done
<1>5. ASSUME NEW s \in Works, End(s) \/ ParallelDispatch(s) \/ ParentCounts(s)
      PROVE  /\ after'[t] = after[t] /\ canceled'[t] = canceled[t]
             /\ pc'[t] = "created" => pc[t] = "created"
             /\ pc'[t] = "popping" => pc[t] = "popping" /\ saw'[t] = saw[t]
    BY <1>5 DEF IInv, TypeOK, End, ParallelDispatch, ParentCounts
<1>6. ASSUME NEW s \in Works, Dispatch(s)
      PROVE  /\ canceled'[t] = canceled[t] /\ saw'[t] = saw[t]
             /\ t # s => pc'[t] = pc[t] /\ after'[t] = after[t]
             /\ t = s => /\ pc[t] = "popping" /\ ~saw[t] /\ pc'[t] = "running"
                         /\ after'[t] = IF canceled[t] THEN after[t] + 1 ELSE after[t]
    BY <1>6 DEF IInv, TypeOK, Dispatch
<1>7. ASSUME NEW s \in Works, SeriesStep(s)
      PROVE  /\ after'[t] <= 1
             /\ pc'[t] = "created" => after'[t] = 0
             /\ after'[t] = 1 => canceled'[t] /\ (pc'[t] = "popping" => saw'[t])
    <2>1. CASE PushFront(s) \/ PushBack(s) \/ Destroy(s)
        BY <1>1, <1>2, <2>1
    <2>2. CASE Cancel(s) \/ Start(s) \/ Dismiss(s) \/ Done(s)
        BY <1>1, <1>4, <2>2
    <2>3. CASE End(s) \/ ParallelDispatch(s) \/ ParentCounts(s)
        BY <1>1, <1>5, <2>3
    <2>4. CASE Dispatch(s)
        BY <1>1, <1>6, <2>4
    <2> QED
        BY <1>7, <2>1, <2>2, <2>3, <2>4 DEF SeriesStep, Run
<1> QED
    BY <1>3, <1>7 DEF Next, SeriesStep, AllOver

LEMMA ParallelStep ==
    ASSUME IInv, [Next]_vars
    PROVE  ParallelCounts'
<1>1. /\ members \subseteq Works /\ undone \subseteq members
      /\ pc \in [Works -> {"created", "running", "popping", "dismissing", "ended", "counted"}]
    BY DEF IInv, TypeOK
<1>2. IsFiniteSet(Uncounted) /\ Cardinality(Uncounted) \in Nat
    BY <1>1, SeriesAssumption, FS_Subset, FS_CardinalityType DEF Uncounted
<1>3. CASE ParallelStart
    <2>1. \A s \in members : pc[s] = "created"
        BY <1>3 DEF IInv, ParallelCounts, ParallelStart
    <2>2. Uncounted' = members
        BY <1>3, <2>1 DEF ParallelStart, seriesVars, Uncounted
    <2> QED
        BY <1>3, <2>1, <2>2 DEF ParallelCounts, ParallelStart, seriesVars
<1>4. CASE UNCHANGED vars
    <2>1. Uncounted' = Uncounted
        BY <1>4 DEF Uncounted, vars, seriesVars, parallelVars
    <2> QED
        BY <1>4, <2>1 DEF IInv, ParallelCounts, vars, seriesVars, parallelVars
<1>5. ASSUME NEW s \in Works,
             \/ PushFront(s) \/ PushBack(s) \/ Cancel(s) \/ Start(s) \/ Dismiss(s)
             \/ Done(s) \/ Dispatch(s) \/ Destroy(s) \/ End(s)
      PROVE  ParallelCounts'
    <2>1. UNCHANGED <<members, undone, nleft, parallel>>
        BY <1>5 DEF PushFront, PushBack, Cancel, Start, Dismiss, Done, Dispatch, Destroy, End,
                    parallelVars
    <2>2. /\ \A t \in Works \ {s} : pc'[t] = pc[t]
          /\ pc'[s] = "counted" <=> pc[s] = "counted"
          /\ s \in members /\ pc[s] = "created" => pc'[s] = "created"
        BY <1>1, <1>5 DEF PushFront, PushBack, Cancel, Start, Dismiss, Done, Dispatch,
                          Destroy, End
    <2>3. Uncounted' = Uncounted
        BY <1>1, <2>1, <2>2 DEF Uncounted
    <2>4. \A t \in members : pc[t] = "created" => pc'[t] = "created"
        BY <1>1, <2>2
    <2> QED
        BY <1>1, <2>1, <2>3, <2>4 DEF IInv, ParallelCounts
<1>6. ASSUME NEW s \in Works, ParallelDispatch(s)
      PROVE  ParallelCounts'
    <2>1. /\ s \in undone /\ undone' = undone \ {s} /\ pc' = [pc EXCEPT ![s] = "running"]
          /\ UNCHANGED <<members, nleft, parallel>>
        BY <1>6 DEF ParallelDispatch
    <2>2. pc[s] = "created" /\ s \in members /\ parallel # "created"
        BY <1>1, <2>1 DEF IInv, ParallelCounts
    <2>3. Uncounted' = Uncounted
        BY <1>1, <2>1, <2>2 DEF Uncounted
    <2> QED
        BY <1>1, <2>1, <2>2, <2>3 DEF IInv, ParallelCounts
<1>7. ASSUME NEW s \in Works, ParentCounts(s)
      PROVE  ParallelCounts'
    <2>1. /\ pc[s] = "ended" /\ s \in members /\ nleft' = nleft - 1
          /\ parallel' = IF nleft' = 0 THEN "done" ELSE parallel
          /\ pc' = [pc EXCEPT ![s] = "counted"] /\ UNCHANGED <<members, undone>>
        BY <1>7 DEF ParentCounts
    <2>2. s \in Uncounted /\ Uncounted' = Uncounted \ {s}
        BY <1>1, <2>1 DEF Uncounted
    <2>3. parallel = "dispatched" /\ nleft = Cardinality(Uncounted)
        BY <2>1, <2>2 DEF IInv, TypeOK, ParallelCounts
    <2>4. /\ Cardinality(Uncounted') = nleft' /\ IsFiniteSet(Uncounted')
        BY <1>2, <2>1, <2>2, <2>3, FS_RemoveElement
    <2>5. parallel' = "done" => Uncounted' = {}
        BY <2>1, <2>3, <2>4, FS_EmptySet
    <2>6. \A t \in undone' : pc'[t] = "created"
        BY <1>1, <2>1 DEF IInv, ParallelCounts
    <2> QED
        BY <2>1, <2>3, <2>4, <2>5, <2>6 DEF ParallelCounts
<1> QED
    BY <1>3, <1>4, <1>5, <1>6, <1>7 DEF Next, Run, AllOver

-----------------------------------------------------------------------------
(***************************************************************************)
(* Every step of a series, of its users and of the parallel task keeps the *)
(* invariant.                                                              *)
(***************************************************************************)
THEOREM SeriesInductive == IInv /\ [Next]_vars => IInv'
BY TypeStep, RingsStep, EmptyStep, StopStep, ParallelStep DEF IInv

LEMMA SeriesAlways == Spec => []IInv
BY InitIInv, SeriesInductive, PTL DEF Spec

(***************************************************************************)
(* For any initial size of the ring and any number of pushes at both ends, *)
(* through wrap-around and growth, the ring of a series holds its tasks in *)
(* the order the pushes asked for.                                         *)
(***************************************************************************)
THEOREM OrderKept == Spec => []RunsInOrder
<1>1. ASSUME IInv, NEW s \in Works PROVE Contents(s) = queued[s]
    <2>1. Holds(Size(s), queue[s], front[s], back[s], queued[s])
        BY <1>1 DEF IInv, RingsHold
    <2>2. /\ queued[s] \in Seq(Tasks) /\ Len(queued[s]) = (back[s] - front[s]) % Size(s)
          /\ \A i \in 1 .. Len(queued[s]) :
                 queued[s][i] = queue[s][(front[s] + i - 1) % Size(s)]
        BY <2>1 DEF Holds
    <2>3. queued[s] = [i \in 1 .. Len(queued[s]) |-> queued[s][i]]
        BY <2>2
    <2> QED
        BY <2>2, <2>3 DEF Contents
<1>2. IInv => RunsInOrder
    BY <1>1 DEF RunsInOrder
<1> QED
    BY <1>2, SeriesAlways, PTL

(***************************************************************************)
(* A series ends with all its tasks dispatched or deleted, and dispatches  *)
(* at most one after it was canceled.                                      *)
(***************************************************************************)
THEOREM NothingLeft == Spec => []NothingLeftBehind
<1>1. IInv => NothingLeftBehind
    BY DEF IInv, EndsEmpty, StopsAfterOne, NothingLeftBehind
<1> QED
    BY <1>1, SeriesAlways, PTL

(***************************************************************************)
(* However many subtasks a parallel task has, and however their ends mix   *)
(* with the loop that starts them, its done() is run when all have ended.  *)
(***************************************************************************)
THEOREM DoneComesLast == Spec => []ParallelDoneLast
<1>1. IInv => ParallelDoneLast
    BY DEF IInv, TypeOK, ParallelCounts, Uncounted, ParallelDoneLast
<1> QED
    BY <1>1, SeriesAlways, PTL
=============================================================================
