------------------------------ MODULE TaskPool ------------------------------
(***************************************************************************)
(* What a thread pool promises the code that submits tasks to it, without  *)
(* its threads, its locks or its wakeups: tasks are started in the order   *)
(* in which they were submitted; none is started once the pool is being    *)
(* closed; those that are left are handed back, in order, after the last   *)
(* running one has returned; and when the pool is closed only tasks that   *)
(* were submitted while tasks were being handed back can be left over.     *)
(*                                                                         *)
(* ThrdPool implements this specification; Executor is built on it.        *)
(***************************************************************************)
EXTENDS Naturals, Sequences

CONSTANT Tasks

VARIABLES
    waiting,    \* the submitted tasks, each with whether it came late
    running,    \* how many threads run each task
    phase       \* open, closing, handing (tasks back) or closed

tpVars == <<waiting, running, phase>>

Entry(k) == [task |-> k, late |-> phase = "handing"]

Idle == \A k \in Tasks : running[k] = 0

Init ==
    /\ waiting = <<>>
    /\ running = [k \in Tasks |-> 0]
    /\ phase = "open"

(* While the pool is closing only a running task can submit another.       *)
Submit(k) ==
    /\ phase # "closed"
    /\ phase = "closing" => ~Idle
    /\ waiting' = Append(waiting, Entry(k))
    /\ UNCHANGED <<running, phase>>

Start(k) ==
    /\ phase = "open"
    /\ waiting # <<>>
    /\ Head(waiting).task = k
    /\ waiting' = Tail(waiting)
    /\ running' = [running EXCEPT ![k] = @ + 1]
    /\ UNCHANGED phase

Finish(k) ==
    /\ running[k] > 0
    /\ running' = [running EXCEPT ![k] = @ - 1]
    /\ UNCHANGED <<waiting, phase>>

Close ==
    /\ phase = "open"
    /\ phase' = "closing"
    /\ UNCHANGED <<waiting, running>>

BeginHandOver ==
    /\ phase = "closing"
    /\ Idle
    /\ phase' = "handing"
    /\ UNCHANGED <<waiting, running>>

HandOver(k) ==
    /\ phase = "handing"
    /\ waiting # <<>>
    /\ Head(waiting).task = k
    /\ waiting' = Tail(waiting)
    /\ UNCHANGED <<running, phase>>

Closed ==
    /\ phase = "handing"
    /\ \A i \in DOMAIN waiting : waiting[i].late
    /\ phase' = "closed"
    /\ UNCHANGED <<waiting, running>>

(* The pool could not be created: nothing was ever submitted to it.        *)
NotCreated ==
    /\ phase \in {"open", "closing"}
    /\ waiting = <<>>
    /\ Idle
    /\ phase' = "closed"
    /\ UNCHANGED <<waiting, running>>

Next ==
    \/ \E k \in Tasks : Submit(k) \/ Start(k) \/ Finish(k) \/ HandOver(k)
    \/ Close \/ BeginHandOver \/ Closed \/ NotCreated

Spec == Init /\ [][Next]_tpVars
=============================================================================
