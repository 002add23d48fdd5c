----------------------------- MODULE ResultFifo -----------------------------
(***************************************************************************)
(* What the pollers and the handler threads expect of the queue between    *)
(* them: results leave in the order in which they entered, each exactly    *)
(* once, and a handler thread is told that there is nothing only when the  *)
(* queue is closed and empty, and will stay so.                            *)
(***************************************************************************)
EXTENDS Sequences

CONSTANTS Results, Consumers

VARIABLES
    content,    \* the results in the queue
    got,        \* the results taken out, in order
    closed,     \* a get no longer waits
    told        \* the handler threads that have been told there is nothing

fifoVars == <<content, got, closed, told>>

Init == content = <<>> /\ got = <<>> /\ closed = FALSE /\ told = {}

Put(r) ==
    /\ ~closed
    /\ content' = Append(content, r)
    /\ UNCHANGED <<got, closed, told>>

Get ==
    /\ content # <<>>
    /\ got' = Append(got, Head(content))
    /\ content' = Tail(content)
    /\ UNCHANGED <<closed, told>>

Nothing(c) ==
    /\ closed
    /\ content = <<>>
    /\ told' = told \cup {c}
    /\ UNCHANGED <<content, got, closed>>

Close ==
    /\ closed' = TRUE
    /\ UNCHANGED <<content, got, told>>

Next ==
    \/ Get \/ Close
    \/ \E r \in Results : Put(r)
    \/ \E c \in Consumers : Nothing(c)

Spec == Init /\ [][Next]_fifoVars
=============================================================================
