------------------------------- MODULE TaskPool -------------------------------
(***************************************************************************)
(* What a coroutine scheduler promises its users, with no queue, lock,      *)
(* counter or idle fiber: jobs are accepted while the pool is open, each    *)
(* job is executed by one thread at a time, a job may be suspended and      *)
(* continued later, and a thread leaves only when nothing is left to do,    *)
(* after which nothing is ever left to do again.                            *)
(***************************************************************************)
CONSTANTS Threads, Jobs, NoJob

VARIABLES waiting,  \* accepted or suspended, to be continued
          on,       \* per thread: the job it executes
          done,     \* the jobs that ended
          left      \* the threads that left the pool

poolVars == <<waiting, on, done, left>>

Init ==
    /\ waiting = {}
    /\ on = [t \in Threads |-> NoJob]
    /\ done = {}
    /\ left = {}

Accept(j) ==
    /\ left = {}
    /\ j \notin waiting \cup done
    /\ \A t \in Threads : on[t] # j
    /\ waiting' = waiting \cup {j}
    /\ UNCHANGED <<on, done, left>>

Begin(t, j) ==
    /\ j \in waiting
    /\ on[t] = NoJob
    /\ t \notin left
    /\ waiting' = waiting \ {j}
    /\ on' = [on EXCEPT ![t] = j]
    /\ UNCHANGED <<done, left>>

Suspend(t) ==
    /\ on[t] # NoJob
    /\ waiting' = waiting \cup {on[t]}
    /\ on' = [on EXCEPT ![t] = NoJob]
    /\ UNCHANGED <<done, left>>

End(t) ==
    /\ on[t] # NoJob
    /\ done' = done \cup {on[t]}
    /\ on' = [on EXCEPT ![t] = NoJob]
    /\ UNCHANGED <<waiting, left>>

Leave(t) ==
    /\ waiting = {}
    /\ \A u \in Threads : on[u] = NoJob
    /\ left' = left \cup {t}
    /\ UNCHANGED <<waiting, on, done>>

Next ==
    \/ \E j \in Jobs : Accept(j)
    \/ \E t \in Threads :
          \/ \E j \in Jobs : Begin(t, j)
          \/ Suspend(t) \/ End(t) \/ Leave(t)

Spec == Init /\ [][Next]_poolVars
=============================================================================
