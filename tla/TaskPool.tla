------------------------------ MODULE TaskPool ------------------------------
(***************************************************************************)
(* What a coroutine scheduler promises to the tasks given to it: each is   *)
(* begun once, runs on one worker at a time, and a wake-up is never lost,  *)
(* not even one that comes while the task is still on its way to sleep.    *)
(***************************************************************************)
CONSTANTS Workers, Tasks, NoTask

VARIABLES queued, running, suspended, woken, done

poolVars == <<queued, running, suspended, woken, done>>

Running == {running[w] : w \in Workers} \ {NoTask}
Known   == queued \cup Running \cup suspended \cup done

Init == /\ queued = {} /\ suspended = {} /\ woken = {} /\ done = {}
        /\ running = [w \in Workers |-> NoTask]

Submit(t) == /\ t \notin Known
             /\ queued' = queued \cup {t}
             /\ UNCHANGED <<running, suspended, woken, done>>

\* A worker takes up a waiting task, for the first time or again.
Resume(w, t) == /\ t \in queued /\ running[w] = NoTask
                /\ queued' = queued \ {t}
                /\ running' = [running EXCEPT ![w] = t]
                /\ UNCHANGED <<suspended, woken, done>>

\* A wake-up of a task that sleeps, or that is about to.
Wake(t) == \/ /\ t \in suspended
              /\ suspended' = suspended \ {t}
              /\ queued' = queued \cup {t}
              /\ UNCHANGED <<running, woken, done>>
           \/ /\ t \in Running \ woken
              /\ woken' = woken \cup {t}
              /\ UNCHANGED <<queued, running, suspended, done>>

LeavesWorker(w) == running' = [running EXCEPT ![w] = NoTask]

\* The task goes to sleep, unless its wake-up has come already.
Hold(w) == /\ running[w] # NoTask /\ LeavesWorker(w)
           /\ IF running[w] \in woken
                THEN /\ woken' = woken \ {running[w]}
                     /\ queued' = queued \cup {running[w]}
                     /\ UNCHANGED suspended
                ELSE /\ suspended' = suspended \cup {running[w]}
                     /\ UNCHANGED <<woken, queued>>
           /\ UNCHANGED done

Yield(w) == /\ running[w] \notin woken \cup {NoTask} /\ LeavesWorker(w)
            /\ queued' = queued \cup {running[w]}
            /\ UNCHANGED <<suspended, woken, done>>

Finish(w) == /\ running[w] \notin woken \cup {NoTask} /\ LeavesWorker(w)
             /\ done' = done \cup {running[w]}
             /\ UNCHANGED <<queued, suspended, woken>>

Next == \/ \E t \in Tasks : Submit(t) \/ Wake(t)
        \/ \E w \in Workers : \/ Hold(w) \/ Yield(w) \/ Finish(w)
                              \/ \E t \in Tasks : Resume(w, t)

Spec == Init /\ [][Next]_poolVars
=============================================================================
