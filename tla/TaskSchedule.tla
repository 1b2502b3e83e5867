---------------------------- MODULE TaskSchedule ----------------------------
(***************************************************************************)
(* What a task scheduler promises: one task runs at a time; a task rests   *)
(* for its interval between two runs; a task with a lifetime starts no run *)
(* after it is over, and until the shutdown only such tasks leave.  Once   *)
(* the shutdown has begun nothing runs and nothing is added.               *)
(***************************************************************************)
EXTENDS Naturals

CONSTANTS Tasks, Timed, InterVall, LifeTime, NoTask

VARIABLES
  scheduled,  \* the tasks that have been added and have not left
  running,    \* the task that runs, or NoTask
  rested,     \* task -> time since its last run ended, up to its interval
  age,        \* task -> time since it was added, up to its lifetime and one
  closing     \* the shutdown has begun

vars == <<scheduled, running, rested, age, closing>>

Init ==
  /\ scheduled = {} /\ running = NoTask /\ ~closing
  /\ rested = InterVall
  /\ age = [k \in Tasks |-> 0]

Idle == running = NoTask /\ ~closing
Expired(k) == k \in Timed /\ age[k] > LifeTime[k]

Schedule(k) ==
  /\ Idle /\ k \notin scheduled
  /\ scheduled' = scheduled \cup {k}
  /\ rested' = [rested EXCEPT ![k] = InterVall[k]]
  /\ age' = [age EXCEPT ![k] = 0]
  /\ UNCHANGED <<running, closing>>

Start(k) ==
  /\ Idle /\ k \in scheduled
  /\ rested[k] = InterVall[k] /\ ~Expired(k)
  /\ running' = k
  /\ UNCHANGED <<scheduled, rested, age, closing>>

Finish ==
  /\ running \in scheduled
  /\ running' = NoTask
  /\ rested' = [rested EXCEPT ![running] = 0]
  /\ UNCHANGED <<scheduled, age, closing>>

Retire(k) ==
  /\ running = NoTask /\ k \in scheduled
  /\ closing \/ Expired(k)
  /\ scheduled' = scheduled \ {k}
  /\ UNCHANGED <<running, rested, age, closing>>

Close ==
  /\ Idle
  /\ closing' = TRUE
  /\ UNCHANGED <<scheduled, running, rested, age>>

\* Time passes, as far as the intervals and lifetimes can tell.
Elapse ==
  /\ rested' = [k \in Tasks |-> IF rested[k] < InterVall[k] THEN rested[k] + 1 ELSE rested[k]]
  /\ age' = [k \in Tasks |-> IF age[k] <= LifeTime[k] THEN age[k] + 1 ELSE age[k]]
  /\ UNCHANGED <<scheduled, running, closing>>

Next == \/ \E k \in Tasks : Schedule(k) \/ Start(k) \/ Retire(k)
        \/ Finish \/ Close \/ Elapse

Spec == Init /\ [][Next]_vars
=============================================================================
