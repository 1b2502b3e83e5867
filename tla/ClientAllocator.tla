-------------------------- MODULE ClientAllocator ---------------------------
(***************************************************************************)
(* What a connection pool promises the threads that run queries: a fixed   *)
(* number of places, each lent to one thread at a time, and a refusal only *)
(* to a thread that met every place taken while it asked.  A place whose   *)
(* thread drops it is gone for good.  A pool that cannot open a connection *)
(* fails the call and serves nobody after it.                              *)
(***************************************************************************)
CONSTANTS Threads, Places, NoThread

VARIABLES
  holder,   \* place -> the thread it is lent to, or NoThread
  gone,     \* places that were dropped
  asking,   \* threads waiting for an answer
  refused,  \* threads that got none
  metFull,  \* threads asking that have met the pool with every place lent
  wedged    \* opening a connection has failed

vars == <<holder, gone, asking, refused, metFull, wedged>>

Init ==
  /\ holder = [p \in Places |-> NoThread]
  /\ gone = {} /\ asking = {} /\ refused = {} /\ metFull = {}
  /\ wedged = FALSE

Free(p) == holder[p] = NoThread /\ p \notin gone
Served == asking \cup refused \cup {holder[p] : p \in Places}

Ask(t) ==
  /\ t \notin Served
  /\ asking' = asking \cup {t}
  /\ UNCHANGED <<holder, gone, refused, wedged>>

Grant(t, p) ==
  /\ ~wedged /\ t \in asking /\ Free(p)
  /\ holder' = [holder EXCEPT ![p] = t]
  /\ asking' = asking \ {t}
  /\ UNCHANGED <<gone, refused, wedged>>

Refuse(t) ==
  /\ ~wedged /\ t \in asking /\ t \in metFull
  /\ asking' = asking \ {t}
  /\ refused' = refused \cup {t}
  /\ UNCHANGED <<holder, gone, wedged>>

Fail(t) ==
  /\ ~wedged /\ t \in asking
  /\ asking' = asking \ {t}
  /\ wedged' = TRUE
  /\ UNCHANGED <<holder, gone, refused>>

Leave(t) ==
  /\ t \in refused
  /\ refused' = refused \ {t}
  /\ UNCHANGED <<holder, gone, asking, wedged>>

GiveBack(p) ==
  /\ holder[p] # NoThread
  /\ holder' = [holder EXCEPT ![p] = NoThread]
  /\ UNCHANGED <<gone, asking, refused, wedged>>

Drop(p) ==
  /\ holder[p] # NoThread
  /\ holder' = [holder EXCEPT ![p] = NoThread]
  /\ gone' = gone \cup {p}
  /\ UNCHANGED <<asking, refused, wedged>>

Next ==
  /\ \/ \E t \in Threads : Ask(t) \/ Refuse(t) \/ Fail(t) \/ Leave(t)
     \/ \E t \in Threads, p \in Places : Grant(t, p)
     \/ \E p \in Places : GiveBack(p) \/ Drop(p)
  /\ metFull' = {t \in asking' : t \in metFull \/ \A p \in Places : ~Free(p)'}

Spec == Init /\ [][Next]_vars
=============================================================================
