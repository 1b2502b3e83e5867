---------------------------- MODULE TaskManager -----------------------------
(***************************************************************************)
(* TaskManager of DragonFiesta.Shared, which runs the periodic Tasks of    *)
(* every server, and the ShutdownEvent, the TimerTask that ends it.        *)
(*                                                                         *)
(* Each executor thread walks over the map mTasks without a lock and takes *)
(* mMutex for the one task it looks at: it runs the task if its interval   *)
(* is over, and removes it if its lifetime is.  The main thread adds tasks *)
(* and starts the shutdown.  What an executor does under mMutex up to a    *)
(* callback is one action.  Clocks count time only as far as an interval   *)
(* or a lifetime can tell: getMSTime's wrap after 49 days is left out.     *)
(***************************************************************************)
EXTENDS Integers

CONSTANTS
  Executors,  \* the threads TaskManager's constructor starts
  Tasks,      \* Task objects, named by their keys in the map
  Timed,      \* those that are TimerTasks
  Stopper,    \* the ShutdownEvent, one of them
  InterVall,  \* task -> its InterVall
  LifeTime,   \* task -> its LifeTime
  MaxMSTime,  \* 0xFFFFFFFF
  Nobody      \* no thread

End == 0  \* mTasks.end()

ASSUME TaskAssumption ==
  /\ Tasks \subseteq Nat \ {End} /\ Timed \subseteq Tasks /\ Stopper \in Timed
  /\ InterVall \in [Tasks -> Nat \ {0}] /\ LifeTime \in [Tasks -> Nat]
  /\ Nobody \notin Executors

VARIABLES
  mTasks,       \* the keys in the map
  mMutex,       \* the thread that holds it
  mFinish,      \* Stop has been called
  m_stopEvent,  \* the shutdown has been asked for
  shutdown,     \* ShutdownInit: "none", "adding" its event, or "added"
  pc, itr,      \* executor -> its step, and the key its iterator points to
  dangling,     \* executors whose iterator points to an erased entry
  sinceRun,     \* task -> getMSTime() - Last_Execute, up to InterVall
  age,          \* task -> getMSTime() - Add_Time, up to LifeTime + 1
  crashed,      \* an erased entry has been read and the process has died of it
  rested        \* history, task -> time since its last run ended, up to InterVall

clocks == <<sinceRun, age, rested>>
main == <<m_stopEvent, shutdown>>
walk == <<pc, itr, dangling>>
vars == <<mTasks, mMutex, mFinish, main, walk, clocks, crashed>>

\* Between these steps an executor holds mMutex.
Inside == {"func", "leave", "stop", "clear", "clearnext", "exit"}
Steps == Inside \cup {"top", "begin", "lock", "next", "ended"}

\* The process lives: std::exit ends it, and nothing is modelled after that.
Alive == ~crashed /\ \A e \in Executors : pc[e] # "exit"

-----------------------------------------------------------------------------
Least(K) == CHOOSE k \in K : \A j \in K : k <= j

\* begin(), and the increment of an iterator: std::map is ordered by its keys.
From(K) == IF K = {} THEN End ELSE Least(K)
Successor(k) == From({j \in mTasks : j > k})

Due(k) == sinceRun[k] = InterVall[k]
Expired(k) == k \in Timed /\ age[k] > LifeTime[k]

Init ==
  /\ mTasks = {} /\ mMutex = Nobody
  /\ mFinish = FALSE /\ m_stopEvent = FALSE /\ shutdown = "none"
  /\ pc = [e \in Executors |-> "top"]
  /\ itr = [e \in Executors |-> End]
  /\ dangling = {}
  /\ sinceRun = InterVall /\ rested = InterVall
  /\ age = [k \in Tasks |-> 0]
  /\ crashed = FALSE

Goto(e, step) == pc' = [pc EXCEPT ![e] = step]

-----------------------------------------------------------------------------
(* The main thread.                                                          *)

\* AddTask: OnAdded, Add_Time, and the new entry, under mMutex.  Last_Execute
\* is not initialized.
AddTask(k) ==
  /\ Alive /\ mMutex = Nobody
  /\ k \notin mTasks
  /\ mTasks' = mTasks \cup {k}
  /\ age' = [age EXCEPT ![k] = 0]
  /\ \E garbage \in 0 .. InterVall[k] : sinceRun' = [sinceRun EXCEPT ![k] = garbage]
  /\ rested' = [rested EXCEPT ![k] = InterVall[k]]
  /\ UNCHANGED <<mMutex, mFinish, m_stopEvent, walk, crashed>>

Add(k) == k # Stopper /\ AddTask(k) /\ UNCHANGED shutdown

\* ShutdownInit, which acts once; then it adds a ShutdownEvent.
ShutdownInit ==
  /\ Alive /\ ~m_stopEvent
  /\ m_stopEvent' = TRUE /\ shutdown' = "adding"
  /\ UNCHANGED <<mTasks, mMutex, mFinish, walk, clocks, crashed>>

AddShutdownEvent ==
  /\ shutdown = "adding"
  /\ AddTask(Stopper)
  /\ shutdown' = "added"

-----------------------------------------------------------------------------
(* Executor.                                                                 *)

Top(e) ==
  /\ Alive /\ pc[e] = "top"
  /\ Goto(e, IF mFinish THEN "ended" ELSE "begin")
  /\ UNCHANGED <<mTasks, mMutex, mFinish, main, itr, dangling, clocks, crashed>>

Begin(e) ==
  /\ Alive /\ pc[e] = "begin"
  /\ itr' = [itr EXCEPT ![e] = From(mTasks)]
  /\ dangling' = dangling \ {e}
  /\ Goto(e, IF mTasks = {} THEN "top" ELSE "lock")
  /\ UNCHANGED <<mTasks, mMutex, mFinish, main, clocks, crashed>>

\* lock_guard, and the tests of Executor and of TimerTask::Update, which agree
\* on the interval.
FreeUnlocked(e) == TRUE  \* mutant: no lock_guard
Free(e) == mMutex = Nobody
Enter(e) ==
  /\ Alive /\ pc[e] = "lock" /\ e \notin dangling
  /\ Free(e)
  /\ LET k == itr[e] IN
       \/ ~Due(k) /\ Goto(e, "next") /\ UNCHANGED mMutex
       \/ Due(k) /\ ~Expired(k) /\ Goto(e, "func") /\ mMutex' = e
       \/ Due(k) /\ Expired(k) /\ Goto(e, "leave") /\ mMutex' = e
  /\ UNCHANGED <<mTasks, mFinish, main, itr, dangling, clocks, crashed>>

\* Another executor has erased the entry while this one waited for the lock.
\* Freed memory that still looks like the task looks expired: RemoveTask would
\* then call OnLeave on the null pointer that mTasks[TaskID] has just made.
EnterErased(e) ==
  /\ Alive /\ pc[e] = "lock" /\ e \in dangling
  /\ Free(e)
  /\ crashed' = TRUE
  /\ UNCHANGED <<mTasks, mMutex, mFinish, main, walk, clocks>>

\* The callback returns, and the task's Last_Execute is set.
UnlockForgotten(e) == UNCHANGED mMutex  \* mutant: lock() without unlock()
Unlock(e) == mMutex' = Nobody
FuncEnds(e) ==
  /\ Alive /\ pc[e] = "func"
  /\ sinceRun' = [sinceRun EXCEPT ![itr[e]] = 0]
  /\ rested' = [rested EXCEPT ![itr[e]] = 0]
  /\ Unlock(e)
  /\ Goto(e, "next")
  /\ UNCHANGED <<mTasks, mFinish, main, itr, dangling, age, crashed>>

\* RemoveTask: the entry goes, and every iterator to it with it.
Erase(k) ==
  /\ mTasks' = mTasks \ {k}
  /\ dangling' = dangling \cup {f \in Executors : itr[f] = k}

\* RemoveTask on a task whose Update returned false.  OnLeave of the
\* ShutdownEvent calls Server::Shutdown; the lock is held all the while.
Leave(e) ==
  /\ Alive /\ pc[e] = "leave"
  /\ Erase(itr[e])
  /\ \/ itr[e] = Stopper /\ Goto(e, "stop") /\ UNCHANGED mMutex
     \/ itr[e] # Stopper /\ Goto(e, "next") /\ Unlock(e)
  /\ UNCHANGED <<mFinish, main, itr, clocks, crashed>>

\* ++itr.
Advance(e) ==
  /\ itr' = [itr EXCEPT ![e] = Successor(itr[e])]
  /\ dangling' = dangling \ {e}

\* The end of the loop's body, in Executor.  On an erased entry the increment
\* is undefined: it finds the next entry in the freed memory, or dies.
NextTask(e) ==
  /\ Alive /\ pc[e] = "next"
  /\ Advance(e)
  /\ Goto(e, IF Successor(itr[e]) = End THEN "top" ELSE "lock")
  /\ UNCHANGED <<mTasks, mMutex, mFinish, main, clocks, crashed>>

StepsOffErased(e) ==
  /\ Alive /\ pc[e] \in {"next", "clearnext"} /\ e \in dangling
  /\ crashed' = TRUE
  /\ UNCHANGED <<mTasks, mMutex, mFinish, main, walk, clocks>>

-----------------------------------------------------------------------------
(* Server::Shutdown: TaskManager::Stop, and std::exit.                       *)

MayStopLocking(e) == mMutex = Nobody  \* mutant: Stop takes mMutex itself
MayStop(e) == TRUE
Stop(e) ==
  /\ Alive /\ pc[e] = "stop"
  /\ MayStop(e)
  /\ mFinish' = TRUE
  /\ itr' = [itr EXCEPT ![e] = From(mTasks)]
  /\ dangling' = dangling \ {e}
  /\ Goto(e, IF mTasks = {} THEN "exit" ELSE "clear")
  /\ UNCHANGED <<mTasks, mMutex, main, clocks, crashed>>

\* Stop's loop removes every task; its iterator is that of an erased entry each
\* time it is incremented.
Clear(e) ==
  /\ Alive /\ pc[e] = "clear"
  /\ Erase(itr[e])
  /\ Goto(e, "clearnext")
  /\ UNCHANGED <<mMutex, mFinish, main, itr, clocks, crashed>>

ClearNext(e) ==
  /\ Alive /\ pc[e] = "clearnext"
  /\ Advance(e)
  /\ Goto(e, IF Successor(itr[e]) = End THEN "exit" ELSE "clear")
  /\ UNCHANGED <<mTasks, mMutex, mFinish, main, clocks, crashed>>

-----------------------------------------------------------------------------
\* getMSTime() goes on.
Tick ==
  /\ Alive
  /\ sinceRun' = [k \in Tasks |-> IF sinceRun[k] < InterVall[k] THEN sinceRun[k] + 1 ELSE sinceRun[k]]
  /\ rested' = [k \in Tasks |-> IF rested[k] < InterVall[k] THEN rested[k] + 1 ELSE rested[k]]
  /\ age' = [k \in Tasks |-> IF age[k] <= LifeTime[k] THEN age[k] + 1 ELSE age[k]]
  /\ UNCHANGED <<mTasks, mMutex, mFinish, main, walk, crashed>>

ExecutorStep(e) ==
  \/ Top(e) \/ Begin(e) \/ Enter(e) \/ EnterErased(e) \/ FuncEnds(e) \/ Leave(e)
  \/ NextTask(e) \/ StepsOffErased(e) \/ Stop(e) \/ Clear(e) \/ ClearNext(e)

Next == \/ \E k \in Tasks : Add(k)
        \/ ShutdownInit \/ AddShutdownEvent \/ Tick
        \/ \E e \in Executors : ExecutorStep(e)

Spec == Init /\ [][Next]_vars

\* The executors and the clock never stop, callbacks return, and the thread that
\* has started a shutdown goes on with it; nobody is forced to start one.  That
\* thread needs strong fairness: the executors take mMutex again and again, but
\* each sleeps 150 ms every TicksToSleep walks, and the lock is then free.
FairSpec ==
  /\ Spec
  /\ WF_vars(Tick) /\ SF_vars(AddShutdownEvent)
  /\ \A e \in Executors : WF_vars(ExecutorStep(e))

-----------------------------------------------------------------------------
(* Properties.                                                               *)

\* The executors between them keep a schedule as one thread would: see module
\* TaskSchedule.
Runs(k) == \E e \in Executors : pc[e] = "func" /\ itr[e] = k
Schedule == INSTANCE TaskSchedule WITH
  NoTask    <- End,
  scheduled <- mTasks,
  running   <- IF \E k \in Tasks : Runs(k) THEN CHOOSE k \in Tasks : Runs(k) ELSE End,
  closing   <- mFinish
KeepsSchedule == Schedule!Spec

\* A task without a lifetime runs again and again until the shutdown, although
\* the executors compete for one lock and see the map change under them.
EveryTaskRuns ==
  \A k \in Tasks \ Timed : k \in mTasks ~> Runs(k) \/ m_stopEvent \/ crashed

\* A shutdown that has been asked for ends the process.
ShutdownEnds ==
  m_stopEvent ~> crashed \/ \E e \in Executors : pc[e] = "exit"

\* The shutdown lets the "Rest" of the tasks leave (a comment in OnLeave): its
\* loop steps from one task of the map to the next.
StopWalksTheMap == \A e \in Executors : pc[e] = "clearnext" => e \notin dangling

\* GetRestLifeTime, as the callback of the ShutdownEvent reads it; getMSTimeDiff
\* takes a time before the first one for a wrapped clock.
RestLifeTime(k) == IF age[k] > LifeTime[k] THEN MaxMSTime - (age[k] - LifeTime[k])
                   ELSE LifeTime[k] - age[k]

\* The comment in ShutdownInit, "10 Sec to Shutdown And display Message All 1
\* Seconds": the rest displayed is never more than the whole time.
CountsDown ==
  \A e \in Executors : pc[e] = "func" /\ itr[e] = Stopper
                         => RestLifeTime(Stopper) <= LifeTime[Stopper]
=============================================================================
