------------------------- MODULE TaskManagerProofs -------------------------
(***************************************************************************)
(* The executors keep the schedule of module TaskSchedule, for any number  *)
(* of executors and tasks, any intervals and any lifetimes.                *)
(***************************************************************************)
EXTENDS TaskManager, NumberLemmas, FiniteSetTheorems, TLAPS

\* What is inductive.  Whoever is inside holds mMutex, and a callback, a removal
\* and Stop work on an entry of the map; so does an executor that waits for the
\* lock, unless its iterator dangles.
TypeInv ==
  /\ mTasks \subseteq Tasks /\ mMutex \in Executors \cup {Nobody}
  /\ mFinish \in BOOLEAN
  /\ pc \in [Executors -> Steps] /\ itr \in [Executors -> Tasks \cup {End}]
  /\ dangling \subseteq Executors
LockInv == \A e \in Executors : pc[e] \in Inside <=> mMutex = e
EntryInv ==
  /\ \A e \in Executors : pc[e] \in {"func", "leave", "clear"} => itr[e] \in mTasks
  /\ \A e \in Executors : pc[e] = "lock" /\ e \notin dangling => itr[e] \in mTasks
  /\ \A e \in Executors : pc[e] \in {"next", "clearnext"} => itr[e] \in Tasks

\* Last_Execute never lets a task look more rested than it is, whatever it held
\* at first.
ClockInv ==
  /\ sinceRun \in [Tasks -> Nat] /\ rested \in [Tasks -> Nat] /\ age \in [Tasks -> Nat]
  /\ \A k \in Tasks : sinceRun[k] <= rested[k] /\ rested[k] <= InterVall[k]

\* What leaves has expired, and once Stop has begun its thread keeps the lock.
ExpiredInv == \A e \in Executors : pc[e] = "leave" => Expired(itr[e])
FinishInv == mFinish <=> \E e \in Executors : pc[e] \in {"clear", "clearnext", "exit"}
IInv == TypeInv /\ LockInv /\ EntryInv /\ ClockInv /\ ExpiredInv /\ FinishInv

-----------------------------------------------------------------------------
(* The order of the map.                                                     *)

\* Some key is the least, so that Least is well defined.
LEMMA LeastIsIn ==
  ASSUME NEW K \in SUBSET Nat, K # {}
  PROVE  Least(K) \in K
BY LeastExists DEF Least

LEMMA FirstIsIn ==
  ASSUME TypeInv
  PROVE  From(mTasks) \in mTasks \cup {End} /\ (mTasks # {} => From(mTasks) \in mTasks)
<1>1. mTasks \in SUBSET Nat
  BY TaskAssumption DEF TypeInv
<1>. QED BY <1>1, LeastIsIn DEF From

LEMMA SuccessorIsIn ==
  ASSUME TypeInv, NEW k \in Tasks
  PROVE  Successor(k) \in mTasks \cup {End}
<1>. DEFINE later == {j \in mTasks : j > k}
<1>1. later \in SUBSET Nat /\ later \subseteq mTasks
  BY TaskAssumption DEF TypeInv
<1>. HIDE DEF later
<1>2. From(later) \in mTasks \cup {End}
  BY <1>1, LeastIsIn DEF From
<1>. QED BY <1>2 DEF Successor, later

-----------------------------------------------------------------------------
(* The induction.                                                            *)

LEMMA InitInv ==
  ASSUME Init
  PROVE  IInv
<1>. USE TaskAssumption DEF Init
<1>1. TypeInv
  BY DEF TypeInv, Steps, Inside
<1>2. LockInv /\ EntryInv /\ ExpiredInv /\ FinishInv
  BY DEF LockInv, EntryInv, ExpiredInv, FinishInv, Inside
<1>3. ClockInv
  BY DEF ClockInv
<1>. QED BY <1>1, <1>2, <1>3 DEF IInv

\* AddTask needs the lock, so nobody is inside, and nobody's entry goes.
LEMMA AddStep ==
  ASSUME IInv, NEW k \in Tasks, AddTask(k)
  PROVE  IInv'
<1>. USE TaskAssumption DEF IInv, AddTask, walk
<1>1. \A e \in Executors : pc[e] \notin Inside
  BY DEF LockInv, TypeInv
<1>2. TypeInv' /\ LockInv' /\ EntryInv'
  BY DEF TypeInv, LockInv, EntryInv
<1>3. ClockInv'
  <2>1. PICK garbage \in 0 .. InterVall[k] : sinceRun' = [sinceRun EXCEPT ![k] = garbage]
    OBVIOUS
  <2>2. InterVall[k] \in Nat /\ garbage \in Nat /\ garbage <= InterVall[k]
    OBVIOUS
  <2>3. \A j \in Tasks : /\ sinceRun'[j] = IF j = k THEN garbage ELSE sinceRun[j]
                        /\ rested'[j] = IF j = k THEN InterVall[k] ELSE rested[j]
    BY <2>1 DEF ClockInv
  <2>4. sinceRun' \in [Tasks -> Nat] /\ rested' \in [Tasks -> Nat] /\ age' \in [Tasks -> Nat]
    BY <2>1, <2>2 DEF ClockInv
  <2>. QED BY <2>2, <2>3, <2>4 DEF ClockInv
<1>4. ExpiredInv' /\ FinishInv'
  BY <1>1 DEF ExpiredInv, FinishInv, Inside
<1>. QED BY <1>2, <1>3, <1>4 DEF IInv

LEMMA TickStep ==
  ASSUME IInv, Tick
  PROVE  IInv'
<1>. USE TaskAssumption DEF IInv, Tick, walk
<1>1. TypeInv' /\ LockInv' /\ EntryInv' /\ FinishInv'
  BY DEF TypeInv, LockInv, EntryInv, FinishInv
<1>2. ClockInv'
  BY DEF ClockInv
<1>3. \A k \in Tasks : Expired(k) => Expired(k)'
  BY DEF Expired, ClockInv
<1>4. ExpiredInv'
  BY <1>3 DEF ExpiredInv, EntryInv, TypeInv
<1>. QED BY <1>1, <1>2, <1>4 DEF IInv

\* One step of an executor.
LEMMA WalkStep ==
  ASSUME IInv, NEW e \in Executors,
         Top(e) \/ Begin(e) \/ Enter(e) \/ EnterErased(e) \/ NextTask(e) \/ StepsOffErased(e)
  PROVE  IInv'
<1>. USE DEF IInv, Goto, Free, walk, clocks, main
<1>1. ClockInv'
  BY DEF Top, Begin, Enter, EnterErased, NextTask, StepsOffErased, ClockInv
<1>2. CASE Top(e)
  BY <1>1, <1>2 DEF Top, TypeInv, LockInv, EntryInv, ExpiredInv, Expired, FinishInv, Steps, Inside
<1>3. CASE Begin(e)
  BY <1>1, <1>3, FirstIsIn DEF Begin, TypeInv, LockInv, EntryInv, ExpiredInv, Expired, FinishInv, Steps, Inside
<1>4. CASE Enter(e)
  <2>1. \/ pc' = [pc EXCEPT ![e] = "next"] /\ mMutex' = mMutex
        \/ pc' = [pc EXCEPT ![e] = "func"] /\ mMutex' = e
        \/ pc' = [pc EXCEPT ![e] = "leave"] /\ mMutex' = e /\ Expired(itr[e])
    BY <1>4 DEF Enter
  <2>2. /\ mMutex = Nobody /\ pc[e] = "lock" /\ itr[e] \in mTasks
        /\ UNCHANGED <<mTasks, mFinish, itr, dangling, age>>
    BY <1>4 DEF Enter, EntryInv
  <2>3. TypeInv' /\ EntryInv'
    BY <2>1, <2>2 DEF TypeInv, EntryInv, Steps, Inside
  <2>4. LockInv' /\ FinishInv'
    BY <2>1, <2>2, TaskAssumption DEF TypeInv, LockInv, FinishInv, Inside
  <2>5. ExpiredInv'
    BY <2>1, <2>2 DEF TypeInv, ExpiredInv, Expired
  <2>. QED BY <1>1, <2>3, <2>4, <2>5
<1>5. CASE NextTask(e)
  <2>1. Successor(itr[e]) \in mTasks \cup {End}
    BY <1>5, SuccessorIsIn DEF NextTask, EntryInv
  <2>. QED BY <1>1, <1>5, <2>1
         DEF NextTask, Advance, TypeInv, LockInv, EntryInv, ExpiredInv, Expired, FinishInv, Steps, Inside
<1>6. CASE EnterErased(e) \/ StepsOffErased(e)
  BY <1>1, <1>6 DEF EnterErased, StepsOffErased, TypeInv, LockInv, EntryInv, ExpiredInv, Expired, FinishInv
<1>. QED BY <1>2, <1>3, <1>4, <1>5, <1>6

LEMMA InsideStep ==
  ASSUME IInv, NEW e \in Executors, FuncEnds(e) \/ Leave(e) \/ Stop(e) \/ Clear(e) \/ ClearNext(e)
  PROVE  IInv'
<1>. USE DEF IInv, Goto, Unlock, walk, clocks, main
<1>1. pc[e] \in Inside /\ mMutex = e /\ e # Nobody /\ \A f \in Executors \ {e} : pc[f] \notin Inside
  BY TaskAssumption DEF FuncEnds, Leave, Stop, Clear, ClearNext, LockInv, Inside
<1>2. CASE FuncEnds(e)
  <2>1. ClockInv'
    <3>1. itr[e] \in Tasks
      BY <1>2 DEF FuncEnds, EntryInv, TypeInv
    <3>2. \A j \in Tasks : /\ sinceRun'[j] = IF j = itr[e] THEN 0 ELSE sinceRun[j]
                          /\ rested'[j] = IF j = itr[e] THEN 0 ELSE rested[j]
      BY <1>2 DEF FuncEnds, ClockInv
    <3>3. sinceRun' \in [Tasks -> Nat] /\ rested' \in [Tasks -> Nat] /\ age' \in [Tasks -> Nat]
      BY <1>2, <3>1 DEF FuncEnds, ClockInv
    <3>4. InterVall \in [Tasks -> Nat]
      BY TaskAssumption
    <3>. QED BY <3>2, <3>3, <3>4 DEF ClockInv
  <2>. QED BY <1>1, <1>2, <2>1, TaskAssumption
         DEF FuncEnds, TypeInv, LockInv, EntryInv, ExpiredInv, Expired, FinishInv, Steps, Inside
<1>3. CASE Leave(e)
  <2>1. ClockInv'
    BY <1>3 DEF Leave, ClockInv
  <2>2. TypeInv' /\ LockInv' /\ FinishInv'
    <3>1. \/ pc' = [pc EXCEPT ![e] = "stop"] /\ mMutex' = mMutex
          \/ pc' = [pc EXCEPT ![e] = "next"] /\ mMutex' = Nobody
      BY <1>3 DEF Leave
    <3>2. /\ pc[e] = "leave" /\ mTasks' \subseteq mTasks /\ dangling' \subseteq Executors
          /\ UNCHANGED <<mFinish, itr>>
      BY <1>3 DEF Leave, Erase, TypeInv
    <3>. QED BY <1>1, <3>1, <3>2, TaskAssumption DEF TypeInv, LockInv, FinishInv, Steps, Inside
  <2>3. EntryInv' /\ ExpiredInv'
    BY <1>1, <1>3 DEF Leave, Erase, TypeInv, EntryInv, ExpiredInv, Expired, Inside
  <2>. QED BY <2>1, <2>2, <2>3
<1>4. CASE Stop(e)
  BY <1>1, <1>4, FirstIsIn
     DEF Stop, MayStop, TypeInv, LockInv, EntryInv, ExpiredInv, Expired, FinishInv, ClockInv, Steps, Inside
<1>5. CASE Clear(e)
  BY <1>1, <1>5 DEF Clear, Erase, TypeInv, LockInv, EntryInv, ExpiredInv, Expired, FinishInv, ClockInv, Steps, Inside
<1>6. CASE ClearNext(e)
  <2>1. Successor(itr[e]) \in mTasks \cup {End}
    BY <1>6, SuccessorIsIn DEF ClearNext, EntryInv
  <2>. QED BY <1>1, <1>6, <2>1
         DEF ClearNext, Advance, TypeInv, LockInv, EntryInv, ExpiredInv, Expired, FinishInv, ClockInv, Steps, Inside
<1>. QED BY <1>2, <1>3, <1>4, <1>5, <1>6

LEMMA IInvStep ==
  ASSUME IInv, [Next]_vars
  PROVE  IInv'
<1>1. CASE UNCHANGED vars
  BY <1>1 DEF vars, walk, clocks, IInv, TypeInv, LockInv, EntryInv, ClockInv, ExpiredInv, Expired, FinishInv
<1>2. CASE ShutdownInit
  BY <1>2 DEF ShutdownInit, walk, clocks, IInv, TypeInv, LockInv, EntryInv, ClockInv, ExpiredInv, Expired, FinishInv
<1>3. Stopper \in Tasks
  BY TaskAssumption
<1>. QED BY <1>1, <1>2, <1>3, AddStep, TickStep, WalkStep, InsideStep
       DEF Next, ExecutorStep, Add, AddShutdownEvent

LEMMA IInvHolds == Spec => []IInv
BY InitInv, IInvStep, PTL DEF Spec

-----------------------------------------------------------------------------
(* The refinement.                                                           *)

Running == IF \E k \in Tasks : Runs(k) THEN CHOOSE k \in Tasks : Runs(k) ELSE End

\* One task runs at a time, and it is the one whose callback somebody is in.
LEMMA RunningIs ==
  ASSUME IInv
  PROVE  /\ \A e \in Executors : pc[e] = "func" => Running = itr[e] /\ itr[e] \in Tasks
         /\ (\A e \in Executors : pc[e] # "func") => Running = End
<1>1. \A e, f \in Executors : pc[e] = "func" /\ pc[f] = "func" => e = f
  BY DEF IInv, LockInv, Inside
<1>2. \A e \in Executors : pc[e] = "func" => Runs(itr[e]) /\ itr[e] \in Tasks
  BY DEF IInv, EntryInv, TypeInv, Runs
<1>. QED BY <1>1, <1>2 DEF Running, Runs

LEMMA RunningIsPrimed ==
  ASSUME IInv'
  PROVE  /\ \A e \in Executors : pc'[e] = "func" => Running' = itr'[e] /\ itr'[e] \in Tasks
         /\ (\A e \in Executors : pc'[e] # "func") => Running' = End
<1>1. \A e, f \in Executors : pc'[e] = "func" /\ pc'[f] = "func" => e = f
  BY DEF IInv, LockInv, Inside
<1>2. \A e \in Executors : pc'[e] = "func" => itr'[e] \in Tasks
  BY DEF IInv, EntryInv, TypeInv
<1>. DEFINE inFunc(k) == \E e \in Executors : pc'[e] = "func" /\ itr'[e] = k
<1>3. Running' = IF \E k \in Tasks : inFunc(k) THEN CHOOSE k \in Tasks : inFunc(k) ELSE End
  BY DEF Running, Runs
<1>. QED BY <1>1, <1>2, <1>3

\* Nobody is inside while the lock is free, and only its holder otherwise.
LEMMA NobodyRuns ==
  ASSUME IInv, mMutex = Nobody
  PROVE  Running = End /\ ~mFinish
<1>1. \A e \in Executors : pc[e] \notin Inside
  BY TaskAssumption DEF IInv, LockInv
<1>. QED BY <1>1, RunningIs DEF IInv, FinishInv, Inside

LEMMA OneInside ==
  ASSUME IInv, NEW e \in Executors, pc[e] \in Inside
  PROVE  /\ pc[e] # "func" => Running = End
         /\ mFinish <=> pc[e] \in {"clear", "clearnext", "exit"}
<1>1. \A f \in Executors \ {e} : pc[f] \notin Inside
  BY DEF IInv, LockInv
<1>. QED BY <1>1, RunningIs DEF IInv, FinishInv, Inside

\* As the schedule sees the executors.
LEMMA Mapping ==
  /\ Schedule!vars = <<mTasks, Running, rested, age, mFinish>>
  /\ Schedule!Idle <=> Running = End /\ ~mFinish
  /\ \A k : Schedule!Expired(k) <=> Expired(k)
BY DEF Schedule!vars, Schedule!Idle, Schedule!Expired, Expired, Running

LEMMA AddIsPromised ==
  ASSUME IInv, IInv', NEW k \in Tasks, AddTask(k)
  PROVE  Schedule!Schedule(k)
<1>1. mMutex = Nobody /\ mMutex' = Nobody /\ mFinish' = mFinish
  BY DEF AddTask
<1>2. Running = End /\ ~mFinish
  BY <1>1, NobodyRuns
<1>3. Running' = End
  <2>1. \A e \in Executors : pc'[e] # "func"
    BY <1>1, TaskAssumption DEF IInv, LockInv, Inside
  <2>. QED BY <2>1, RunningIsPrimed
<1>. QED BY <1>1, <1>2, <1>3, Mapping DEF Schedule!Schedule, AddTask, Running

LEMMA TickIsPromised ==
  ASSUME IInv, Tick
  PROVE  Schedule!Elapse
<1>1. Running' = Running
  BY DEF Tick, walk, Running, Runs
<1>. QED BY <1>1 DEF Schedule!Elapse, Tick, Running

\* What is not visible to the schedule: the same callback, or none, before and
\* after the step.
LEMMA RunningKept ==
  ASSUME IInv, IInv',
         \A e \in Executors : pc[e] = "func" \/ pc'[e] = "func" => pc'[e] = pc[e] /\ itr'[e] = itr[e]
  PROVE  Running' = Running
<1>1. CASE \E e \in Executors : pc[e] = "func"
  BY <1>1, RunningIs, RunningIsPrimed
<1>2. CASE \A e \in Executors : pc[e] # "func"
  BY <1>2, RunningIs, RunningIsPrimed
<1>. QED BY <1>1, <1>2

LEMMA WalkStutters ==
  ASSUME IInv, IInv', NEW e \in Executors,
         \/ Top(e) \/ Begin(e) \/ EnterErased(e) \/ NextTask(e) \/ StepsOffErased(e) \/ ClearNext(e)
         \/ Enter(e) /\ pc'[e] # "func"
  PROVE  UNCHANGED Schedule!vars
<1>1. UNCHANGED <<mTasks, rested, age, mFinish>>
  BY DEF Top, Begin, EnterErased, NextTask, StepsOffErased, ClearNext, Enter, clocks, walk, main
<1>2. \A f \in Executors : pc[f] = "func" \/ pc'[f] = "func" => pc'[f] = pc[f] /\ itr'[f] = itr[f]
  BY DEF Top, Begin, EnterErased, NextTask, StepsOffErased, ClearNext, Enter, Goto, Advance, walk,
         IInv, TypeInv
<1>3. Running' = Running
  BY <1>2, RunningKept
<1>. QED BY <1>1, <1>3, Mapping DEF Running, Schedule!vars

\* The interval of a task that is due is over for the schedule too.
LEMMA EnterStarts ==
  ASSUME IInv, IInv', NEW e \in Executors, Enter(e), pc'[e] = "func"
  PROVE  itr[e] \in Tasks /\ Schedule!Start(itr[e])
<1>1. /\ mMutex = Nobody /\ itr[e] \in mTasks /\ itr[e] \in Tasks
      /\ UNCHANGED <<mTasks, mFinish, itr, rested, age>>
  BY DEF Enter, Free, clocks, IInv, EntryInv, TypeInv
<1>2. Due(itr[e]) /\ ~Expired(itr[e])
  BY DEF Enter, Goto, IInv, TypeInv
<1>3. rested[itr[e]] = InterVall[itr[e]]
  BY <1>1, <1>2, TaskAssumption DEF Due, IInv, ClockInv
<1>4. Running = End /\ ~mFinish /\ Running' = itr[e]
  BY <1>1, NobodyRuns, RunningIsPrimed
<1>. QED BY <1>1, <1>2, <1>3, <1>4, Mapping DEF Schedule!Start, Running

LEMMA FuncEndsFinishes ==
  ASSUME IInv, IInv', NEW e \in Executors, FuncEnds(e)
  PROVE  Schedule!Finish
<1>1. pc[e] = "func" /\ mMutex' = Nobody /\ UNCHANGED <<mTasks, mFinish, age>>
  BY DEF FuncEnds, Unlock
<1>2. Running = itr[e] /\ itr[e] \in mTasks
  BY <1>1, RunningIs DEF IInv, EntryInv
<1>3. Running' = End
  <2>1. \A f \in Executors : pc'[f] # "func"
    BY <1>1, TaskAssumption DEF IInv, LockInv, Inside
  <2>. QED BY <2>1, RunningIsPrimed
<1>4. rested' = [rested EXCEPT ![Running] = 0]
  BY <1>2 DEF FuncEnds
<1>. QED BY <1>1, <1>2, <1>3, <1>4 DEF Schedule!Finish, Running

LEMMA LeaveRetires ==
  ASSUME IInv, IInv', NEW e \in Executors, Leave(e) \/ Clear(e)
  PROVE  itr[e] \in Tasks /\ Schedule!Retire(itr[e])
<1>1. /\ pc[e] \in {"leave", "clear"} /\ mTasks' = mTasks \ {itr[e]}
      /\ UNCHANGED <<mFinish, itr, rested, age>>
  BY DEF Leave, Clear, Erase, clocks
<1>2. itr[e] \in mTasks /\ itr[e] \in Tasks
  BY <1>1 DEF IInv, EntryInv, TypeInv
<1>3. Running = End
  BY <1>1, OneInside DEF Inside
<1>4. mFinish \/ Expired(itr[e])
  BY <1>1, OneInside DEF Inside, IInv, ExpiredInv
<1>5. Running' = Running
  <2>1. \A f \in Executors : pc[f] = "func" \/ pc'[f] = "func" => pc'[f] = pc[f] /\ itr'[f] = itr[f]
    BY <1>1 DEF Leave, Clear, Goto, IInv, TypeInv
  <2>. QED BY <2>1, RunningKept
<1>. QED BY <1>1, <1>2, <1>3, <1>4, <1>5, Mapping DEF Schedule!Retire, Running

LEMMA StopCloses ==
  ASSUME IInv, IInv', NEW e \in Executors, Stop(e)
  PROVE  Schedule!Close
<1>1. pc[e] = "stop" /\ mFinish' = TRUE /\ UNCHANGED <<mTasks, rested, age>>
  BY DEF Stop, clocks
<1>2. Running = End /\ ~mFinish
  BY <1>1, OneInside DEF Inside
<1>3. Running' = Running
  <2>1. \A f \in Executors : pc[f] = "func" \/ pc'[f] = "func" => pc'[f] = pc[f] /\ itr'[f] = itr[f]
    BY <1>1 DEF Stop, Goto, IInv, TypeInv
  <2>. QED BY <2>1, RunningKept
<1>. QED BY <1>1, <1>2, <1>3, Mapping DEF Schedule!Close, Running

LEMMA StepIsPromised ==
  ASSUME IInv, IInv', [Next]_vars
  PROVE  [Schedule!Next]_(Schedule!vars)
<1>1. Stopper \in Tasks
  BY TaskAssumption
<1>2. CASE \/ AddShutdownEvent \/ \E k \in Tasks : Add(k)
  BY <1>1, <1>2, AddIsPromised DEF AddShutdownEvent, Add, Schedule!Next
<1>3. CASE ShutdownInit \/ UNCHANGED vars
  BY <1>3 DEF ShutdownInit, vars, walk, clocks, Schedule!vars, Runs
<1>4. CASE Tick
  BY <1>4, TickIsPromised DEF Schedule!Next
<1>5. ASSUME NEW e \in Executors, ExecutorStep(e)
      PROVE  Schedule!Next \/ UNCHANGED Schedule!vars
  <2>1. CASE \/ Top(e) \/ Begin(e) \/ EnterErased(e) \/ NextTask(e) \/ StepsOffErased(e) \/ ClearNext(e)
             \/ Enter(e) /\ pc'[e] # "func"
    BY <2>1, WalkStutters
  <2>2. CASE Enter(e) /\ pc'[e] = "func"
    BY <2>2, EnterStarts DEF Schedule!Next
  <2>3. CASE FuncEnds(e) \/ Stop(e)
    BY <2>3, FuncEndsFinishes, StopCloses DEF Schedule!Next
  <2>4. CASE Leave(e) \/ Clear(e)
    BY <2>4, LeaveRetires DEF Schedule!Next
  <2>. QED BY <1>5, <2>1, <2>2, <2>3, <2>4 DEF ExecutorStep
<1>. QED BY <1>2, <1>3, <1>4, <1>5 DEF Next

LEMMA InitIsPromised ==
  ASSUME Init
  PROVE  Schedule!Init
<1>1. IInv
  BY InitInv
<1>2. Running = End
  BY <1>1, RunningIs DEF Init
<1>. QED BY <1>2 DEF Init, Schedule!Init, Running

\* However many executors compete for the lock, and whatever Last_Execute held
\* before a task's first run, one task runs at a time, a task rests for its
\* interval between two runs, an expired one starts no run and is the only kind
\* to leave before the shutdown, and nothing runs or is added after it.
THEOREM ExecutorsKeepSchedule == Spec => KeepsSchedule
<1>1. IInv /\ [Next]_vars => IInv'
  BY IInvStep
<1>2. IInv /\ IInv' /\ [Next]_vars => [Schedule!Next]_(Schedule!vars)
  BY StepIsPromised
<1>3. Init => IInv /\ Schedule!Init
  BY InitInv, InitIsPromised
<1>. QED BY <1>1, <1>2, <1>3, PTL DEF Spec, KeepsSchedule, Schedule!Spec
=============================================================================
