------------------------- MODULE DatabasePoolProofs -------------------------
(***************************************************************************)
(* Safety of the connection pool, for any number of threads and slots.     *)
(*                                                                         *)
(* The invariant has two layers.  Structure holds come what may: it says   *)
(* who owns mMutex, which slots are filled at which step, and that slots   *)
(* never share a client.  Protocol (in the second part) holds until an     *)
(* accident: it ties State to the steps of threads and monitor.  The       *)
(* third part counts connections, and the last one is the refinement.      *)
(***************************************************************************)
EXTENDS DatabasePool, FiniteSetTheorems, TLAPS

\* Steps of GetClient at which the slot at[t] holds a client.
AtClient == {"connect", "take", "destroy", "rebuild", "reconnect", "check", "return"}

LockInv ==
  /\ \A t \in Threads : pc[t] \in Locked => mMutex = t
  /\ mMutex # NoThread =>
       pc[mMutex] \in Locked \/ fault # "none" \/ "connect_threw" \in happened

SlotInv ==
  /\ \A t \in Threads : pc[t] \in AtClient \cup {"create"} => at[t] \in Slots
  /\ \A t \in Threads : pc[t] \in AtClient => mClients[at[t]] # NoClient
  /\ \A t \in Threads : pc[t] = "create" => mClients[at[t]] = NoClient
  /\ \A t \in Threads : pc[t] \in Using => pClient[t] \in Clients
  /\ mpc \in {"decide", "close"} => mClients[mAt] # NoClient
  /\ mpc = "closed" => target \in Clients
  /\ \A i, j \in Slots : mClients[i] = mClients[j] /\ mClients[i] # NoClient => i = j

PooledInv ==
  /\ ConnectionsPooled
  /\ \A t \in Threads : pc[t] = "rebuild" => connection[mClients[at[t]]] = "freed"

\* The thread whose connect threw keeps mMutex for good.
WedgedInv ==
  "connect_threw" \in happened =>
    mMutex # NoThread /\ \A t \in Threads : pc[t] \notin Locked

Structure == TypeOK /\ LockInv /\ SlotInv /\ PooledInv /\ BusyHasUser /\ WedgedInv

-----------------------------------------------------------------------------
(* The history only grows, and records what it should.                      *)

LEMMA HistoryGrows ==
  ASSUME History
  PROVE  /\ happened \subseteq happened'
         /\ happened \subseteq Accidents => happened' \subseteq Accidents
         /\ Overlap' => "raced" \in happened'
         /\ Reclosing' => "reclosed" \in happened'
         /\ (\E t \in Threads : pc[t] = "check" /\ pc'[t] = "return") => "rebuilt" \in happened'
         /\ (\E t \in Threads : pc[t] \in Locked /\ pc'[t] = "idle") => "connect_threw" \in happened'
         /\ sawFull' \subseteq Threads
         /\ \A c \in lost' : c \in Clients /\ State'[c] = "Busy"
         /\ \A c \in Clients : State'[c] = "Busy" /\ c \notin lost' =>
              c \notin lost /\ \A t \in Threads : ~Drops(t, c)
BY DEF History, Accidents, Occurs

LEMMA NextKeeps ==
  ASSUME Next
  PROVE  fault = "none" /\ History
BY DEF Next, CallerStep, MonitorStep, Keeping, Call, Lock, Scan, ScanEnds, Destroy,
       Create, Connect, ConnectThrows, Take, Check, Return, QueryStart, QueryEnd,
       QueryThrows, GiveBack, Refused, MonitorTest, MonitorPass, MonitorDecide, MonitorRenew,
       MonitorClose, MonitorClosed, Ages

\* Every step keeps the types of the program's variables.
LEMMA MemoryStep ==
  ASSUME MemoryOK, SlotInv, [Next]_vars
  PROVE  MemoryOK'
<1>. USE SizeAssumption, ValueAssumption DEF MemoryOK, Slots, Steps, Locked,
   Using, SlotInv, AtClient, Goto, Keeping, callers, pool, monitor
<1>1. ASSUME NEW t \in Threads, Call(t)  PROVE MemoryOK'
  BY <1>1 DEF Call
<1>2. ASSUME NEW t \in Threads, Lock(t)  PROVE MemoryOK'
  <2>. USE <1>2 DEF Lock, Acquire, Has
  <2>1. CASE pc' = pc
    BY <2>1
  <2>2. CASE pc' = [pc EXCEPT ![t] = "create"]
    <3>1. PICK i \in Slots : at' = [at EXCEPT ![t] = i]
      BY <2>2
    <3>. QED BY <2>2, <3>1
  <2>3. CASE pc' = [pc EXCEPT ![t] = "scan"] /\ at' = [at EXCEPT ![t] = 1]
    BY <2>3
  <2>. QED BY <2>1, <2>2, <2>3
<1>3. ASSUME NEW t \in Threads, Scan(t)  PROVE MemoryOK'
  BY <1>3 DEF Scan, InLoop, CaseOf, Has
<1>4. ASSUME NEW t \in Threads, ScanEnds(t)  PROVE MemoryOK'
  BY <1>4 DEF ScanEnds, InLoop
<1>5. ASSUME NEW t \in Threads, Destroy(t)  PROVE MemoryOK'
  BY <1>5 DEF Destroy, MysqlClose
<1>6. ASSUME NEW t \in Threads, Create(t)  PROVE MemoryOK'
  BY <1>6 DEF Create, FreshClients
<1>7. ASSUME NEW t \in Threads, Connect(t)  PROVE MemoryOK'
  BY <1>7 DEF Connect
<1>8. ASSUME NEW t \in Threads, ConnectThrows(t)  PROVE MemoryOK'
  BY <1>8 DEF ConnectThrows, LockAfterThrow
<1>9. ASSUME NEW t \in Threads, Take(t)  PROVE MemoryOK'
  BY <1>9 DEF Take, HandOut
<1>10. ASSUME NEW t \in Threads, Check(t)  PROVE MemoryOK'
  <2>1. at[t] \in Slots /\ at[t] + 1 \in 1 .. MaxPoolSize + 1
    BY <1>10 DEF Check, SlotInv, AtClient
  <2>2. CASE pc' = [pc EXCEPT ![t] = "return"]
    BY <1>10, <2>2 DEF Check, HandOut
  <2>3. CASE pc' = [pc EXCEPT ![t] = "scan"]
    BY <1>10, <2>1, <2>3 DEF Check, HandOut
  <2>. QED BY <1>10, <2>2, <2>3 DEF Check, HandOut
<1>11. ASSUME NEW t \in Threads, Return(t)  PROVE MemoryOK'
  BY <1>11 DEF Return
<1>12. ASSUME NEW t \in Threads, QueryStart(t)  PROVE MemoryOK'
  BY <1>12 DEF QueryStart
<1>13. ASSUME NEW t \in Threads, QueryEnd(t)  PROVE MemoryOK'
  BY <1>13 DEF QueryEnd
<1>24. ASSUME NEW t \in Threads, QueryThrows(t)  PROVE MemoryOK'
  BY <1>24 DEF QueryThrows
<1>14. ASSUME NEW t \in Threads, GiveBack(t)  PROVE MemoryOK'
  BY <1>14 DEF GiveBack, StateAfter
<1>15. ASSUME NEW t \in Threads, Refused(t)  PROVE MemoryOK'
  BY <1>15 DEF Refused
<1>16. CASE MonitorTest
  BY <1>16 DEF MonitorTest, Inspects, Has
<1>17. CASE MonitorPass
  BY <1>17 DEF MonitorPass, NextSlot
<1>18. CASE MonitorDecide
  BY <1>18 DEF MonitorDecide
<1>19. CASE MonitorRenew
  BY <1>19 DEF MonitorRenew, NextSlot
<1>20. CASE MonitorClose
  BY <1>20 DEF MonitorClose, MysqlClose
<1>21. CASE MonitorClosed
  BY <1>21 DEF MonitorClosed, NextSlot
<1>22. ASSUME NEW i \in Slots, Ages(i)  PROVE MemoryOK'
  <2>1. mClients[i] \in Clients
    BY <1>22 DEF Ages, Has
  <2>. QED BY <1>22, <2>1 DEF Ages
<1>23. CASE UNCHANGED vars
  BY <1>23 DEF vars, history
<1>. QED BY <1>1, <1>2, <1>3, <1>4, <1>5, <1>6, <1>7, <1>8, <1>9, <1>10, <1>11,
   <1>12, <1>13, <1>14, <1>15, <1>16, <1>17, <1>18, <1>19, <1>20, <1>21, <1>22,
   <1>23, <1>24 DEF Next, CallerStep, MonitorStep

\* Every step keeps the ownership of mMutex.
LEMMA LockStep ==
  ASSUME MemoryOK, LockInv, [Next]_vars
  PROVE  LockInv'
<1>. USE SizeAssumption, ValueAssumption DEF LockInv, MemoryOK, Slots, Steps,
   Locked, Using, Goto, Keeping, callers, pool, monitor
<1>h. happened \subseteq happened'
  BY NextKeeps, HistoryGrows DEF vars, history
<1>. USE <1>h
<1>1. ASSUME NEW t \in Threads, Call(t)  PROVE LockInv'
  BY <1>1 DEF Call
<1>2. ASSUME NEW t \in Threads, Lock(t)  PROVE LockInv'
  <2>. USE <1>2 DEF Lock, Acquire
  <2>1. CASE pc' = pc /\ fault' # "none"
    BY <2>1
  <2>2. CASE pc' = [pc EXCEPT ![t] = "create"]
    BY <2>2
  <2>3. CASE pc' = [pc EXCEPT ![t] = "scan"]
    BY <2>3
  <2>. QED BY <2>1, <2>2, <2>3
<1>3. ASSUME NEW t \in Threads, Scan(t)  PROVE LockInv'
  BY <1>3 DEF Scan, InLoop, CaseOf, Has
<1>4. ASSUME NEW t \in Threads, ScanEnds(t)  PROVE LockInv'
  BY <1>4 DEF ScanEnds, InLoop
<1>5. ASSUME NEW t \in Threads, Destroy(t)  PROVE LockInv'
  BY <1>5 DEF Destroy, MysqlClose
<1>6. ASSUME NEW t \in Threads, Create(t)  PROVE LockInv'
  BY <1>6 DEF Create, FreshClients
<1>7. ASSUME NEW t \in Threads, Connect(t)  PROVE LockInv'
  BY <1>7 DEF Connect
<1>8. ASSUME NEW t \in Threads, ConnectThrows(t)  PROVE LockInv'
  BY <1>8, HistoryGrows DEF ConnectThrows, LockAfterThrow
<1>9. ASSUME NEW t \in Threads, Take(t)  PROVE LockInv'
  BY <1>9 DEF Take, HandOut
<1>10. ASSUME NEW t \in Threads, Check(t)  PROVE LockInv'
  BY <1>10 DEF Check, HandOut
<1>11. ASSUME NEW t \in Threads, Return(t)  PROVE LockInv'
  BY <1>11 DEF Return
<1>12. ASSUME NEW t \in Threads, QueryStart(t)  PROVE LockInv'
  BY <1>12 DEF QueryStart
<1>13. ASSUME NEW t \in Threads, QueryEnd(t)  PROVE LockInv'
  BY <1>13 DEF QueryEnd
<1>24. ASSUME NEW t \in Threads, QueryThrows(t)  PROVE LockInv'
  BY <1>24 DEF QueryThrows
<1>14. ASSUME NEW t \in Threads, GiveBack(t)  PROVE LockInv'
  BY <1>14 DEF GiveBack, StateAfter
<1>15. ASSUME NEW t \in Threads, Refused(t)  PROVE LockInv'
  BY <1>15 DEF Refused
<1>16. CASE MonitorTest
  BY <1>16 DEF MonitorTest, Inspects, Has
<1>17. CASE MonitorPass
  BY <1>17 DEF MonitorPass, NextSlot
<1>18. CASE MonitorDecide
  BY <1>18 DEF MonitorDecide
<1>19. CASE MonitorRenew
  BY <1>19 DEF MonitorRenew, NextSlot
<1>20. CASE MonitorClose
  BY <1>20 DEF MonitorClose, MysqlClose
<1>21. CASE MonitorClosed
  BY <1>21 DEF MonitorClosed, NextSlot
<1>22. ASSUME NEW i \in Slots, Ages(i)  PROVE LockInv'
  BY <1>22 DEF Ages
<1>23. CASE UNCHANGED vars
  BY <1>23 DEF vars, history
<1>. QED BY <1>1, <1>2, <1>3, <1>4, <1>5, <1>6, <1>7, <1>8, <1>9, <1>10, <1>11,
   <1>12, <1>13, <1>14, <1>15, <1>16, <1>17, <1>18, <1>19, <1>20, <1>21, <1>22,
   <1>23, <1>24 DEF Next, CallerStep, MonitorStep

\* Every step keeps the slots in order.
LEMMA SlotStep ==
  ASSUME MemoryOK, LockInv, SlotInv, [Next]_vars
  PROVE  SlotInv'
<1>. USE SizeAssumption, ValueAssumption DEF SlotInv, AtClient, LockInv, MemoryOK,
   Slots, Steps, Locked, Using, Goto, Keeping, callers, pool, monitor
<1>1. ASSUME NEW t \in Threads, Call(t)  PROVE SlotInv'
  BY <1>1 DEF Call
<1>2. ASSUME NEW t \in Threads, Lock(t)  PROVE SlotInv'
  <2>. USE <1>2 DEF Lock, Acquire, Has
  <2>1. CASE pc' = pc
    BY <2>1
  <2>2. CASE pc' = [pc EXCEPT ![t] = "create"]
    <3>1. PICK i \in Slots : mClients[i] = NoClient /\ at' = [at EXCEPT ![t] = i]
      BY <2>2
    <3>. QED BY <2>2, <3>1
  <2>3. CASE pc' = [pc EXCEPT ![t] = "scan"]
    BY <2>3
  <2>. QED BY <2>1, <2>2, <2>3
<1>3. ASSUME NEW t \in Threads, Scan(t)  PROVE SlotInv'
  BY <1>3 DEF Scan, InLoop, CaseOf, Has
<1>4. ASSUME NEW t \in Threads, ScanEnds(t)  PROVE SlotInv'
  BY <1>4 DEF ScanEnds, InLoop
<1>5. ASSUME NEW t \in Threads, Destroy(t)  PROVE SlotInv'
  BY <1>5 DEF Destroy, MysqlClose
<1>6. ASSUME NEW t \in Threads, Create(t)  PROVE SlotInv'
  BY <1>6 DEF Create, FreshClients
<1>7. ASSUME NEW t \in Threads, Connect(t)  PROVE SlotInv'
  BY <1>7 DEF Connect
<1>8. ASSUME NEW t \in Threads, ConnectThrows(t)  PROVE SlotInv'
  BY <1>8 DEF ConnectThrows, LockAfterThrow
<1>9. ASSUME NEW t \in Threads, Take(t)  PROVE SlotInv'
  BY <1>9 DEF Take, HandOut
<1>10. ASSUME NEW t \in Threads, Check(t)  PROVE SlotInv'
  BY <1>10 DEF Check, HandOut
<1>11. ASSUME NEW t \in Threads, Return(t)  PROVE SlotInv'
  BY <1>11 DEF Return
<1>12. ASSUME NEW t \in Threads, QueryStart(t)  PROVE SlotInv'
  BY <1>12 DEF QueryStart
<1>13. ASSUME NEW t \in Threads, QueryEnd(t)  PROVE SlotInv'
  BY <1>13 DEF QueryEnd
<1>24. ASSUME NEW t \in Threads, QueryThrows(t)  PROVE SlotInv'
  BY <1>24 DEF QueryThrows
<1>14. ASSUME NEW t \in Threads, GiveBack(t)  PROVE SlotInv'
  BY <1>14 DEF GiveBack, StateAfter
<1>15. ASSUME NEW t \in Threads, Refused(t)  PROVE SlotInv'
  BY <1>15 DEF Refused
<1>16. CASE MonitorTest
  BY <1>16 DEF MonitorTest, Inspects, Has
<1>17. CASE MonitorPass
  BY <1>17 DEF MonitorPass, NextSlot
<1>18. CASE MonitorDecide
  BY <1>18 DEF MonitorDecide
<1>19. CASE MonitorRenew
  BY <1>19 DEF MonitorRenew, NextSlot
<1>20. CASE MonitorClose
  BY <1>20 DEF MonitorClose, MysqlClose
<1>21. CASE MonitorClosed
  BY <1>21 DEF MonitorClosed, NextSlot
<1>22. ASSUME NEW i \in Slots, Ages(i)  PROVE SlotInv'
  BY <1>22 DEF Ages
<1>23. CASE UNCHANGED vars
  BY <1>23 DEF vars, history
<1>. QED BY <1>1, <1>2, <1>3, <1>4, <1>5, <1>6, <1>7, <1>8, <1>9, <1>10, <1>11,
   <1>12, <1>13, <1>14, <1>15, <1>16, <1>17, <1>18, <1>19, <1>20, <1>21, <1>22,
   <1>23, <1>24 DEF Next, CallerStep, MonitorStep

\* Every step keeps open connections in the slots.
LEMMA PooledStep ==
  ASSUME MemoryOK, LockInv, SlotInv, PooledInv, [Next]_vars
  PROVE  PooledInv'
<1>. USE SizeAssumption, ValueAssumption DEF PooledInv, ConnectionsPooled,
   SlotInv, AtClient, LockInv, MemoryOK, Slots, Steps, Locked, Using, Goto,
   Keeping, callers, pool, monitor
<1>1. ASSUME NEW t \in Threads, Call(t)  PROVE PooledInv'
  BY <1>1 DEF Call
<1>2. ASSUME NEW t \in Threads, Lock(t)  PROVE PooledInv'
  BY <1>2 DEF Lock, Acquire
<1>3. ASSUME NEW t \in Threads, Scan(t)  PROVE PooledInv'
  BY <1>3 DEF Scan, InLoop, CaseOf, Has
<1>4. ASSUME NEW t \in Threads, ScanEnds(t)  PROVE PooledInv'
  BY <1>4 DEF ScanEnds, InLoop
<1>5. ASSUME NEW t \in Threads, Destroy(t)  PROVE PooledInv'
  BY <1>5 DEF Destroy, MysqlClose
<1>6. ASSUME NEW t \in Threads, Create(t)  PROVE PooledInv'
  BY <1>6 DEF Create, FreshClients
<1>7. ASSUME NEW t \in Threads, Connect(t)  PROVE PooledInv'
  BY <1>7 DEF Connect
<1>8. ASSUME NEW t \in Threads, ConnectThrows(t)  PROVE PooledInv'
  BY <1>8 DEF ConnectThrows, LockAfterThrow
<1>9. ASSUME NEW t \in Threads, Take(t)  PROVE PooledInv'
  BY <1>9 DEF Take, HandOut
<1>10. ASSUME NEW t \in Threads, Check(t)  PROVE PooledInv'
  BY <1>10 DEF Check, HandOut
<1>11. ASSUME NEW t \in Threads, Return(t)  PROVE PooledInv'
  BY <1>11 DEF Return
<1>12. ASSUME NEW t \in Threads, QueryStart(t)  PROVE PooledInv'
  BY <1>12 DEF QueryStart
<1>13. ASSUME NEW t \in Threads, QueryEnd(t)  PROVE PooledInv'
  BY <1>13 DEF QueryEnd
<1>24. ASSUME NEW t \in Threads, QueryThrows(t)  PROVE PooledInv'
  BY <1>24 DEF QueryThrows
<1>14. ASSUME NEW t \in Threads, GiveBack(t)  PROVE PooledInv'
  BY <1>14 DEF GiveBack, StateAfter
<1>15. ASSUME NEW t \in Threads, Refused(t)  PROVE PooledInv'
  BY <1>15 DEF Refused
<1>16. CASE MonitorTest
  BY <1>16 DEF MonitorTest, Inspects, Has
<1>17. CASE MonitorPass
  BY <1>17 DEF MonitorPass, NextSlot
<1>18. CASE MonitorDecide
  BY <1>18 DEF MonitorDecide
<1>19. CASE MonitorRenew
  BY <1>19 DEF MonitorRenew, NextSlot
<1>20. CASE MonitorClose
  BY <1>20 DEF MonitorClose, MysqlClose
<1>21. CASE MonitorClosed
  BY <1>21 DEF MonitorClosed, NextSlot
<1>22. ASSUME NEW i \in Slots, Ages(i)  PROVE PooledInv'
  BY <1>22 DEF Ages
<1>23. CASE UNCHANGED vars
  BY <1>23 DEF vars, history
<1>. QED BY <1>1, <1>2, <1>3, <1>4, <1>5, <1>6, <1>7, <1>8, <1>9, <1>10, <1>11,
   <1>12, <1>13, <1>14, <1>15, <1>16, <1>17, <1>18, <1>19, <1>20, <1>21, <1>22,
   <1>23, <1>24 DEF Next, CallerStep, MonitorStep

\* Every step keeps Busy clients in use.
LEMMA BusyStep ==
  ASSUME TypeOK, LockInv, SlotInv, BusyHasUser, [Next]_vars
  PROVE  BusyHasUser'
<1>. USE SizeAssumption, ValueAssumption DEF Has, Uses, LostSlots, SlotInv, AtClient,
   LockInv, TypeOK, MemoryOK, Slots, Steps, Locked, Using, Goto, Keeping, callers, pool,
   monitor
<1>. SUFFICES ASSUME NEW i \in Slots, mClients'[i] # NoClient, State'[mClients'[i]] = "Busy",
                     mClients'[i] \notin lost'
              PROVE  \E u \in Threads : Uses(u, mClients[i])'
  BY DEF BusyHasUser
<1>h. mClients'[i] \notin lost
  <2>1. mClients'[i] \in Clients
    BY MemoryStep
  <2>. QED BY <2>1, NextKeeps, HistoryGrows DEF vars, history
<1>1. ASSUME NEW t \in Threads, Call(t)  PROVE \E u \in Threads : Uses(u, mClients[i])'
  <2>1. PICK u \in Threads : Uses(u, mClients[i])
    BY <1>1, <1>h DEF Call, BusyHasUser
  <2>. QED BY <1>1, <2>1 DEF Call
<1>2. ASSUME NEW t \in Threads, Lock(t)  PROVE \E u \in Threads : Uses(u, mClients[i])'
  <2>1. PICK u \in Threads : Uses(u, mClients[i])
    BY <1>2, <1>h DEF Lock, Acquire, BusyHasUser
  <2>. QED BY <1>2, <2>1 DEF Lock, Acquire
<1>3. ASSUME NEW t \in Threads, Scan(t)  PROVE \E u \in Threads : Uses(u, mClients[i])'
  <2>1. PICK u \in Threads : Uses(u, mClients[i])
    BY <1>3, <1>h DEF Scan, InLoop, CaseOf, Has, BusyHasUser
  <2>. QED BY <1>3, <2>1 DEF Scan, InLoop, CaseOf, Has
<1>4. ASSUME NEW t \in Threads, ScanEnds(t)  PROVE \E u \in Threads : Uses(u, mClients[i])'
  <2>1. PICK u \in Threads : Uses(u, mClients[i])
    BY <1>4, <1>h DEF ScanEnds, InLoop, BusyHasUser
  <2>. QED BY <1>4, <2>1 DEF ScanEnds, InLoop
<1>5. ASSUME NEW t \in Threads, Destroy(t)  PROVE \E u \in Threads : Uses(u, mClients[i])'
  <2>1. PICK u \in Threads : Uses(u, mClients[i])
    BY <1>5, <1>h DEF Destroy, MysqlClose, BusyHasUser
  <2>. QED BY <1>5, <2>1 DEF Destroy, MysqlClose
<1>6. ASSUME NEW t \in Threads, Create(t)  PROVE \E u \in Threads : Uses(u, mClients[i])'
  <2>. USE <1>6, <1>h DEF Create, FreshClients, BusyHasUser
  <2>1. i # at[t]
    OBVIOUS
  <2>2. PICK u \in Threads : Uses(u, mClients[i])
    BY <2>1
  <2>. QED BY <2>1, <2>2
<1>7. ASSUME NEW t \in Threads, Connect(t)  PROVE \E u \in Threads : Uses(u, mClients[i])'
  <2>1. PICK u \in Threads : Uses(u, mClients[i])
    BY <1>7, <1>h DEF Connect, BusyHasUser
  <2>. QED BY <1>7, <2>1 DEF Connect
<1>8. ASSUME NEW t \in Threads, ConnectThrows(t)  PROVE \E u \in Threads : Uses(u, mClients[i])'
  <2>1. PICK u \in Threads : Uses(u, mClients[i])
    BY <1>8, <1>h DEF ConnectThrows, LockAfterThrow, BusyHasUser
  <2>. QED BY <1>8, <2>1 DEF ConnectThrows, LockAfterThrow
<1>9. ASSUME NEW t \in Threads, Take(t)  PROVE \E u \in Threads : Uses(u, mClients[i])'
  <2>. USE <1>9, <1>h DEF Take, HandOut, BusyHasUser
  <2>1. CASE i = at[t]
    BY <2>1
  <2>2. CASE i # at[t]
    <3>1. PICK u \in Threads : Uses(u, mClients[i])
      BY <2>2
    <3>. QED BY <3>1
  <2>. QED BY <2>1, <2>2
<1>10. ASSUME NEW t \in Threads, Check(t)  PROVE \E u \in Threads : Uses(u, mClients[i])'
  <2>1. PICK u \in Threads : Uses(u, mClients[i])
    BY <1>10, <1>h DEF Check, HandOut, BusyHasUser
  <2>. QED BY <1>10, <2>1 DEF Check, HandOut
<1>11. ASSUME NEW t \in Threads, Return(t)  PROVE \E u \in Threads : Uses(u, mClients[i])'
  <2>1. PICK u \in Threads : Uses(u, mClients[i])
    BY <1>11, <1>h DEF Return, BusyHasUser
  <2>. QED BY <1>11, <2>1 DEF Return
<1>12. ASSUME NEW t \in Threads, QueryStart(t)  PROVE \E u \in Threads : Uses(u, mClients[i])'
  <2>1. PICK u \in Threads : Uses(u, mClients[i])
    BY <1>12, <1>h DEF QueryStart, BusyHasUser
  <2>. QED BY <1>12, <2>1 DEF QueryStart
<1>13. ASSUME NEW t \in Threads, QueryEnd(t)  PROVE \E u \in Threads : Uses(u, mClients[i])'
  <2>1. PICK u \in Threads : Uses(u, mClients[i])
    BY <1>13, <1>h DEF QueryEnd, BusyHasUser
  <2>. QED BY <1>13, <2>1 DEF QueryEnd
<1>24. ASSUME NEW t \in Threads, QueryThrows(t)  PROVE \E u \in Threads : Uses(u, mClients[i])'
  <2>1. PICK u \in Threads : Uses(u, mClients[i])
    BY <1>24, <1>h DEF QueryThrows, BusyHasUser
  <2>2. mClients'[i] \in Clients /\ ~Drops(t, mClients'[i])
    BY <1>24, MemoryStep, HistoryGrows DEF QueryThrows
  <2>3. u # t
    BY <1>24, <2>1, <2>2 DEF QueryThrows, Drops
  <2>. QED BY <1>24, <2>1, <2>3 DEF QueryThrows
<1>14. ASSUME NEW t \in Threads, GiveBack(t)  PROVE \E u \in Threads : Uses(u, mClients[i])'
  <2>1. PICK u \in Threads : Uses(u, mClients[i])
    BY <1>14, <1>h DEF GiveBack, StateAfter, BusyHasUser
  <2>. QED BY <1>14, <2>1 DEF GiveBack, StateAfter
<1>15. ASSUME NEW t \in Threads, Refused(t)  PROVE \E u \in Threads : Uses(u, mClients[i])'
  <2>1. PICK u \in Threads : Uses(u, mClients[i])
    BY <1>15, <1>h DEF Refused, BusyHasUser
  <2>. QED BY <1>15, <2>1 DEF Refused
<1>16. CASE MonitorTest
  <2>1. PICK u \in Threads : Uses(u, mClients[i])
    BY <1>16, <1>h DEF MonitorTest, Inspects, Has, BusyHasUser
  <2>. QED BY <1>16, <2>1 DEF MonitorTest, Inspects, Has
<1>17. CASE MonitorPass
  <2>1. PICK u \in Threads : Uses(u, mClients[i])
    BY <1>17, <1>h DEF MonitorPass, NextSlot, BusyHasUser
  <2>. QED BY <1>17, <2>1 DEF MonitorPass, NextSlot
<1>18. CASE MonitorDecide
  <2>1. PICK u \in Threads : Uses(u, mClients[i])
    BY <1>18, <1>h DEF MonitorDecide, BusyHasUser
  <2>. QED BY <1>18, <2>1 DEF MonitorDecide
<1>19. CASE MonitorRenew
  <2>1. PICK u \in Threads : Uses(u, mClients[i])
    BY <1>19, <1>h DEF MonitorRenew, NextSlot, BusyHasUser
  <2>. QED BY <1>19, <2>1 DEF MonitorRenew, NextSlot
<1>20. CASE MonitorClose
  <2>1. PICK u \in Threads : Uses(u, mClients[i])
    BY <1>20, <1>h DEF MonitorClose, MysqlClose, BusyHasUser
  <2>. QED BY <1>20, <2>1 DEF MonitorClose, MysqlClose
<1>21. CASE MonitorClosed
  <2>1. PICK u \in Threads : Uses(u, mClients[i])
    BY <1>21, <1>h DEF MonitorClosed, NextSlot, BusyHasUser
  <2>. QED BY <1>21, <2>1 DEF MonitorClosed, NextSlot
<1>22. ASSUME NEW j \in Slots, Ages(j)  PROVE \E u \in Threads : Uses(u, mClients[i])'
  <2>1. PICK u \in Threads : Uses(u, mClients[i])
    BY <1>22, <1>h DEF Ages, BusyHasUser
  <2>. QED BY <1>22, <2>1 DEF Ages
<1>23. CASE UNCHANGED vars
  <2>1. PICK u \in Threads : Uses(u, mClients[i])
    BY <1>23, <1>h DEF vars, BusyHasUser
  <2>. QED BY <1>23, <2>1 DEF vars
<1>. QED BY <1>1, <1>2, <1>3, <1>4, <1>5, <1>6, <1>7, <1>8, <1>9, <1>10, <1>11,
   <1>12, <1>13, <1>14, <1>15, <1>16, <1>17, <1>18, <1>19, <1>20, <1>21, <1>22,
   <1>23, <1>24 DEF Next, CallerStep, MonitorStep

\* Every step keeps the pool wedged.
LEMMA WedgedStep ==
  ASSUME MemoryOK, LockInv, WedgedInv, [Next]_vars
  PROVE  WedgedInv'
<1>. USE SizeAssumption, ValueAssumption DEF WedgedInv, History, Occurs,
   Accidents, LockInv, MemoryOK, Steps, Locked, Using, Goto, Keeping, callers,
   pool, monitor
<1>1. ASSUME NEW t \in Threads, Call(t)  PROVE WedgedInv'
  BY <1>1 DEF Call
<1>2. ASSUME NEW t \in Threads, Lock(t)  PROVE WedgedInv'
  BY <1>2 DEF Lock, Acquire
<1>3. ASSUME NEW t \in Threads, Scan(t)  PROVE WedgedInv'
  BY <1>3 DEF Scan, InLoop, CaseOf, Has
<1>4. ASSUME NEW t \in Threads, ScanEnds(t)  PROVE WedgedInv'
  BY <1>4 DEF ScanEnds, InLoop
<1>5. ASSUME NEW t \in Threads, Destroy(t)  PROVE WedgedInv'
  BY <1>5 DEF Destroy, MysqlClose
<1>6. ASSUME NEW t \in Threads, Create(t)  PROVE WedgedInv'
  BY <1>6 DEF Create, FreshClients
<1>7. ASSUME NEW t \in Threads, Connect(t)  PROVE WedgedInv'
  BY <1>7 DEF Connect
<1>8. ASSUME NEW t \in Threads, ConnectThrows(t)  PROVE WedgedInv'
  BY <1>8 DEF ConnectThrows, LockAfterThrow
<1>9. ASSUME NEW t \in Threads, Take(t)  PROVE WedgedInv'
  BY <1>9 DEF Take, HandOut
<1>10. ASSUME NEW t \in Threads, Check(t)  PROVE WedgedInv'
  BY <1>10 DEF Check, HandOut
<1>11. ASSUME NEW t \in Threads, Return(t)  PROVE WedgedInv'
  BY <1>11 DEF Return
<1>12. ASSUME NEW t \in Threads, QueryStart(t)  PROVE WedgedInv'
  BY <1>12 DEF QueryStart
<1>13. ASSUME NEW t \in Threads, QueryEnd(t)  PROVE WedgedInv'
  BY <1>13 DEF QueryEnd
<1>24. ASSUME NEW t \in Threads, QueryThrows(t)  PROVE WedgedInv'
  BY <1>24 DEF QueryThrows
<1>14. ASSUME NEW t \in Threads, GiveBack(t)  PROVE WedgedInv'
  BY <1>14 DEF GiveBack, StateAfter
<1>15. ASSUME NEW t \in Threads, Refused(t)  PROVE WedgedInv'
  BY <1>15 DEF Refused
<1>16. CASE MonitorTest
  BY <1>16 DEF MonitorTest, Inspects, Has
<1>17. CASE MonitorPass
  BY <1>17 DEF MonitorPass, NextSlot
<1>18. CASE MonitorDecide
  BY <1>18 DEF MonitorDecide
<1>19. CASE MonitorRenew
  BY <1>19 DEF MonitorRenew, NextSlot
<1>20. CASE MonitorClose
  BY <1>20 DEF MonitorClose, MysqlClose
<1>21. CASE MonitorClosed
  BY <1>21 DEF MonitorClosed, NextSlot
<1>22. ASSUME NEW i \in Slots, Ages(i)  PROVE WedgedInv'
  BY <1>22 DEF Ages
<1>23. CASE UNCHANGED vars
  BY <1>23 DEF vars, history
<1>. QED BY <1>1, <1>2, <1>3, <1>4, <1>5, <1>6, <1>7, <1>8, <1>9, <1>10, <1>11,
   <1>12, <1>13, <1>14, <1>15, <1>16, <1>17, <1>18, <1>19, <1>20, <1>21, <1>22,
   <1>23, <1>24 DEF Next, CallerStep, MonitorStep

-----------------------------------------------------------------------------
(* The first layer as a whole, and the theorems it gives.                   *)

LEMMA StructureInit ==
  ASSUME Init
  PROVE  Structure
<1>. USE SizeAssumption, ValueAssumption DEF Init, Slots
<1>1. TypeOK
  BY DEF TypeOK, MemoryOK, Steps
<1>2. LockInv /\ WedgedInv
  BY DEF LockInv, WedgedInv, Locked
<1>3. SlotInv /\ PooledInv
  BY DEF SlotInv, PooledInv, ConnectionsPooled, AtClient, Using
<1>4. BusyHasUser
  BY DEF BusyHasUser, Has
<1>. QED BY <1>1, <1>2, <1>3, <1>4 DEF Structure

LEMMA StructureStep ==
  ASSUME Structure, [Next]_vars
  PROVE  Structure'
<1>. USE DEF Structure, TypeOK
<1>1. MemoryOK' /\ LockInv' /\ SlotInv' /\ PooledInv' /\ BusyHasUser' /\ WedgedInv'
  BY MemoryStep, LockStep, SlotStep, PooledStep, BusyStep, WedgedStep DEF TypeOK
<1>2. TypeOK'
  <2>1. CASE UNCHANGED vars
    BY <1>1, <2>1 DEF vars, history, pool
  <2>2. CASE Next
    BY <1>1, <2>2, NextKeeps, HistoryGrows
  <2>. QED BY <2>1, <2>2
<1>. QED BY <1>1, <1>2

\* What holds whatever fails: the lock's owner, filled slots, open connections and
\* busy clients.  The theorems below are parts of it.
THEOREM StructureHolds == Spec => []Structure
BY StructureInit, StructureStep, PTL DEF Spec

\* Every variable keeps its type: no thread and no monitor ever dereferences an
\* empty slot or leaves the bounds of mClients but at the fault the model names.
THEOREM TypesHold == Spec => []TypeOK
<1>1. Structure => TypeOK
  BY DEF Structure
<1>. QED BY <1>1, StructureHolds, PTL

\* However the threads and the monitor interleave, with connects and queries
\* failing, every open MySQL connection belongs to a client in a slot.
THEOREM ConnectionsStayPooled == Spec => []ConnectionsPooled
<1>1. Structure => ConnectionsPooled
  BY DEF Structure, PooledInv
<1>. QED BY <1>1, StructureHolds, PTL

\* A client marked Busy in its slot is in use, so it will be given back, unless an
\* exception that passes the catch block of its call has left it: by no other way
\* does the pool leak a slot.
THEOREM OnlyThrowsLoseClients == Spec => []BusyHasUser
<1>1. Structure => BusyHasUser
  BY DEF Structure
<1>. QED BY <1>1, StructureHolds, PTL

\* GetClient releases mMutex on every way out, but the one of a connect that
\* throws.
THEOREM LockIsReleased == Spec => []LockReleased
<1>1. Structure => LockReleased
  BY DEF Structure, LockInv, WedgedInv, LockReleased, TypeOK, MemoryOK
<1>. QED BY <1>1, StructureHolds, PTL

\* After a connect has thrown, no call ever gets past mMutex.lock().
THEOREM WedgedForGood == Spec => ThrowWedgesPool
<1>1. ASSUME Structure, [Next]_vars, "connect_threw" \in happened,
             NEW t \in Threads, pc[t] \in {"idle", "lock"}
      PROVE  pc'[t] \in {"idle", "lock"}
  <2>. USE <1>1 DEF Structure, WedgedInv, TypeOK, MemoryOK, Locked, Goto, Keeping, callers
  <2>1. ASSUME NEW s \in Threads, Call(s) \/ CallerStep(s) \/ QueryEnd(s) \/ QueryThrows(s)
        PROVE  pc'[t] \in {"idle", "lock"}
    <3>1. CASE Call(s)
      BY <3>1 DEF Call
    <3>2. CASE CallerStep(s)
      <4>1. ~Lock(s) /\ pc[s] \notin Locked
        BY DEF Lock, Acquire
      <4>. QED BY <2>1, <3>2, <4>1 DEF CallerStep, Scan, ScanEnds, Destroy, Create, Connect,
                  ConnectThrows, Take, Check, Return, QueryStart, GiveBack, Refused
    <3>3. CASE QueryEnd(s) \/ QueryThrows(s)
      BY <3>3 DEF QueryEnd, QueryThrows
    <3>. QED BY <2>1, <3>1, <3>2, <3>3
  <2>2. CASE MonitorStep \/ (\E i \in Slots : Ages(i)) \/ UNCHANGED vars
    BY <2>2 DEF MonitorStep, MonitorTest, MonitorPass, MonitorDecide, MonitorRenew,
                MonitorClose, MonitorClosed, Ages, vars
  <2>. QED BY <2>1, <2>2 DEF Next
<1>2. Structure /\ [Next]_vars =>
        [\A t \in Threads : "connect_threw" \in happened /\ pc[t] \in {"idle", "lock"}
           => pc'[t] \in {"idle", "lock"}]_vars
  BY <1>1
<1>. QED BY <1>2, StructureHolds, PTL DEF Spec, ThrowWedgesPool

-----------------------------------------------------------------------------
(***************************************************************************)
(* The State protocol of the connection pool, for any number of threads    *)
(* and slots.  Until the monitor has closed a client in use or one that is *)
(* Closed, or GetClient has handed out a rebuilt one, State tells truly    *)
(* who may touch a client, although neither runCommand nor the monitor     *)
(* takes mMutex.                                                           *)
(***************************************************************************)
\* From the unlock in GetClient to the end of the call.
Holding == {"return"} \cup Using

\* A thread holds the client of its slot, which is Busy, and holds it alone.
HoldInv ==
  /\ \A t \in Threads : pc[t] \in Using => at[t] \in Slots /\ mClients[at[t]] = pClient[t]
  /\ \A t \in Threads : pc[t] \in Holding => State[mClients[at[t]]] = "Busy"
  /\ \A s, t \in Threads :
       pc[s] \in Holding /\ pc[t] \in Holding /\ at[s] = at[t] => s = t

\* A client that nobody will give back is in its slot, and not in use.
LostInv ==
  /\ \A t \in Threads : pc[t] \in Holding => mClients[at[t]] \notin lost
  /\ \A c \in lost : \E i \in Slots : mClients[i] = c

\* GetClient works on a client nobody else touches.
StepInv ==
  \A t \in Threads :
    /\ pc[t] \in {"take", "check"} => State[mClients[at[t]]] = "Idle"
    /\ pc[t] \in {"connect", "reconnect"} => State[mClients[at[t]]] = "Closed"
    /\ pc[t] \in {"destroy", "rebuild"} => State[mClients[at[t]]] = "Broken"

\* So does the monitor while it closes one.
CloseInv ==
  /\ ~Overlap /\ ~Reclosing
  /\ mpc = "closed" => target = mClients[mAt]

\* The monitor, or the thread that rebuilds slot i, has closed its connection
\* but not yet written its State.
Halfway(i) == \/ mpc = "closed" /\ mAt = i
              \/ \E t \in Threads : pc[t] = "rebuild" /\ at[t] = i

\* A client that is not Closed has an open connection.
OpenInv ==
  \A i \in Slots : Has(i) /\ State[mClients[i]] # "Closed" /\ ~Halfway(i)
                     => connection[mClients[i]] = "open"

\* A scan that has not seen the pool full has a slot to find ahead of it.
AheadInv ==
  \A t \in Threads : pc[t] = "scan" /\ t \notin sawFull =>
    \E j \in Slots : j >= at[t] /\ (Has(j) => State[mClients[j]] # "Busy")

FaultInv == fault \in {"none", "slot_past_the_end"}

Protocol == HoldInv /\ LostInv /\ StepInv /\ CloseInv /\ OpenInv /\ AheadInv /\ FaultInv

\* A step that is none of the three accidents.
CleanStep ==
  /\ ~Overlap' /\ ~Reclosing'
  /\ ~\E t \in Threads : pc[t] = "check" /\ pc'[t] = "return"

-----------------------------------------------------------------------------
(* Each part of Protocol, step by step.                                     *)

\* Clients in use stay Busy, and apart.
LEMMA HoldStep ==
  ASSUME Structure, Protocol, CleanStep, [Next]_vars
  PROVE  HoldInv'
<1>. USE SizeAssumption, ValueAssumption DEF Protocol, HoldInv, LostInv, StepInv, CloseInv,
   Has, CleanStep, Overlap, Reclosing, Closing, Holding, SlotInv, AtClient,
   LockInv, Structure, TypeOK, MemoryOK, Slots, Steps, Locked, Using, Goto,
   Keeping, callers, pool, monitor
<1>1. ASSUME NEW t \in Threads, Call(t)  PROVE HoldInv'
  BY <1>1 DEF Call
<1>2. ASSUME NEW t \in Threads, Lock(t)  PROVE HoldInv'
  <2>1. pc[t] \notin Holding /\ pc'[t] \notin Holding /\ UNCHANGED <<pool, pClient>>
    BY <1>2 DEF Lock
  <2>2. \A s \in Threads \ {t} : pc'[s] = pc[s] /\ at'[s] = at[s]
    BY <1>2 DEF Lock
  <2>3. \A s \in Threads : pc'[s] \in Holding => pc[s] \in Holding /\ pc'[s] = pc[s] /\ at'[s] = at[s]
    BY <2>1, <2>2
  <2>. QED BY <2>1, <2>3
<1>3. ASSUME NEW t \in Threads, Scan(t)  PROVE HoldInv'
  BY <1>3, SMTT(60) DEF Scan, InLoop, CaseOf, Has
<1>4. ASSUME NEW t \in Threads, ScanEnds(t)  PROVE HoldInv'
  BY <1>4 DEF ScanEnds, InLoop
<1>5. ASSUME NEW t \in Threads, Destroy(t)  PROVE HoldInv'
  BY <1>5 DEF Destroy, MysqlClose
<1>6. ASSUME NEW t \in Threads, Create(t)  PROVE HoldInv'
  BY <1>6 DEF Create, FreshClients
<1>7. ASSUME NEW t \in Threads, Connect(t)  PROVE HoldInv'
  BY <1>7 DEF Connect
<1>8. ASSUME NEW t \in Threads, ConnectThrows(t)  PROVE HoldInv'
  BY <1>8 DEF ConnectThrows, LockAfterThrow
<1>9. ASSUME NEW t \in Threads, Take(t)  PROVE HoldInv'
  BY <1>9 DEF Take, HandOut
<1>10. ASSUME NEW t \in Threads, Check(t)  PROVE HoldInv'
  BY <1>10 DEF Check, HandOut
<1>11. ASSUME NEW t \in Threads, Return(t)  PROVE HoldInv'
  BY <1>11 DEF Return
<1>12. ASSUME NEW t \in Threads, QueryStart(t)  PROVE HoldInv'
  BY <1>12 DEF QueryStart
<1>13. ASSUME NEW t \in Threads, QueryEnd(t)  PROVE HoldInv'
  <2>1. \/ pc' = [pc EXCEPT ![t] = "done"]
        \/ pc' = [pc EXCEPT ![t] = "failed"]
    BY <1>13 DEF QueryEnd
  <2>2. \A s \in Threads : /\ pc'[s] \in Holding <=> pc[s] \in Holding
                           /\ pc'[s] \in Using <=> pc[s] \in Using
    BY <1>13, <2>1 DEF QueryEnd
  <2>. QED BY <1>13, <2>2 DEF QueryEnd
<1>24. ASSUME NEW t \in Threads, QueryThrows(t)  PROVE HoldInv'
  BY <1>24 DEF QueryThrows
<1>14. ASSUME NEW t \in Threads, GiveBack(t)  PROVE HoldInv'
  BY <1>14 DEF GiveBack, StateAfter
<1>15. ASSUME NEW t \in Threads, Refused(t)  PROVE HoldInv'
  BY <1>15 DEF Refused
<1>16. CASE MonitorTest
  BY <1>16 DEF MonitorTest, Inspects, Has
<1>17. CASE MonitorPass
  BY <1>17 DEF MonitorPass, NextSlot
<1>18. CASE MonitorDecide
  BY <1>18 DEF MonitorDecide
<1>19. CASE MonitorRenew
  BY <1>19 DEF MonitorRenew, NextSlot
<1>20. CASE MonitorClose
  BY <1>20 DEF MonitorClose, MysqlClose
<1>21. CASE MonitorClosed
  BY <1>21 DEF MonitorClosed, NextSlot
<1>22. ASSUME NEW i \in Slots, Ages(i)  PROVE HoldInv'
  BY <1>22 DEF Ages
<1>23. CASE UNCHANGED vars
  BY <1>23 DEF vars, history
<1>. QED BY <1>1, <1>2, <1>3, <1>4, <1>5, <1>6, <1>7, <1>8, <1>9, <1>10, <1>11,
   <1>12, <1>13, <1>14, <1>15, <1>16, <1>17, <1>18, <1>19, <1>20, <1>21, <1>22,
   <1>23, <1>24 DEF Next, CallerStep, MonitorStep

\* Nobody gets a client that was left Busy, and only its own user leaves one.
LEMMA LostUnused ==
  ASSUME Structure, Protocol, CleanStep, [Next]_vars
  PROVE  \A t \in Threads : pc'[t] \in Holding => mClients'[at'[t]] \notin lost'
<1>1. CASE UNCHANGED vars
  BY <1>1 DEF vars, pool, history, Protocol, LostInv
<1>2. CASE Next
  <2>. SUFFICES ASSUME NEW s \in Threads, pc'[s] \in Holding, mClients'[at'[s]] \in lost'
                PROVE  FALSE
    OBVIOUS
  <2>. USE DEF Structure, TypeOK, MemoryOK, Holding, Using
  <2>h. History
    BY <1>2, NextKeeps
  <2>1. Take(s) \/ (pc[s] \in Holding /\ at'[s] = at[s] /\ mClients'[at[s]] = mClients[at[s]])
    <3>. USE DEF Goto, Keeping, callers, pool, monitor, HandOut
    <3>1. ASSUME NEW t \in Threads, Call(t) \/ Lock(t) \/ ScanEnds(t) \/ Refused(t)
          PROVE  pc[s] \in Holding /\ at'[s] = at[s] /\ mClients'[at[s]] = mClients[at[s]]
      BY <3>1 DEF Call, Lock, ScanEnds, Refused
    <3>2. ASSUME NEW t \in Threads, Scan(t)
          PROVE  pc[s] \in Holding /\ at'[s] = at[s] /\ mClients'[at[s]] = mClients[at[s]]
      BY <3>2 DEF Scan, CaseOf
    <3>3. ASSUME NEW t \in Threads, Destroy(t) \/ Connect(t) \/ ConnectThrows(t)
          PROVE  pc[s] \in Holding /\ at'[s] = at[s] /\ mClients'[at[s]] = mClients[at[s]]
      BY <3>3 DEF Destroy, Connect, ConnectThrows
    <3>4. ASSUME NEW t \in Threads, Create(t)
          PROVE  pc[s] \in Holding /\ at'[s] = at[s] /\ mClients'[at[s]] = mClients[at[s]]
      <4>1. pc[s] \in Holding /\ at'[s] = at[s]
        BY <3>4 DEF Create
      <4>2. at[s] # at[t]
        <5>1. mClients[at[s]] # NoClient /\ State[mClients[at[s]]] = "Busy"
          BY <4>1, ValueAssumption
             DEF Protocol, HoldInv, Structure, SlotInv, AtClient, Holding, Using, TypeOK, MemoryOK
        <5>2. mClients[at[t]] = NoClient \/ State[mClients[at[t]]] = "Broken"
          BY <3>4 DEF Create, Protocol, StepInv, Structure, SlotInv
        <5>. QED BY <5>1, <5>2
      <4>. QED BY <3>4, <4>1, <4>2 DEF Create
    <3>5. ASSUME NEW t \in Threads, Take(t), s # t
          PROVE  pc[s] \in Holding /\ at'[s] = at[s] /\ mClients'[at[s]] = mClients[at[s]]
      BY <3>5 DEF Take
    <3>6. ASSUME NEW t \in Threads, Check(t)
          PROVE  pc[s] \in Holding /\ at'[s] = at[s] /\ mClients'[at[s]] = mClients[at[s]]
      BY <3>6 DEF Check, CleanStep
    <3>7. ASSUME NEW t \in Threads, Return(t) \/ QueryStart(t) \/ QueryEnd(t)
          PROVE  pc[s] \in Holding /\ at'[s] = at[s] /\ mClients'[at[s]] = mClients[at[s]]
      BY <3>7 DEF Return, QueryStart, QueryEnd
    <3>8. ASSUME NEW t \in Threads, QueryThrows(t) \/ GiveBack(t)
          PROVE  pc[s] \in Holding /\ at'[s] = at[s] /\ mClients'[at[s]] = mClients[at[s]]
      BY <3>8 DEF QueryThrows, GiveBack
    <3>9. CASE MonitorStep \/ \E i \in Slots : Ages(i)
      BY <3>9 DEF MonitorStep, MonitorTest, MonitorPass, MonitorDecide, MonitorRenew, MonitorClose, MonitorClosed, Ages
    <3>. QED BY <1>2, <3>1, <3>2, <3>3, <3>4, <3>5, <3>6, <3>7, <3>8, <3>9 DEF Next, CallerStep
  <2>2. CASE Take(s)
    <3>1. State[mClients[at[s]]] = "Idle" /\ mClients'[at'[s]] = mClients[at[s]]
      BY <2>2 DEF Take, Keeping, Protocol, StepInv
    <3>2. \A t \in Threads : ~(pc[t] = "running" /\ pc'[t] = "idle")
      BY <2>2 DEF Take, HandOut, Goto
    <3>3. mClients[at[s]] \notin lost
      BY <3>1
    <3>. QED BY <2>h, <3>1, <3>2, <3>3 DEF History, Drops
  <2>3. CASE pc[s] \in Holding /\ at'[s] = at[s] /\ mClients'[at[s]] = mClients[at[s]]
    <3>1. PICK t \in Threads : Drops(t, mClients[at[s]])
      BY <2>h, <2>3 DEF History, Protocol, LostInv
    <3>2. at[s] \in Slots /\ at[t] \in Slots /\ mClients[at[s]] \in Clients /\ mClients[at[t]] = mClients[at[s]]
      BY <2>3, <3>1 DEF Drops, Protocol, HoldInv, SlotInv, AtClient
    <3>3. at[s] = at[t]
      BY <3>2, ValueAssumption DEF SlotInv
    <3>4. s = t
      BY <2>3, <3>1, <3>3 DEF Drops, Protocol, HoldInv
    <3>. QED BY <3>1, <3>4 DEF Drops
  <2>. QED BY <2>1, <2>2, <2>3
<1>. QED BY <1>1, <1>2

\* Once a client is left Busy, only the monitor writes its State.
LEMMA LostStays ==
  ASSUME Structure, Protocol, CleanStep, [Next]_vars, NEW c \in lost
  PROVE  /\ c \in lost' \/ (MonitorClosed /\ target = c)
         /\ \A i \in Slots : mClients[i] = c => mClients'[i] = c
<1>. USE DEF Structure, TypeOK, MemoryOK, Goto, Keeping, callers, pool, monitor
<1>0. c \in Clients /\ State[c] = "Busy"
  OBVIOUS
<1>1. PICK i \in Slots : mClients[i] = c
  BY DEF Protocol, LostInv
<1>2. /\ State'[c] = "Busy" \/ (MonitorClosed /\ target = c) \/ UNCHANGED vars
      /\ \A k \in Slots : mClients[k] = c => mClients'[k] = c
  <2>1. ASSUME NEW t \in Threads, Call(t) \/ Lock(t) \/ Scan(t) \/ ScanEnds(t) \/ Refused(t)
        PROVE  State'[c] = "Busy" /\ mClients' = mClients
    BY <1>0, <2>1 DEF Call, Lock, Scan, ScanEnds, Refused
  <2>2. ASSUME NEW t \in Threads, Destroy(t) \/ ConnectThrows(t) \/ Check(t)
        PROVE  State'[c] = "Busy" /\ mClients' = mClients
    BY <1>0, <2>2 DEF Destroy, ConnectThrows, Check
  <2>3. ASSUME NEW t \in Threads, Create(t)
        PROVE  State'[c] = "Busy" /\ \A k \in Slots : mClients[k] = c => mClients'[k] = c
    <3>1. mClients[at[t]] # c /\ at[t] \in Slots
      BY <1>0, <2>3, ValueAssumption DEF Create, Protocol, StepInv, SlotInv, AtClient
    <3>2. PICK d \in FreshClients :
            /\ mClients' = [mClients EXCEPT ![at[t]] = d]
            /\ State' = [e \in Clients |-> IF e \in {d, mClients[at[t]]} THEN "Closed" ELSE State[e]]
      BY <2>3 DEF Create
    <3>3. d # c
      BY <1>1, <3>2 DEF FreshClients
    <3>. QED BY <1>0, <3>1, <3>2, <3>3
  <2>4. ASSUME NEW t \in Threads, Connect(t) \/ Take(t)
        PROVE  State'[c] = "Busy" /\ mClients' = mClients
    BY <1>0, <2>4 DEF Connect, Take, Protocol, StepInv
  <2>5. ASSUME NEW t \in Threads, Return(t) \/ QueryStart(t) \/ QueryEnd(t) \/ QueryThrows(t)
        PROVE  State'[c] = "Busy" /\ mClients' = mClients
    BY <1>0, <2>5 DEF Return, QueryStart, QueryEnd, QueryThrows
  <2>6. ASSUME NEW t \in Threads, GiveBack(t)
        PROVE  State'[c] = "Busy" /\ mClients' = mClients
    <3>1. pClient[t] # c
      BY <2>6 DEF GiveBack, Protocol, HoldInv, LostInv, Holding, Using
    <3>. QED BY <1>0, <2>6, <3>1 DEF GiveBack
  <2>7. CASE MonitorClosed
    BY <1>0, <2>7 DEF MonitorClosed
  <2>8. CASE \/ MonitorTest \/ MonitorPass \/ MonitorDecide \/ MonitorRenew \/ MonitorClose
             \/ \E k \in Slots : Ages(k)
    BY <1>0, <2>8 DEF MonitorTest, MonitorPass, MonitorDecide, MonitorRenew, MonitorClose, Ages
  <2>9. CASE UNCHANGED vars
    BY <2>9 DEF vars
  <2>. QED BY <2>1, <2>2, <2>3, <2>4, <2>5, <2>6, <2>7, <2>8, <2>9 DEF Next, CallerStep, MonitorStep
<1>3. CASE UNCHANGED vars
  BY <1>2, <1>3 DEF vars, history
<1>4. CASE Next
  <2>1. History
    BY <1>4, NextKeeps
  <2>2. ~UNCHANGED vars => State'[c] = "Busy" \/ (MonitorClosed /\ target = c)
    BY <1>2
  <2>. QED BY <1>0, <1>2, <1>3, <2>1, <2>2 DEF History
<1>. QED BY <1>3, <1>4

\* A client is left Busy by a query that throws, in its slot.
LEMMA LostGrows ==
  ASSUME Structure, Protocol, [Next]_vars, NEW c \in lost', c \notin lost
  PROVE  \E t \in Threads : QueryThrows(t) /\ pClient[t] = c
<1>. USE DEF Structure, TypeOK, MemoryOK, Goto, Keeping, callers, pool, monitor
<1>1. Next /\ History
  BY NextKeeps DEF vars, history
<1>2. PICK t \in Threads : Drops(t, c)
  BY <1>1 DEF History
<1>3. ASSUME NEW s \in Threads, pc'[t] = pc[t] \/ s = t, CallerStep(s) \/ Call(s) \/ QueryEnd(s)
      PROVE  FALSE
  BY <1>2, <1>3 DEF Drops, Call, CallerStep, Lock, Scan, ScanEnds, Destroy, Create, Connect,
     ConnectThrows, Take, Check, Return, QueryStart, QueryEnd, GiveBack, Refused
<1>4. ASSUME NEW s \in Threads, CallerStep(s) \/ Call(s) \/ QueryEnd(s) \/ QueryThrows(s)
      PROVE  pc'[t] = pc[t] \/ s = t
  BY <1>4, ZenonT(60) DEF Call, CallerStep, Lock, Scan, ScanEnds, Destroy, Create, Connect, HandOut,
     ConnectThrows, Take, Check, Return, QueryStart, QueryEnd, QueryThrows, GiveBack, Refused
<1>5. ~(MonitorStep \/ \E i \in Slots : Ages(i))
  BY <1>2 DEF Drops, MonitorStep, MonitorTest, MonitorPass, MonitorDecide, MonitorRenew, MonitorClose,
     MonitorClosed, Ages
<1>6. PICK s \in Threads : QueryThrows(s)
  BY <1>1, <1>3, <1>4, <1>5 DEF Next
<1>. QED BY <1>2, <1>4, <1>6 DEF Drops, QueryThrows

LEMMA LostStep ==
  ASSUME Structure, Protocol, CleanStep, [Next]_vars
  PROVE  LostInv'
<1>. USE DEF Structure, TypeOK, MemoryOK
<1>1. ASSUME NEW c \in lost'
      PROVE  \E i \in Slots : mClients'[i] = c
  <2>1. CASE c \in lost
    BY <2>1, LostStays DEF Protocol, LostInv
  <2>2. CASE c \notin lost
    <3>1. PICK t \in Threads : QueryThrows(t) /\ pClient[t] = c
      BY <2>2, LostGrows
    <3>. QED BY <3>1 DEF QueryThrows, Keeping, pool, Protocol, HoldInv, Using
  <2>. QED BY <2>1, <2>2
<1>. QED BY <1>1, LostUnused DEF LostInv

\* What GetClient has read of its client stays true.
LEMMA StepStep ==
  ASSUME Structure, Protocol, CleanStep, [Next]_vars
  PROVE  StepInv'
<1>. USE SizeAssumption, ValueAssumption DEF Protocol, HoldInv, StepInv, CloseInv,
   Has, CleanStep, Overlap, Reclosing, Closing, Holding, SlotInv, AtClient,
   LockInv, Structure, TypeOK, MemoryOK, Slots, Steps, Locked, Using, Goto,
   Keeping, callers, pool, monitor
<1>1. ASSUME NEW t \in Threads, Call(t)  PROVE StepInv'
  BY <1>1 DEF Call
<1>2. ASSUME NEW t \in Threads, Lock(t)  PROVE StepInv'
  BY <1>2 DEF Lock, Acquire
<1>3. ASSUME NEW t \in Threads, Scan(t)  PROVE StepInv'
  BY <1>3 DEF Scan, InLoop, CaseOf, Has
<1>4. ASSUME NEW t \in Threads, ScanEnds(t)  PROVE StepInv'
  BY <1>4 DEF ScanEnds, InLoop
<1>5. ASSUME NEW t \in Threads, Destroy(t)  PROVE StepInv'
  BY <1>5 DEF Destroy, MysqlClose
<1>6. ASSUME NEW t \in Threads, Create(t)  PROVE StepInv'
  BY <1>6 DEF Create, FreshClients
<1>7. ASSUME NEW t \in Threads, Connect(t)  PROVE StepInv'
  BY <1>7 DEF Connect
<1>8. ASSUME NEW t \in Threads, ConnectThrows(t)  PROVE StepInv'
  BY <1>8 DEF ConnectThrows, LockAfterThrow
<1>9. ASSUME NEW t \in Threads, Take(t)  PROVE StepInv'
  BY <1>9 DEF Take, HandOut
<1>10. ASSUME NEW t \in Threads, Check(t)  PROVE StepInv'
  BY <1>10 DEF Check, HandOut
<1>11. ASSUME NEW t \in Threads, Return(t)  PROVE StepInv'
  BY <1>11 DEF Return
<1>12. ASSUME NEW t \in Threads, QueryStart(t)  PROVE StepInv'
  BY <1>12 DEF QueryStart
<1>13. ASSUME NEW t \in Threads, QueryEnd(t)  PROVE StepInv'
  BY <1>13 DEF QueryEnd
<1>24. ASSUME NEW t \in Threads, QueryThrows(t)  PROVE StepInv'
  BY <1>24 DEF QueryThrows
<1>14. ASSUME NEW t \in Threads, GiveBack(t)  PROVE StepInv'
  BY <1>14 DEF GiveBack, StateAfter
<1>15. ASSUME NEW t \in Threads, Refused(t)  PROVE StepInv'
  BY <1>15 DEF Refused
<1>16. CASE MonitorTest
  BY <1>16 DEF MonitorTest, Inspects, Has
<1>17. CASE MonitorPass
  BY <1>17 DEF MonitorPass, NextSlot
<1>18. CASE MonitorDecide
  BY <1>18 DEF MonitorDecide
<1>19. CASE MonitorRenew
  BY <1>19 DEF MonitorRenew, NextSlot
<1>20. CASE MonitorClose
  BY <1>20 DEF MonitorClose, MysqlClose
<1>21. CASE MonitorClosed
  BY <1>21 DEF MonitorClosed, NextSlot
<1>22. ASSUME NEW i \in Slots, Ages(i)  PROVE StepInv'
  BY <1>22 DEF Ages
<1>23. CASE UNCHANGED vars
  BY <1>23 DEF vars, history
<1>. QED BY <1>1, <1>2, <1>3, <1>4, <1>5, <1>6, <1>7, <1>8, <1>9, <1>10, <1>11,
   <1>12, <1>13, <1>14, <1>15, <1>16, <1>17, <1>18, <1>19, <1>20, <1>21, <1>22,
   <1>23, <1>24 DEF Next, CallerStep, MonitorStep

\* The monitor's target stays in its slot.
LEMMA CloseStep ==
  ASSUME Structure, Protocol, CleanStep, [Next]_vars
  PROVE  CloseInv'
<1>. USE SizeAssumption, ValueAssumption DEF Protocol, CloseInv, Has, CleanStep,
   Overlap, Reclosing, Closing, Holding, SlotInv, AtClient, LockInv, Structure,
   TypeOK, MemoryOK, Slots, Steps, Locked, Using, Goto, Keeping, callers, pool,
   monitor
<1>1. ASSUME NEW t \in Threads, Call(t)  PROVE CloseInv'
  BY <1>1 DEF Call
<1>2. ASSUME NEW t \in Threads, Lock(t)  PROVE CloseInv'
  BY <1>2 DEF Lock, Acquire
<1>3. ASSUME NEW t \in Threads, Scan(t)  PROVE CloseInv'
  BY <1>3 DEF Scan, InLoop, CaseOf, Has
<1>4. ASSUME NEW t \in Threads, ScanEnds(t)  PROVE CloseInv'
  BY <1>4 DEF ScanEnds, InLoop
<1>5. ASSUME NEW t \in Threads, Destroy(t)  PROVE CloseInv'
  BY <1>5 DEF Destroy, MysqlClose
<1>6. ASSUME NEW t \in Threads, Create(t)  PROVE CloseInv'
  BY <1>6 DEF Create, FreshClients
<1>7. ASSUME NEW t \in Threads, Connect(t)  PROVE CloseInv'
  BY <1>7 DEF Connect
<1>8. ASSUME NEW t \in Threads, ConnectThrows(t)  PROVE CloseInv'
  BY <1>8 DEF ConnectThrows, LockAfterThrow
<1>9. ASSUME NEW t \in Threads, Take(t)  PROVE CloseInv'
  BY <1>9 DEF Take, HandOut
<1>10. ASSUME NEW t \in Threads, Check(t)  PROVE CloseInv'
  BY <1>10 DEF Check, HandOut
<1>11. ASSUME NEW t \in Threads, Return(t)  PROVE CloseInv'
  BY <1>11 DEF Return
<1>12. ASSUME NEW t \in Threads, QueryStart(t)  PROVE CloseInv'
  BY <1>12 DEF QueryStart
<1>13. ASSUME NEW t \in Threads, QueryEnd(t)  PROVE CloseInv'
  BY <1>13 DEF QueryEnd
<1>24. ASSUME NEW t \in Threads, QueryThrows(t)  PROVE CloseInv'
  BY <1>24 DEF QueryThrows
<1>14. ASSUME NEW t \in Threads, GiveBack(t)  PROVE CloseInv'
  BY <1>14 DEF GiveBack, StateAfter
<1>15. ASSUME NEW t \in Threads, Refused(t)  PROVE CloseInv'
  BY <1>15 DEF Refused
<1>16. CASE MonitorTest
  BY <1>16 DEF MonitorTest, Inspects, Has
<1>17. CASE MonitorPass
  BY <1>17 DEF MonitorPass, NextSlot
<1>18. CASE MonitorDecide
  BY <1>18 DEF MonitorDecide
<1>19. CASE MonitorRenew
  BY <1>19 DEF MonitorRenew, NextSlot
<1>20. CASE MonitorClose
  BY <1>20 DEF MonitorClose, MysqlClose
<1>21. CASE MonitorClosed
  BY <1>21 DEF MonitorClosed, NextSlot
<1>22. ASSUME NEW i \in Slots, Ages(i)  PROVE CloseInv'
  BY <1>22 DEF Ages
<1>23. CASE UNCHANGED vars
  BY <1>23 DEF vars, history
<1>. QED BY <1>1, <1>2, <1>3, <1>4, <1>5, <1>6, <1>7, <1>8, <1>9, <1>10, <1>11,
   <1>12, <1>13, <1>14, <1>15, <1>16, <1>17, <1>18, <1>19, <1>20, <1>21, <1>22,
   <1>23, <1>24 DEF Next, CallerStep, MonitorStep

\* Clients that are not Closed stay connected.
LEMMA OpenStep ==
  ASSUME Structure, Protocol, CleanStep, [Next]_vars
  PROVE  OpenInv'
<1>. USE SizeAssumption, ValueAssumption DEF Protocol, OpenInv, HoldInv, StepInv,
   CloseInv, Halfway, Has, CleanStep, Overlap, Reclosing, Closing, Holding,
   SlotInv, AtClient, LockInv, Structure, TypeOK, MemoryOK, Slots, Steps, Locked,
   Using, Goto, Keeping, callers, pool, monitor
<1>1. ASSUME NEW t \in Threads, Call(t)  PROVE OpenInv'
  BY <1>1 DEF Call
<1>2. ASSUME NEW t \in Threads, Lock(t)  PROVE OpenInv'
  BY <1>2 DEF Lock, Acquire
<1>3. ASSUME NEW t \in Threads, Scan(t)  PROVE OpenInv'
  BY <1>3 DEF Scan, InLoop, CaseOf, Has
<1>4. ASSUME NEW t \in Threads, ScanEnds(t)  PROVE OpenInv'
  BY <1>4 DEF ScanEnds, InLoop
<1>5. ASSUME NEW t \in Threads, Destroy(t)  PROVE OpenInv'
  BY <1>5 DEF Destroy, MysqlClose
<1>6. ASSUME NEW t \in Threads, Create(t)  PROVE OpenInv'
  BY <1>6 DEF Create, FreshClients
<1>7. ASSUME NEW t \in Threads, Connect(t)  PROVE OpenInv'
  BY <1>7 DEF Connect
<1>8. ASSUME NEW t \in Threads, ConnectThrows(t)  PROVE OpenInv'
  BY <1>8 DEF ConnectThrows, LockAfterThrow
<1>9. ASSUME NEW t \in Threads, Take(t)  PROVE OpenInv'
  BY <1>9 DEF Take, HandOut
<1>10. ASSUME NEW t \in Threads, Check(t)  PROVE OpenInv'
  BY <1>10 DEF Check, HandOut
<1>11. ASSUME NEW t \in Threads, Return(t)  PROVE OpenInv'
  BY <1>11 DEF Return
<1>12. ASSUME NEW t \in Threads, QueryStart(t)  PROVE OpenInv'
  BY <1>12 DEF QueryStart
<1>13. ASSUME NEW t \in Threads, QueryEnd(t)  PROVE OpenInv'
  BY <1>13 DEF QueryEnd
<1>24. ASSUME NEW t \in Threads, QueryThrows(t)  PROVE OpenInv'
  BY <1>24 DEF QueryThrows
<1>14. ASSUME NEW t \in Threads, GiveBack(t)  PROVE OpenInv'
  BY <1>14 DEF GiveBack, StateAfter
<1>15. ASSUME NEW t \in Threads, Refused(t)  PROVE OpenInv'
  BY <1>15 DEF Refused
<1>16. CASE MonitorTest
  BY <1>16 DEF MonitorTest, Inspects, Has
<1>17. CASE MonitorPass
  BY <1>17 DEF MonitorPass, NextSlot
<1>18. CASE MonitorDecide
  BY <1>18 DEF MonitorDecide
<1>19. CASE MonitorRenew
  BY <1>19 DEF MonitorRenew, NextSlot
<1>20. CASE MonitorClose
  BY <1>20 DEF MonitorClose, MysqlClose
<1>21. CASE MonitorClosed
  BY <1>21 DEF MonitorClosed, NextSlot
<1>22. ASSUME NEW i \in Slots, Ages(i)  PROVE OpenInv'
  BY <1>22 DEF Ages
<1>23. CASE UNCHANGED vars
  BY <1>23 DEF vars, history
<1>. QED BY <1>1, <1>2, <1>3, <1>4, <1>5, <1>6, <1>7, <1>8, <1>9, <1>10, <1>11,
   <1>12, <1>13, <1>14, <1>15, <1>16, <1>17, <1>18, <1>19, <1>20, <1>21, <1>22,
   <1>23, <1>24 DEF Next, CallerStep, MonitorStep

\* No MYSQL handle is misused.
LEMMA FaultStep ==
  ASSUME Structure, Protocol, CleanStep, [Next]_vars
  PROVE  FaultInv'
<1>. USE SizeAssumption, ValueAssumption DEF Protocol, FaultInv, OpenInv, HoldInv,
   LostInv, StepInv, CloseInv, Halfway, Has, CleanStep, Overlap, Reclosing, Closing,
   Holding, SlotInv, AtClient, LockInv, Structure, TypeOK, MemoryOK, Slots, Steps,
   Locked, Using, Goto, Keeping, callers, pool, monitor
<1>1. ASSUME NEW t \in Threads, Call(t)  PROVE FaultInv'
  BY <1>1 DEF Call
<1>2. ASSUME NEW t \in Threads, Lock(t)  PROVE FaultInv'
  BY <1>2 DEF Lock, Acquire
<1>3. ASSUME NEW t \in Threads, Scan(t)  PROVE FaultInv'
  BY <1>3 DEF Scan, InLoop, CaseOf, Has
<1>4. ASSUME NEW t \in Threads, ScanEnds(t)  PROVE FaultInv'
  BY <1>4 DEF ScanEnds, InLoop
<1>5. ASSUME NEW t \in Threads, Destroy(t)  PROVE FaultInv'
  BY <1>5 DEF Destroy, MysqlClose
<1>6. ASSUME NEW t \in Threads, Create(t)  PROVE FaultInv'
  BY <1>6 DEF Create, FreshClients
<1>7. ASSUME NEW t \in Threads, Connect(t)  PROVE FaultInv'
  BY <1>7 DEF Connect
<1>8. ASSUME NEW t \in Threads, ConnectThrows(t)  PROVE FaultInv'
  BY <1>8 DEF ConnectThrows, LockAfterThrow
<1>9. ASSUME NEW t \in Threads, Take(t)  PROVE FaultInv'
  BY <1>9 DEF Take, HandOut
<1>10. ASSUME NEW t \in Threads, Check(t)  PROVE FaultInv'
  BY <1>10 DEF Check, HandOut
<1>11. ASSUME NEW t \in Threads, Return(t)  PROVE FaultInv'
  BY <1>11 DEF Return
<1>12. ASSUME NEW t \in Threads, QueryStart(t)  PROVE FaultInv'
  <2>1. State[pClient[t]] = "Busy" /\ mClients[at[t]] = pClient[t] /\ at[t] \in Slots
    BY <1>12 DEF QueryStart
  <2>2. ~Halfway(at[t])
    BY <1>12, <2>1 DEF QueryStart
  <2>3. connection[pClient[t]] = "open"
    BY <1>12, <2>1, <2>2 DEF QueryStart
  <2>4. ~\E s \in Threads : pc[s] = "running" /\ pClient[s] = pClient[t]
    BY <1>12, <2>1 DEF QueryStart
  <2>. QED BY <1>12, <2>3, <2>4, SMTT(30) DEF QueryStart
<1>13. ASSUME NEW t \in Threads, QueryEnd(t)  PROVE FaultInv'
  BY <1>13 DEF QueryEnd
<1>24. ASSUME NEW t \in Threads, QueryThrows(t)  PROVE FaultInv'
  BY <1>24 DEF QueryThrows
<1>14. ASSUME NEW t \in Threads, GiveBack(t)  PROVE FaultInv'
  BY <1>14 DEF GiveBack, StateAfter
<1>15. ASSUME NEW t \in Threads, Refused(t)  PROVE FaultInv'
  BY <1>15 DEF Refused
<1>16. CASE MonitorTest
  BY <1>16 DEF MonitorTest, Inspects, Has
<1>17. CASE MonitorPass
  BY <1>17 DEF MonitorPass, NextSlot
<1>18. CASE MonitorDecide
  BY <1>18 DEF MonitorDecide
<1>19. CASE MonitorRenew
  BY <1>19 DEF MonitorRenew, NextSlot
<1>20. CASE MonitorClose
  BY <1>20 DEF MonitorClose, MysqlClose
<1>21. CASE MonitorClosed
  BY <1>21 DEF MonitorClosed, NextSlot
<1>22. ASSUME NEW i \in Slots, Ages(i)  PROVE FaultInv'
  BY <1>22 DEF Ages
<1>23. CASE UNCHANGED vars
  BY <1>23 DEF vars, history
<1>. QED BY <1>1, <1>2, <1>3, <1>4, <1>5, <1>6, <1>7, <1>8, <1>9, <1>10, <1>11,
   <1>12, <1>13, <1>14, <1>15, <1>16, <1>17, <1>18, <1>19, <1>20, <1>21, <1>22,
   <1>23, <1>24 DEF Next, CallerStep, MonitorStep

\* The slot ahead of a scan stays there to be found.
LEMMA AheadStep ==
  ASSUME Structure, Protocol, CleanStep, [Next]_vars
  PROVE  AheadInv'
<1>. USE SizeAssumption, ValueAssumption DEF Protocol, AheadInv, HoldInv, StepInv,
   Has, CleanStep, Overlap, Reclosing, Closing, Holding, SlotInv, AtClient,
   LockInv, Structure, TypeOK, MemoryOK, Slots, Steps, Locked, Using, Goto,
   Keeping, callers, pool, monitor
<1>. SUFFICES ASSUME NEW s \in Threads, pc'[s] = "scan", s \notin sawFull'
              PROVE  (\E j \in Slots : j >= at[s] /\ (Has(j) => State[mClients[j]] # "Busy"))'
  BY DEF AheadInv
<1>h. s \notin sawFull /\ AheadInv
  BY NextKeeps DEF History, Asks, vars, history
<1>1. ASSUME NEW t \in Threads, Call(t)  PROVE (\E j \in Slots : j >= at[s] /\ (Has(j) => State[mClients[j]] # "Busy"))'
  <2>1. pc[s] = "scan" /\ at'[s] = at[s]
    BY <1>1 DEF Call
  <2>2. PICK j \in Slots : j >= at[s] /\ (Has(j) => State[mClients[j]] # "Busy")
    BY <2>1, <1>h
  <2>. QED BY <1>1, <2>1, <2>2 DEF Call
<1>2. ASSUME NEW t \in Threads, Lock(t)  PROVE (\E j \in Slots : j >= at[s] /\ (Has(j) => State[mClients[j]] # "Busy"))'
  <2>1. pc[t] = "lock" /\ UNCHANGED <<pool, pClient>> /\ mMutex = NoThread
    BY <1>2 DEF Lock, Acquire
  <2>2. s = t /\ at'[s] = 1
    BY <1>2, <2>1 DEF Lock
  <2>3. \A u \in Threads \ {t} : pc'[u] = pc[u] /\ at'[u] = at[u]
    BY <1>2 DEF Lock
  <2>4. PICK j \in Slots : mClients'[j] \notin lost' /\ \A u \in Threads : ~HasSlot(u, j)'
    BY <1>2 DEF Lock, History, Full, LostSlots, Asks
  <2>5. ASSUME Has(j), State[mClients[j]] = "Busy"  PROVE FALSE
    <3>1. PICK u \in Threads : Uses(u, mClients[j])
      <4>1. mClients[j] \notin lost
        BY <1>2, <2>1, <2>4, <2>5 DEF Lock, History
      <4>. QED BY <2>5, <4>1 DEF BusyHasUser, LostSlots
    <3>2. HasSlot(u, j) /\ u # t
      BY <2>1, <2>5, <3>1 DEF Uses, HasSlot
    <3>3. HasSlot(u, j)'
      BY <2>3, <3>2 DEF HasSlot
    <3>. QED BY <2>4, <3>3
  <2>. QED BY <2>1, <2>2, <2>5
<1>3. ASSUME NEW t \in Threads, Scan(t)  PROVE (\E j \in Slots : j >= at[s] /\ (Has(j) => State[mClients[j]] # "Busy"))'
  <2>1. pc[s] = "scan" /\ s = t
    BY <1>3 DEF Scan
  <2>2. PICK j \in Slots : j >= at[s] /\ (Has(j) => State[mClients[j]] # "Busy")
    BY <2>1, <1>h
  <2>3. State[mClients[at[s]]] = "Busy" /\ mClients[at[s]] # NoClient /\ at'[s] = at[s] + 1
    BY <1>3, <2>1 DEF Scan, CaseOf, InLoop
  <2>4. j > at[s]
    BY <2>2, <2>3
  <2>. QED BY <1>3, <2>2, <2>3, <2>4, SMTT(30) DEF Scan
<1>4. ASSUME NEW t \in Threads, ScanEnds(t)  PROVE (\E j \in Slots : j >= at[s] /\ (Has(j) => State[mClients[j]] # "Busy"))'
  <2>1. pc[s] = "scan" /\ at'[s] = at[s]
    BY <1>4 DEF ScanEnds, InLoop
  <2>2. PICK j \in Slots : j >= at[s] /\ (Has(j) => State[mClients[j]] # "Busy")
    BY <2>1, <1>h
  <2>. QED BY <1>4, <2>1, <2>2 DEF ScanEnds, InLoop
<1>5. ASSUME NEW t \in Threads, Destroy(t)  PROVE (\E j \in Slots : j >= at[s] /\ (Has(j) => State[mClients[j]] # "Busy"))'
  <2>1. pc[s] = "scan" /\ at'[s] = at[s]
    BY <1>5 DEF Destroy, MysqlClose
  <2>2. PICK j \in Slots : j >= at[s] /\ (Has(j) => State[mClients[j]] # "Busy")
    BY <2>1, <1>h
  <2>. QED BY <1>5, <2>1, <2>2 DEF Destroy, MysqlClose
<1>6. ASSUME NEW t \in Threads, Create(t)  PROVE (\E j \in Slots : j >= at[s] /\ (Has(j) => State[mClients[j]] # "Busy"))'
  <2>1. pc[s] = "scan" /\ at'[s] = at[s]
    BY <1>6 DEF Create, FreshClients
  <2>2. PICK j \in Slots : j >= at[s] /\ (Has(j) => State[mClients[j]] # "Busy")
    BY <2>1, <1>h
  <2>. QED BY <1>6, <2>1, <2>2 DEF Create, FreshClients
<1>7. ASSUME NEW t \in Threads, Connect(t)  PROVE (\E j \in Slots : j >= at[s] /\ (Has(j) => State[mClients[j]] # "Busy"))'
  BY <1>7 DEF Connect
<1>8. ASSUME NEW t \in Threads, ConnectThrows(t)  PROVE (\E j \in Slots : j >= at[s] /\ (Has(j) => State[mClients[j]] # "Busy"))'
  <2>1. pc[s] = "scan" /\ at'[s] = at[s]
    BY <1>8 DEF ConnectThrows, LockAfterThrow
  <2>2. PICK j \in Slots : j >= at[s] /\ (Has(j) => State[mClients[j]] # "Busy")
    BY <2>1, <1>h
  <2>. QED BY <1>8, <2>1, <2>2 DEF ConnectThrows, LockAfterThrow
<1>9. ASSUME NEW t \in Threads, Take(t)  PROVE (\E j \in Slots : j >= at[s] /\ (Has(j) => State[mClients[j]] # "Busy"))'
  <2>1. pc[s] = "scan" /\ at'[s] = at[s]
    BY <1>9 DEF Take, HandOut
  <2>2. PICK j \in Slots : j >= at[s] /\ (Has(j) => State[mClients[j]] # "Busy")
    BY <2>1, <1>h
  <2>. QED BY <1>9, <2>1, <2>2 DEF Take, HandOut
<1>10. ASSUME NEW t \in Threads, Check(t)  PROVE (\E j \in Slots : j >= at[s] /\ (Has(j) => State[mClients[j]] # "Busy"))'
  BY <1>10 DEF Check, HandOut
<1>11. ASSUME NEW t \in Threads, Return(t)  PROVE (\E j \in Slots : j >= at[s] /\ (Has(j) => State[mClients[j]] # "Busy"))'
  <2>1. pc[s] = "scan" /\ at'[s] = at[s]
    BY <1>11 DEF Return
  <2>2. PICK j \in Slots : j >= at[s] /\ (Has(j) => State[mClients[j]] # "Busy")
    BY <2>1, <1>h
  <2>. QED BY <1>11, <2>1, <2>2 DEF Return
<1>12. ASSUME NEW t \in Threads, QueryStart(t)  PROVE (\E j \in Slots : j >= at[s] /\ (Has(j) => State[mClients[j]] # "Busy"))'
  <2>1. pc[s] = "scan" /\ at'[s] = at[s]
    BY <1>12 DEF QueryStart
  <2>2. PICK j \in Slots : j >= at[s] /\ (Has(j) => State[mClients[j]] # "Busy")
    BY <2>1, <1>h
  <2>. QED BY <1>12, <2>1, <2>2 DEF QueryStart
<1>13. ASSUME NEW t \in Threads, QueryEnd(t)  PROVE (\E j \in Slots : j >= at[s] /\ (Has(j) => State[mClients[j]] # "Busy"))'
  <2>1. pc[s] = "scan" /\ at'[s] = at[s]
    BY <1>13 DEF QueryEnd
  <2>2. PICK j \in Slots : j >= at[s] /\ (Has(j) => State[mClients[j]] # "Busy")
    BY <2>1, <1>h
  <2>. QED BY <1>13, <2>1, <2>2 DEF QueryEnd
<1>24. ASSUME NEW t \in Threads, QueryThrows(t)  PROVE (\E j \in Slots : j >= at[s] /\ (Has(j) => State[mClients[j]] # "Busy"))'
  <2>1. pc[s] = "scan" /\ at'[s] = at[s]
    BY <1>24 DEF QueryThrows
  <2>2. PICK j \in Slots : j >= at[s] /\ (Has(j) => State[mClients[j]] # "Busy")
    BY <2>1, <1>h
  <2>. QED BY <1>24, <2>1, <2>2 DEF QueryThrows
<1>14. ASSUME NEW t \in Threads, GiveBack(t)  PROVE (\E j \in Slots : j >= at[s] /\ (Has(j) => State[mClients[j]] # "Busy"))'
  <2>1. pc[s] = "scan" /\ at'[s] = at[s]
    BY <1>14 DEF GiveBack, StateAfter
  <2>2. PICK j \in Slots : j >= at[s] /\ (Has(j) => State[mClients[j]] # "Busy")
    BY <2>1, <1>h
  <2>. QED BY <1>14, <2>1, <2>2 DEF GiveBack, StateAfter
<1>15. ASSUME NEW t \in Threads, Refused(t)  PROVE (\E j \in Slots : j >= at[s] /\ (Has(j) => State[mClients[j]] # "Busy"))'
  <2>1. pc[s] = "scan" /\ at'[s] = at[s]
    BY <1>15 DEF Refused
  <2>2. PICK j \in Slots : j >= at[s] /\ (Has(j) => State[mClients[j]] # "Busy")
    BY <2>1, <1>h
  <2>. QED BY <1>15, <2>1, <2>2 DEF Refused
<1>16. CASE MonitorTest
  <2>1. pc[s] = "scan" /\ at'[s] = at[s]
    BY <1>16 DEF MonitorTest, Inspects, Has
  <2>2. PICK j \in Slots : j >= at[s] /\ (Has(j) => State[mClients[j]] # "Busy")
    BY <2>1, <1>h
  <2>. QED BY <1>16, <2>1, <2>2 DEF MonitorTest, Inspects, Has
<1>17. CASE MonitorPass
  <2>1. pc[s] = "scan" /\ at'[s] = at[s]
    BY <1>17 DEF MonitorPass, NextSlot
  <2>2. PICK j \in Slots : j >= at[s] /\ (Has(j) => State[mClients[j]] # "Busy")
    BY <2>1, <1>h
  <2>. QED BY <1>17, <2>1, <2>2 DEF MonitorPass, NextSlot
<1>18. CASE MonitorDecide
  <2>1. pc[s] = "scan" /\ at'[s] = at[s]
    BY <1>18 DEF MonitorDecide
  <2>2. PICK j \in Slots : j >= at[s] /\ (Has(j) => State[mClients[j]] # "Busy")
    BY <2>1, <1>h
  <2>. QED BY <1>18, <2>1, <2>2 DEF MonitorDecide
<1>19. CASE MonitorRenew
  <2>1. pc[s] = "scan" /\ at'[s] = at[s]
    BY <1>19 DEF MonitorRenew, NextSlot
  <2>2. PICK j \in Slots : j >= at[s] /\ (Has(j) => State[mClients[j]] # "Busy")
    BY <2>1, <1>h
  <2>. QED BY <1>19, <2>1, <2>2 DEF MonitorRenew, NextSlot
<1>20. CASE MonitorClose
  <2>1. pc[s] = "scan" /\ at'[s] = at[s]
    BY <1>20 DEF MonitorClose, MysqlClose
  <2>2. PICK j \in Slots : j >= at[s] /\ (Has(j) => State[mClients[j]] # "Busy")
    BY <2>1, <1>h
  <2>. QED BY <1>20, <2>1, <2>2 DEF MonitorClose, MysqlClose
<1>21. CASE MonitorClosed
  <2>1. pc[s] = "scan" /\ at'[s] = at[s]
    BY <1>21 DEF MonitorClosed, NextSlot
  <2>2. PICK j \in Slots : j >= at[s] /\ (Has(j) => State[mClients[j]] # "Busy")
    BY <2>1, <1>h
  <2>. QED BY <1>21, <2>1, <2>2 DEF MonitorClosed, NextSlot
<1>22. ASSUME NEW i \in Slots, Ages(i)  PROVE (\E j \in Slots : j >= at[s] /\ (Has(j) => State[mClients[j]] # "Busy"))'
  <2>1. pc[s] = "scan" /\ at'[s] = at[s]
    BY <1>22 DEF Ages
  <2>2. PICK j \in Slots : j >= at[s] /\ (Has(j) => State[mClients[j]] # "Busy")
    BY <2>1, <1>h
  <2>. QED BY <1>22, <2>1, <2>2 DEF Ages
<1>23. CASE UNCHANGED vars
  <2>1. pc[s] = "scan" /\ at'[s] = at[s]
    BY <1>23 DEF vars, history
  <2>2. PICK j \in Slots : j >= at[s] /\ (Has(j) => State[mClients[j]] # "Busy")
    BY <2>1, <1>h
  <2>. QED BY <1>23, <2>1, <2>2 DEF vars, history
<1>. QED BY <1>1, <1>2, <1>3, <1>4, <1>5, <1>6, <1>7, <1>8, <1>9, <1>10, <1>11,
   <1>12, <1>13, <1>14, <1>15, <1>16, <1>17, <1>18, <1>19, <1>20, <1>21, <1>22,
   <1>23, <1>24 DEF Next, CallerStep, MonitorStep

-----------------------------------------------------------------------------
(* The two layers together, and the theorems they give.                     *)

IInv == Structure /\ (NoAccident => Protocol)

LEMMA ProtocolInit ==
  ASSUME Init
  PROVE  Protocol
BY SizeAssumption, ValueAssumption
   DEF Init, Slots, Protocol, HoldInv, LostInv, StepInv, CloseInv, OpenInv, AheadInv, FaultInv,
       Holding, Using, Overlap, Reclosing, Closing, Has

LEMMA ProtocolStep ==
  ASSUME Structure, Protocol, NoAccident', [Next]_vars
  PROVE  Protocol'
<1>1. CASE UNCHANGED vars
  <2>1. CleanStep
    BY <1>1 DEF CleanStep, Protocol, CloseInv, Overlap, Reclosing, Closing, vars, pool, monitor, history
  <2>. QED BY <2>1, HoldStep, LostStep, StepStep, CloseStep, OpenStep, AheadStep, FaultStep DEF Protocol
<1>2. CASE Next
  <2>1. CleanStep
    BY <1>2, NextKeeps, HistoryGrows DEF CleanStep, NoAccident
  <2>. QED BY <2>1, HoldStep, LostStep, StepStep, CloseStep, OpenStep, AheadStep, FaultStep DEF Protocol
<1>. QED BY <1>1, <1>2

LEMMA IInvHolds == Spec => []IInv
<1>1. Init => IInv
  BY StructureInit, ProtocolInit DEF IInv
<1>2. IInv /\ [Next]_vars => IInv'
  <2>. SUFFICES ASSUME IInv, [Next]_vars
                PROVE  IInv'
    OBVIOUS
  <2>1. happened \subseteq happened'
    BY NextKeeps, HistoryGrows DEF vars, history
  <2>2. NoAccident' => NoAccident
    BY <2>1 DEF NoAccident
  <2>. QED BY <2>2, StructureStep, ProtocolStep DEF IInv
<1>. QED BY <1>1, <1>2, PTL DEF Spec

\* No client is ever used by two threads, unless the monitor closed a client in
\* use or a Closed one, or GetClient handed out a rebuilt one, for any number of threads, slots
\* and clients, whatever fails.
THEOREM UseIsExclusive == Spec => []ExclusiveUse
<1>1. IInv => ExclusiveUse
  <2>. SUFFICES ASSUME Structure, Protocol, NEW s \in Threads, NEW t \in Threads,
                       NEW c \in Clients, Uses(s, c), Uses(t, c)
                PROVE  s = t
    BY DEF IInv, ExclusiveUse
  <2>1. /\ pc[s] \in Holding /\ at[s] \in Slots /\ mClients[at[s]] = c
        /\ pc[t] \in Holding /\ at[t] \in Slots /\ mClients[at[t]] = c
    BY DEF Uses, Holding, Structure, SlotInv, AtClient, Protocol, HoldInv
  <2>2. at[s] = at[t]
    BY <2>1, ValueAssumption DEF Structure, SlotInv
  <2>. QED BY <2>1, <2>2 DEF Protocol, HoldInv
<1>. QED BY <1>1, IInvHolds, PTL

\* Until then no MYSQL handle is freed twice, freed under a running query, used
\* after it was freed, or used by two threads.
THEOREM HandlesAreSafe == Spec => []HandlesSafe
<1>1. IInv => HandlesSafe
  BY DEF IInv, HandlesSafe, Protocol, FaultInv
<1>. QED BY <1>1, IInvHolds, PTL

\* A client that an exception has left Busy is lost to every caller, until the
\* monitor closes its connection.
THEOREM LostClientsStay == Spec => LostUntilClosed
<1>1. ASSUME IInv, Next, NoAccident', NEW c \in lost
      PROVE  /\ ~\E t \in Threads : Uses(t, c)
             /\ c \notin lost' => MonitorClosed /\ target = c
  <2>1. NoAccident /\ CleanStep
    BY <1>1, NextKeeps, HistoryGrows DEF NoAccident, CleanStep
  <2>2. Structure /\ Protocol
    BY <1>1, <2>1 DEF IInv
  <2>3. ASSUME NEW t \in Threads, Uses(t, c)
        PROVE  FALSE
    BY <2>2, <2>3 DEF Uses, Holding, Using, Protocol, HoldInv, LostInv
  <2>. QED BY <1>1, <2>1, <2>2, <2>3, LostStays
<1>2. IInv /\ [Next]_vars =>
        [\A c \in lost : NoAccident' =>
           /\ ~\E t \in Threads : Uses(t, c)
           /\ c \notin lost' => MonitorClosed /\ target = c]_vars
  BY <1>1
<1>. QED BY <1>2, IInvHolds, PTL DEF Spec, LostUntilClosed

\* And until then GetClient returns nullptr only to a thread that has met every
\* slot in use during its call.
THEOREM RefusalsAreJustified == Spec => []RefusedOnlyWhenFull
<1>1. IInv => RefusedOnlyWhenFull
  <2>. SUFFICES ASSUME Structure, Protocol, NEW t \in Threads, pc[t] = "scan", ~InLoop(t),
                       t \notin sawFull
                PROVE  FALSE
    BY DEF IInv, RefusedOnlyWhenFull
  <2>1. PICK j \in Slots : j >= at[t]
    BY DEF Protocol, AheadInv
  <2>2. at[t] \in 1 .. MaxPoolSize + 1
    BY DEF Structure, TypeOK, MemoryOK
  <2>. QED BY <2>1, <2>2, SizeAssumption DEF InLoop, Slots
<1>. QED BY <1>1, IInvHolds, PTL

-----------------------------------------------------------------------------
(***************************************************************************)
(* The pool between its bounds, for any number of threads and slots.  The  *)
(* monitor and GetClient count connections without knowing what the other  *)
(* is about to do; as long as no query fails and the monitor does not race *)
(* with a user, the count does not fall below MinPoolSize once it has      *)
(* been reached, and until then there is an empty slot.                    *)
(***************************************************************************)
\* The slots that GetConnectionCount counts.
Live == {i \in Slots : Has(i) /\ State[mClients[i]] # "Closed"}

Calm == happened \cap {"raced", "query_failed"} = {}

\* Nothing is Broken, and no thread deals with a client that is.
UnbrokenInv ==
  /\ \A c \in Clients : State[c] # "Broken"
  /\ \A t \in Threads : pc[t] \notin {"failed", "destroy", "rebuild", "reconnect", "check"}

\* The monitor closes one of more than enough.  As long as there are not enough,
\* the only client without a connection is one that is being connected.
Connecting(i) ==
  "connect_threw" \in happened \/ \E t \in Threads : pc[t] = "connect" /\ at[t] = i
EnoughInv ==
  /\ mpc \in {"close", "closed"} => ConnectionCount > MinPoolSize
  /\ ConnectionCount < MinPoolSize =>
       \A i \in Slots : Has(i) /\ State[mClients[i]] = "Closed" => Connecting(i)

InBoundsInv == fault # "slot_past_the_end"

Bounds == UnbrokenInv /\ EnoughInv /\ InBoundsInv
BoundsInv == Structure /\ (Calm => Bounds)

-----------------------------------------------------------------------------
(* Counting.                                                                 *)

LEMMA LiveFinite ==
  /\ IsFiniteSet(Live) /\ Cardinality(Live) \in Nat
  /\ IsFiniteSet(Slots) /\ Cardinality(Slots) = MaxPoolSize
<1>1. IsFiniteSet(Slots) /\ Cardinality(Slots) = MaxPoolSize
  BY SizeAssumption, FS_Interval DEF Slots
<1>2. IsFiniteSet(Live)
  BY <1>1, FS_Subset DEF Live
<1>. QED BY <1>1, <1>2, FS_CardinalityType

LEMMA CountIsLive == ConnectionCount = Cardinality(Live)
BY DEF ConnectionCount, Live

LEMMA LiveFinitePrimed == IsFiniteSet(Live') /\ Cardinality(Live') \in Nat
<1>1. IsFiniteSet(Slots)
  BY LiveFinite
<1>2. Live' \in SUBSET Slots
  BY DEF Live, Slots
<1>3. IsFiniteSet(Live')
  BY <1>1, <1>2, FS_Subset
<1>. QED BY <1>3, FS_CardinalityType

\* The count does not fall if no slot stops being counted, and falls by one if
\* one slot does.
LEMMA CountGrows ==
  ASSUME Live \subseteq Live'
  PROVE  ConnectionCount' >= ConnectionCount
<1>1. Cardinality(Live) <= Cardinality(Live')
  BY LiveFinitePrimed, FS_Subset
<1>2. ConnectionCount' = Cardinality(Live') /\ ConnectionCount = Cardinality(Live)
  BY DEF ConnectionCount, Live
<1>. QED BY <1>1, <1>2, LiveFinite, LiveFinitePrimed

LEMMA CountFallsByOne ==
  ASSUME NEW j, Live \ {j} \subseteq Live'
  PROVE  ConnectionCount' >= ConnectionCount - 1
<1>1. Cardinality(Live \ {j}) <= Cardinality(Live')
  BY LiveFinitePrimed, FS_Subset
<1>2. Cardinality(Live \ {j}) \in {Cardinality(Live), Cardinality(Live) - 1}
  BY LiveFinite, FS_RemoveElement
<1>3. ConnectionCount' = Cardinality(Live') /\ ConnectionCount = Cardinality(Live)
  BY DEF ConnectionCount, Live
<1>. QED BY <1>1, <1>2, <1>3, LiveFinite, LiveFinitePrimed

-----------------------------------------------------------------------------
(* Each part, step by step.                                                  *)

LEMMA CalmBefore ==
  ASSUME [Next]_vars
  PROVE  /\ Calm' => Calm
         /\ Calm' => \A t \in Threads : pc'[t] = "failed" => pc[t] = "failed"
         /\ "connect_threw" \in happened => "connect_threw" \in happened'
<1>1. happened \subseteq happened'
  BY NextKeeps, HistoryGrows DEF vars, history
<1>2. CASE UNCHANGED vars
  BY <1>1, <1>2 DEF vars, Calm
<1>3. CASE Next
  <2>1. History
    BY <1>3, NextKeeps
  <2>2. (\E t \in Threads : pc'[t] = "failed") => "query_failed" \in happened'
    BY <2>1 DEF History, Occurs, Accidents
  <2>. QED BY <1>1, <2>2 DEF Calm
<1>. QED BY <1>2, <1>3

LEMMA UnbrokenStep ==
  ASSUME Structure, UnbrokenInv, Calm', [Next]_vars
  PROVE  UnbrokenInv'
<1>. USE DEF UnbrokenInv, Structure, TypeOK, MemoryOK, Goto, Keeping, callers, pool, monitor
<1>h. \A t \in Threads : pc'[t] # "failed"
  BY CalmBefore
<1>1. ASSUME NEW t \in Threads, Call(t) \/ Lock(t) \/ Scan(t) \/ ScanEnds(t)
      PROVE  UnbrokenInv'
  <2>1. State' = State
    BY <1>1 DEF Call, Lock, Scan, ScanEnds
  <2>2. \A s \in Threads : pc'[s] = pc[s] \/ pc'[s] \in {"lock", "create", "scan", "refused", "take", "connect"}
    <3>1. CASE Call(t)
      BY <3>1 DEF Call
    <3>2. CASE Lock(t)
      BY <3>2 DEF Lock
    <3>3. CASE Scan(t)
      <4>1. mClients[at[t]] # NoClient => mClients[at[t]] \in Clients
        BY <3>3 DEF Scan, InLoop
      <4>. QED BY <3>3, <4>1 DEF Scan, CaseOf
    <3>4. CASE ScanEnds(t)
      BY <3>4 DEF ScanEnds
    <3>. QED BY <1>1, <3>1, <3>2, <3>3, <3>4
  <2>. QED BY <2>1, <2>2
<1>2. ASSUME NEW t \in Threads, Destroy(t) \/ Check(t)
      PROVE  UnbrokenInv'
  BY <1>2 DEF Destroy, Check
<1>3. ASSUME NEW t \in Threads, Create(t)
      PROVE  UnbrokenInv'
  BY <1>3 DEF Create
<1>4. ASSUME NEW t \in Threads, Connect(t) \/ ConnectThrows(t)
      PROVE  UnbrokenInv'
  BY <1>4 DEF Connect, ConnectThrows
<1>5. ASSUME NEW t \in Threads, Take(t) \/ Return(t)
      PROVE  UnbrokenInv'
  BY <1>5 DEF Take, HandOut, Return
<1>6. ASSUME NEW t \in Threads, QueryStart(t) \/ QueryEnd(t) \/ QueryThrows(t) \/ Refused(t)
      PROVE  UnbrokenInv'
  BY <1>6, <1>h DEF QueryStart, QueryEnd, QueryThrows, Refused
<1>7. ASSUME NEW t \in Threads, GiveBack(t)
      PROVE  UnbrokenInv'
  BY <1>7 DEF GiveBack, StateAfter
<1>8. CASE MonitorStep
  BY <1>8 DEF MonitorStep, MonitorTest, MonitorPass, MonitorDecide, MonitorRenew, MonitorClose, MonitorClosed
<1>9. ASSUME NEW i \in Slots, Ages(i)
      PROVE  UnbrokenInv'
  BY <1>9 DEF Ages
<1>10. CASE UNCHANGED vars
  BY <1>10 DEF vars
<1>. QED BY <1>1, <1>2, <1>3, <1>4, <1>5, <1>6, <1>7, <1>8, <1>9, <1>10 DEF Next, CallerStep

\* Only the monitor takes a connection away.
LEMMA LiveStep ==
  ASSUME Structure, UnbrokenInv, [Next]_vars, ~MonitorClosed
  PROVE  Live \subseteq Live'
<1>. USE DEF Live, Has, UnbrokenInv, Structure, SlotInv, AtClient, TypeOK, MemoryOK, Slots, Using,
   Keeping, callers, pool, monitor
<1>1. ASSUME NEW t \in Threads, Call(t) \/ Lock(t) \/ Scan(t) \/ ScanEnds(t)
      PROVE  Live \subseteq Live'
  BY <1>1 DEF Call, Lock, Scan, ScanEnds
<1>2. ASSUME NEW t \in Threads, Destroy(t) \/ Check(t)
      PROVE  Live \subseteq Live'
  BY <1>2 DEF Destroy, Check
<1>3. ASSUME NEW t \in Threads, Create(t)
      PROVE  Live \subseteq Live'
  <2>1. pc[t] = "create" /\ at[t] \in Slots /\ mClients[at[t]] = NoClient
    BY <1>3 DEF Create
  <2>2. PICK c \in FreshClients :
          /\ mClients' = [mClients EXCEPT ![at[t]] = c]
          /\ State' = [d \in Clients |-> IF d \in {c, mClients[at[t]]} THEN "Closed" ELSE State[d]]
    BY <1>3 DEF Create
  <2>3. SUFFICES ASSUME NEW i \in Live PROVE i \in Live'
    OBVIOUS
  <2>4. i \in Slots /\ i # at[t] /\ mClients[i] # c /\ mClients[i] \in Clients
    BY <2>1, <2>2, <2>3 DEF FreshClients
  <2>5. mClients'[i] = mClients[i] /\ State'[mClients[i]] = State[mClients[i]]
    BY <2>1, <2>2, <2>3, <2>4
  <2>. QED BY <2>3, <2>4, <2>5
<1>4. ASSUME NEW t \in Threads, Connect(t)
      PROVE  Live \subseteq Live'
  <2>1. /\ mClients' = mClients /\ State' = [State EXCEPT ![mClients[at[t]]] = "Idle"]
    BY <1>4 DEF Connect
  <2>. QED BY <2>1
<1>5. ASSUME NEW t \in Threads, Take(t)
      PROVE  Live \subseteq Live'
  <2>1. /\ mClients' = mClients /\ State' = [State EXCEPT ![mClients[at[t]]] = "Busy"]
    BY <1>5 DEF Take
  <2>. QED BY <2>1
<1>6. ASSUME NEW t \in Threads, ConnectThrows(t) \/ Return(t)
      PROVE  Live \subseteq Live'
  BY <1>6 DEF ConnectThrows, Return
<1>7. ASSUME NEW t \in Threads, QueryStart(t) \/ QueryEnd(t) \/ QueryThrows(t) \/ Refused(t)
      PROVE  Live \subseteq Live'
  BY <1>7 DEF QueryStart, QueryEnd, QueryThrows, Refused
<1>8. ASSUME NEW t \in Threads, GiveBack(t)
      PROVE  Live \subseteq Live'
  BY <1>8 DEF GiveBack, StateAfter
<1>9. CASE MonitorStep
  BY <1>9 DEF MonitorStep, MonitorTest, MonitorPass, MonitorDecide, MonitorRenew, MonitorClose
<1>10. ASSUME NEW i \in Slots, Ages(i)
      PROVE  Live \subseteq Live'
  BY <1>10 DEF Ages
<1>11. CASE UNCHANGED vars
  BY <1>11 DEF vars
<1>. QED BY <1>1, <1>2, <1>3, <1>4, <1>5, <1>7, <1>8, <1>9, <1>10, <1>11, <1>6 DEF Next, CallerStep

\* One slot at most has the client that the monitor has closed.
LEMMA MonitorTakesOne ==
  ASSUME Structure, EnoughInv, MonitorClosed
  PROVE  ConnectionCount' >= MinPoolSize
<1>1. mpc = "closed" /\ State' = [State EXCEPT ![target] = "Closed"] /\ mClients' = mClients
  BY DEF MonitorClosed, Keeping, callers
<1>2. \E j : Live \ {j} \subseteq Live'
  <2>1. CASE \E j \in Slots : mClients[j] = target
    <3>1. PICK j \in Slots : mClients[j] = target
      BY <2>1
    <3>2. \A i \in Live : i # j => mClients[i] # target /\ mClients[i] \in Clients
      BY <3>1 DEF Live, Has, Structure, SlotInv, TypeOK, MemoryOK
    <3>3. \A i \in Live \ {j} : i \in Live'
      BY <1>1, <3>2 DEF Live, Has, Structure, TypeOK, MemoryOK
    <3>. QED BY <3>3
  <2>2. CASE ~\E j \in Slots : mClients[j] = target
    <3>1. \A i \in Live : i \in Live'
      BY <1>1, <2>2 DEF Live, Has, Structure, TypeOK, MemoryOK
    <3>. QED BY <3>1
  <2>. QED BY <2>1, <2>2
<1>3. ConnectionCount' >= ConnectionCount - 1
  BY <1>2, CountFallsByOne
<1>4. ConnectionCount \in Nat /\ ConnectionCount' \in Nat
  BY LiveFinite, LiveFinitePrimed DEF ConnectionCount, Live
<1>. QED BY <1>1, <1>3, <1>4, SizeAssumption DEF EnoughInv

LEMMA EnoughStep ==
  ASSUME Structure, UnbrokenInv, EnoughInv, [Next]_vars
  PROVE  EnoughInv'
<1>1. CASE MonitorClosed
  <2>1. mpc' = "test" /\ ConnectionCount' >= MinPoolSize
    BY <1>1, MonitorTakesOne DEF MonitorClosed
  <2>2. ConnectionCount' \in Nat
    BY LiveFinitePrimed DEF ConnectionCount, Live
  <2>. QED BY <2>1, <2>2, SizeAssumption DEF EnoughInv
<1>2. CASE ~MonitorClosed
  <2>1. ConnectionCount' >= ConnectionCount
    BY <1>2, LiveStep, CountGrows
  <2>2. ConnectionCount \in Nat /\ ConnectionCount' \in Nat
    BY LiveFinite, LiveFinitePrimed DEF ConnectionCount, Live
  <2>3. mpc' \in {"close", "closed"} => ConnectionCount > MinPoolSize
    <3>1. CASE MonitorDecide
      <4>1. mClients[mAt] \in Clients
        BY <3>1 DEF MonitorDecide, Structure, SlotInv, TypeOK, MemoryOK
      <4>. QED BY <3>1, <4>1 DEF MonitorDecide, Dispensable, UnbrokenInv
    <3>2. CASE ~MonitorDecide
      <4>1. mpc' \in {"close", "closed"} => mpc \in {"close", "closed"}
        BY <3>2 DEF Next, MonitorStep, CallerStep, Keeping, callers, pool, monitor, vars, Call, Lock, Scan, ScanEnds,
           Destroy, Create, Connect, ConnectThrows, Take, Check, Return, QueryStart, QueryEnd, QueryThrows, GiveBack, Refused,
           MonitorTest, MonitorPass, MonitorRenew, MonitorClose, MonitorClosed, Ages
      <4>. QED BY <4>1 DEF EnoughInv
    <3>. QED BY <3>1, <3>2
  <2>4. ASSUME ConnectionCount' < MinPoolSize,
               NEW i \in Slots, Has(i)', (State[mClients[i]])' = "Closed"
        PROVE  Connecting(i)'
    <3>1. ConnectionCount < MinPoolSize
      BY <2>1, <2>2, <2>4, SizeAssumption
    <3>2. Has(i) /\ State[mClients[i]] = "Closed" => Connecting(i)
      BY <3>1 DEF EnoughInv
    <3>. USE <3>2, CalmBefore DEF Has, Connecting, UnbrokenInv, Structure, SlotInv, AtClient, TypeOK, MemoryOK, Slots, Using,
       Goto, Keeping, callers, pool, monitor
    <3>3. ASSUME NEW t \in Threads, Call(t) \/ Lock(t) \/ Scan(t) \/ ScanEnds(t)
          PROVE  Connecting(i)'
      <4>1. Connecting(i)
        BY <2>4, <3>3 DEF Call, Lock, Scan, ScanEnds
      <4>2. pc[t] # "connect" /\ \A s \in Threads \ {t} : pc'[s] = pc[s] /\ at'[s] = at[s]
        BY <3>3 DEF Call, Lock, Scan, ScanEnds
      <4>. QED BY <4>1, <4>2
    <3>4. ASSUME NEW t \in Threads, Destroy(t) \/ Check(t)
          PROVE  Connecting(i)'
      BY <3>4 DEF Destroy, Check
    <3>5. ASSUME NEW t \in Threads, Create(t)
          PROVE  Connecting(i)'
      <4>1. pc[t] = "create" /\ at[t] \in Slots /\ mClients[at[t]] = NoClient
        BY <3>5 DEF Create
      <4>2. PICK c \in FreshClients :
              /\ mClients' = [mClients EXCEPT ![at[t]] = c]
              /\ State' = [d \in Clients |-> IF d \in {c, mClients[at[t]]} THEN "Closed" ELSE State[d]]
        BY <3>5 DEF Create
      <4>3. CASE i = at[t]
        BY <3>5, <4>1, <4>3 DEF Create
      <4>4. CASE i # at[t]
        <5>1. mClients'[i] = mClients[i] /\ mClients[i] # c /\ mClients[i] \in Clients
          BY <2>4, <4>1, <4>2, <4>4 DEF FreshClients
        <5>2. State[mClients[i]] = "Closed"
          BY <2>4, <4>1, <4>2, <5>1
        <5>3. Connecting(i)
          BY <2>4, <5>1, <5>2
        <5>4. pc[t] # "connect" /\ \A s \in Threads \ {t} : pc'[s] = pc[s] /\ at'[s] = at[s]
          BY <3>5, <4>1 DEF Create
        <5>. QED BY <5>3, <5>4
      <4>. QED BY <4>3, <4>4
    <3>6. ASSUME NEW t \in Threads, Connect(t)
          PROVE  Connecting(i)'
      <4>1. pc[t] = "connect" /\ mClients[at[t]] \in Clients /\ mClients' = mClients
            /\ State' = [State EXCEPT ![mClients[at[t]]] = "Idle"]
        BY <3>6 DEF Connect
      <4>2. mClients[i] # mClients[at[t]] /\ State[mClients[i]] = "Closed"
        BY <2>4, <4>1
      <4>3. Connecting(i)
        BY <2>4, <4>1, <4>2
      <4>4. at[t] # i /\ \A s \in Threads \ {t} : pc'[s] = pc[s] /\ at'[s] = at[s]
        BY <3>6, <4>2 DEF Connect
      <4>. QED BY <4>3, <4>4
    <3>7. ASSUME NEW t \in Threads, ConnectThrows(t)
          PROVE  Connecting(i)'
      <4>1. pc[t] \in Locked /\ pc'[t] = "idle" /\ History
        BY <3>7 DEF ConnectThrows, Locked
      <4>. QED BY <4>1, HistoryGrows
    <3>8. ASSUME NEW t \in Threads, Take(t) \/ Return(t) \/ QueryStart(t) \/ QueryEnd(t) \/ QueryThrows(t) \/ Refused(t)
          PROVE  Connecting(i)'
      <4>1. Connecting(i)
        <5>1. CASE Take(t)
          <6>1. mClients' = mClients /\ State' = [State EXCEPT ![mClients[at[t]]] = "Busy"]
            BY <5>1 DEF Take
          <6>. QED BY <2>4, <6>1
        <5>2. CASE ~Take(t)
          BY <2>4, <3>8, <5>2 DEF Return, QueryStart, QueryEnd, QueryThrows, Refused
        <5>. QED BY <5>1, <5>2
      <4>2. pc[t] # "connect" /\ \A s \in Threads \ {t} : pc'[s] = pc[s] /\ at'[s] = at[s]
        BY <3>8 DEF Take, HandOut, Return, QueryStart, QueryEnd, QueryThrows, Refused
      <4>. QED BY <4>1, <4>2
    <3>9. ASSUME NEW t \in Threads, GiveBack(t)
          PROVE  Connecting(i)'
      <4>1. Connecting(i)
        BY <2>4, <3>9 DEF GiveBack, StateAfter
      <4>2. pc[t] # "connect" /\ \A s \in Threads \ {t} : pc'[s] = pc[s] /\ at'[s] = at[s]
        BY <3>9 DEF GiveBack
      <4>. QED BY <4>1, <4>2
    <3>10. CASE MonitorStep \/ (\E j \in Slots : Ages(j)) \/ UNCHANGED vars
      <4>1. Connecting(i)
        BY <1>2, <2>4, <3>10 DEF MonitorStep, MonitorTest, MonitorPass, MonitorDecide, MonitorRenew, MonitorClose,
           MonitorClosed, Ages, vars
      <4>2. pc' = pc /\ at' = at
        BY <3>10 DEF MonitorStep, MonitorTest, MonitorPass, MonitorDecide, MonitorRenew, MonitorClose,
           MonitorClosed, Ages, vars
      <4>. QED BY <4>1, <4>2
    <3>. QED BY <3>3, <3>4, <3>5, <3>6, <3>7, <3>8, <3>9, <3>10 DEF Next, CallerStep
  <2>. QED BY <2>1, <2>2, <2>3, <2>4, SizeAssumption DEF EnoughInv
<1>. QED BY <1>1, <1>2

\* Whoever has the lock and finds every slot filled finds enough connections:
\* nobody else can be connecting one.
LEMMA SlotIsLeft ==
  ASSUME Structure, EnoughInv, mMutex = NoThread, \A i \in Slots : Has(i)
  PROVE  ~(MinPoolSize > ConnectionCount)
<1>1. \A i \in Slots : ~Connecting(i)
  BY ValueAssumption DEF Connecting, Structure, LockInv, WedgedInv, Locked
<1>2. SUFFICES ASSUME ConnectionCount < MinPoolSize PROVE FALSE
  BY LiveFinite, SizeAssumption DEF ConnectionCount, Live
<1>3. Live = Slots
  BY <1>1, <1>2 DEF EnoughInv, Live
<1>4. ConnectionCount = MaxPoolSize
  BY <1>3, LiveFinite DEF ConnectionCount, Live
<1>. QED BY <1>2, <1>4, SizeAssumption

LEMMA InBoundsStep ==
  ASSUME Structure, Bounds, [Next]_vars
  PROVE  InBoundsInv'
<1>. USE DEF InBoundsInv, Bounds, Keeping, callers, pool, monitor
<1>1. ASSUME NEW t \in Threads, Lock(t)
      PROVE  InBoundsInv'
  BY <1>1, SlotIsLeft DEF Lock, Acquire
<1>2. ASSUME NEW t \in Threads, Call(t) \/ Scan(t) \/ ScanEnds(t) \/ Create(t) \/ Connect(t) \/ ConnectThrows(t)
      PROVE  InBoundsInv'
  BY <1>2 DEF Call, Scan, ScanEnds, Create, Connect, ConnectThrows
<1>3. ASSUME NEW t \in Threads, Take(t) \/ Check(t) \/ Return(t) \/ QueryEnd(t) \/ QueryThrows(t) \/ GiveBack(t) \/ Refused(t)
      PROVE  InBoundsInv'
  BY <1>3 DEF Take, Check, Return, QueryEnd, QueryThrows, GiveBack, Refused
<1>4. ASSUME NEW t \in Threads, Destroy(t) \/ QueryStart(t)
      PROVE  InBoundsInv'
  BY <1>4 DEF Destroy, QueryStart, MysqlClose
<1>5. CASE MonitorStep \/ (\E j \in Slots : Ages(j)) \/ UNCHANGED vars
  BY <1>5 DEF MonitorStep, MonitorTest, MonitorPass, MonitorDecide, MonitorRenew, MonitorClose, MysqlClose,
     MonitorClosed, Ages, vars
<1>. QED BY <1>1, <1>2, <1>3, <1>4, <1>5 DEF Next, CallerStep

-----------------------------------------------------------------------------
(* The parts together, and the theorems they give.                           *)

LEMMA BoundsInit ==
  ASSUME Init
  PROVE  BoundsInv
<1>1. Structure
  BY StructureInit
<1>2. UnbrokenInv /\ InBoundsInv
  BY DEF Init, UnbrokenInv, InBoundsInv
<1>3. EnoughInv
  BY DEF Init, EnoughInv, Has
<1>. QED BY <1>1, <1>2, <1>3 DEF BoundsInv, Bounds

LEMMA BoundsHold == Spec => []BoundsInv
<1>1. BoundsInv /\ [Next]_vars => BoundsInv'
  <2>. SUFFICES ASSUME BoundsInv, [Next]_vars
                PROVE  BoundsInv'
    OBVIOUS
  <2>1. Structure /\ Structure'
    BY StructureStep DEF BoundsInv
  <2>2. ASSUME Calm'
        PROVE  Bounds'
    <3>1. Bounds
      BY <2>2, CalmBefore DEF BoundsInv
    <3>2. UnbrokenInv'
      BY <2>1, <2>2, <3>1, UnbrokenStep DEF Bounds
    <3>. QED BY <2>1, <3>1, <3>2, EnoughStep, InBoundsStep DEF Bounds
  <2>. QED BY <2>1, <2>2 DEF BoundsInv
<1>. QED BY <1>1, BoundsInit, PTL DEF Spec

\* GetClient never writes past the end of mClients, unless a query has failed or
\* the monitor has closed a client in use: while the pool has less than
\* MinPoolSize connections, one of its slots is empty.
THEOREM SlotsStayInBounds == Spec => []SlotInBounds
<1>1. BoundsInv => SlotInBounds
  BY DEF BoundsInv, Bounds, InBoundsInv, Calm, SlotInBounds
<1>. QED BY <1>1, BoundsHold, PTL

\* Until then the monitor never takes the pool below MinPoolSize connections,
\* however many it finds there and whatever callers do in between.
THEOREM MinimumIsKept == Spec => MonitorKeepsMinimum
<1>1. BoundsInv /\ [Next]_vars =>
        [MonitorClosed /\ happened \cap {"raced", "query_failed"} = {}
           => ConnectionCount' >= MinPoolSize]_vars
  BY MonitorTakesOne DEF BoundsInv, Bounds, Calm
<1>. QED BY <1>1, BoundsHold, PTL DEF Spec, MonitorKeepsMinimum

-----------------------------------------------------------------------------
(***************************************************************************)
(* A pool of fixed size whose queries end, or throw past the catch block   *)
(* of their call, implements the allocator                                 *)
(* of module ClientAllocator, for any number of threads and slots.  Its    *)
(* monitor runs, and finds nothing to close: there are never more than     *)
(* MinPoolSize connections, and no client is Broken.  So none of the       *)
(* accidents happens that the protocol of the pool does not survive, and   *)
(* each step of GetClient and runCommand is one of the allocator or none.  *)
(***************************************************************************)
FixedSize == MinPoolSize = MaxPoolSize /\ "query_fails" \notin Outside

\* What the history must not say of the pool, and what it does say of a thread.
FullInv ==
  /\ sawFull \subseteq {t \in Threads : Asks(t)}
  /\ Full => \A t \in Threads : Asks(t) => t \in sawFull
FixedInv ==
  /\ Structure /\ Protocol /\ UnbrokenInv /\ FullInv
  /\ happened \subseteq {"connect_threw"}
  /\ mpc \in {"test", "decide"}

-----------------------------------------------------------------------------
(* No accidents.                                                             *)

LEMMA NothingToClose ==
  ASSUME FixedSize, Structure, UnbrokenInv
  PROVE  ~MonitorDecide
<1>1. Cardinality(Live) <= MaxPoolSize
  BY LiveFinite, FS_Subset DEF Live
<1>2. ~(ConnectionCount > MinPoolSize)
  BY <1>1, LiveFinite, SizeAssumption DEF FixedSize, ConnectionCount, Live
<1>3. mpc = "decide" => State[mClients[mAt]] # "Broken"
  BY DEF UnbrokenInv, Structure, SlotInv, TypeOK, MemoryOK
<1>. QED BY <1>2, <1>3 DEF MonitorDecide, Dispensable

LEMMA FixedStep ==
  ASSUME FixedSize, FixedInv, [Next]_vars
  PROVE  FixedInv'
<1>1. Structure'
  BY StructureStep DEF FixedInv
<1>2. CASE UNCHANGED vars
  <2>1. happened' \subseteq {"connect_threw"} /\ mpc' \in {"test", "decide"}
    BY <1>2 DEF FixedInv, vars, monitor, history
  <2>2. Protocol' /\ UnbrokenInv'
    BY <2>1, ProtocolStep, UnbrokenStep DEF FixedInv, NoAccident, Calm
  <2>3. FullInv'
    BY <1>2 DEF FixedInv, FullInv, Full, LostSlots, Asks, HasSlot, vars, pool, history
  <2>. QED BY <1>1, <2>1, <2>2, <2>3 DEF FixedInv
<1>3. CASE Next
  <2>1. mpc' \in {"test", "decide"}
    <3>1. ~MonitorDecide
      BY NothingToClose DEF FixedInv
    <3>. QED BY <1>3, <3>1, ZenonT(60) DEF FixedInv, Next, MonitorStep, CallerStep, Keeping, callers, pool, monitor, Call, Lock,
         Scan, ScanEnds, Destroy, Create, Connect, ConnectThrows, Take, Check, Return, QueryStart, QueryEnd, QueryThrows, GiveBack,
         Refused, MonitorTest, MonitorPass, MonitorRenew, MonitorClose, MonitorClosed, Ages
  <2>2. \A t \in Threads : pc'[t] # "failed"
    <3>1. ASSUME NEW t \in Threads, QueryEnd(t)
          PROVE  \A s \in Threads : pc'[s] # "failed"
      BY <3>1 DEF QueryEnd, Goto, FixedSize, FixedInv, UnbrokenInv, Structure, TypeOK, MemoryOK
    <3>. USE DEF FixedInv, UnbrokenInv, Structure, TypeOK, MemoryOK, Keeping, callers, pool, monitor, Goto
    <3>2. ASSUME NEW t \in Threads, Call(t) \/ Lock(t) \/ ScanEnds(t) \/ Destroy(t) \/ Create(t) \/ Connect(t)
          PROVE  \A s \in Threads : pc'[s] # "failed"
      BY <3>2 DEF Call, Lock, ScanEnds, Destroy, Create, Connect
    <3>3. ASSUME NEW t \in Threads, Scan(t)
          PROVE  \A s \in Threads : pc'[s] # "failed"
      BY <3>3 DEF Scan, CaseOf
    <3>4. ASSUME NEW t \in Threads, ConnectThrows(t) \/ Take(t) \/ Check(t) \/ Return(t)
          PROVE  \A s \in Threads : pc'[s] # "failed"
      BY <3>4 DEF ConnectThrows, Take, Check, Return, HandOut
    <3>5. ASSUME NEW t \in Threads, QueryStart(t) \/ QueryThrows(t) \/ GiveBack(t) \/ Refused(t)
          PROVE  \A s \in Threads : pc'[s] # "failed"
      BY <3>5 DEF QueryStart, QueryThrows, GiveBack, Refused
    <3>6. CASE MonitorStep \/ \E i \in Slots : Ages(i)
      BY <3>6 DEF MonitorStep, MonitorTest, MonitorPass, MonitorDecide, MonitorRenew, MonitorClose, MonitorClosed, Ages
    <3>. QED BY <1>3, <3>1, <3>2, <3>3, <3>4, <3>5, <3>6 DEF Next, CallerStep
  <2>3. History
    BY <1>3, NextKeeps
  <2>4. happened' \subseteq {"connect_threw"}
    <3>1. ~Overlap' /\ ~Reclosing'
      BY <2>1 DEF Overlap, Reclosing, Closing
    <3>2. ~\E t \in Threads : pc[t] = "check"
      BY DEF FixedInv, UnbrokenInv
    <3>. QED BY <2>2, <2>3, <3>1, <3>2 DEF FixedInv, History, Occurs, Accidents
  <2>5. Protocol' /\ UnbrokenInv'
    BY <2>4, ProtocolStep, UnbrokenStep DEF FixedInv, NoAccident, Calm
  <2>6. FullInv'
    BY <2>3 DEF History, FullInv
  <2>. QED BY <1>1, <2>1, <2>4, <2>5, <2>6 DEF FixedInv
<1>. QED BY <1>2, <1>3

LEMMA FixedInit ==
  ASSUME Init
  PROVE  FixedInv
<1>1. Structure /\ Protocol
  BY StructureInit, ProtocolInit
<1>2. UnbrokenInv /\ happened \subseteq {"connect_threw"} /\ mpc \in {"test", "decide"}
  BY DEF Init, UnbrokenInv
<1>3. FullInv
  BY DEF Init, FullInv, Asks, Locked
<1>. QED BY <1>1, <1>2, <1>3 DEF FixedInv

-----------------------------------------------------------------------------
(* The mapping.                                                              *)

Holder(i) == IF \E t \in Threads : HasSlot(t, i) THEN CHOOSE t \in Threads : HasSlot(t, i) ELSE NoThread

\* A slot has one holder at most.
LEMMA HolderIs ==
  ASSUME HoldInv, NEW i \in Slots
  PROVE  /\ \A t \in Threads : Holder(i) = t <=> HasSlot(t, i)
         /\ Holder(i) = NoThread <=> \A t \in Threads : ~HasSlot(t, i)
<1>1. \A s, t \in Threads : HasSlot(s, i) /\ HasSlot(t, i) => s = t
  BY DEF HoldInv, HasSlot, Holding
<1>2. CASE \E t \in Threads : HasSlot(t, i)
  <2>1. Holder(i) \in Threads /\ HasSlot(Holder(i), i)
    BY <1>2 DEF Holder
  <2>. QED BY <1>1, <1>2, <2>1, ValueAssumption
<1>3. CASE ~\E t \in Threads : HasSlot(t, i)
  BY <1>3, ValueAssumption DEF Holder
<1>. QED BY <1>2, <1>3

LEMMA HolderIsPrimed ==
  ASSUME HoldInv', NEW i \in Slots
  PROVE  /\ \A t \in Threads : Holder(i)' = t <=> HasSlot(t, i)'
         /\ Holder(i)' = NoThread <=> \A t \in Threads : ~HasSlot(t, i)'
<1>1. \A s, t \in Threads : HasSlot(s, i)' /\ HasSlot(t, i)' => s = t
  BY DEF HoldInv, HasSlot, Holding
<1>2. CASE \E t \in Threads : HasSlot(t, i)'
  <2>1. \E t \in Threads : HasSlot(t, i)' /\ Holder(i)' = t
    BY <1>2 DEF Holder
  <2>. QED BY <1>1, <2>1, ValueAssumption
<1>3. CASE ~\E t \in Threads : HasSlot(t, i)'
  BY <1>3, ValueAssumption DEF Holder
<1>. QED BY <1>2, <1>3

\* A slot that is held by the threads that held it has the same holder.
LEMMA HolderKept ==
  ASSUME HoldInv, HoldInv', NEW i \in Slots,
         \A t \in Threads : HasSlot(t, i)' <=> HasSlot(t, i)
  PROVE  Holder(i)' = Holder(i)
<1>1. CASE \E t \in Threads : HasSlot(t, i)
  BY <1>1, HolderIs, HolderIsPrimed
<1>2. CASE ~\E t \in Threads : HasSlot(t, i)
  BY <1>2, HolderIs, HolderIsPrimed
<1>. QED BY <1>1, <1>2

\* The state of the allocator, and what the steps of the pool show it.
LEMMA Mapping ==
  /\ \A i \in Slots : Allocator!Free(i) <=> Holder(i) = NoThread /\ i \notin LostSlots
  /\ Allocator!vars = <<[i \in Slots |-> Holder(i)], LostSlots, {t \in Threads : Asks(t)},
                        {t \in Threads : pc[t] = "refused"}, sawFull, "connect_threw" \in happened>>
BY DEF Allocator!Free, Allocator!vars, Holder

\* A step that changes nothing of what the allocator sees.
LEMMA Stutters ==
  ASSUME HoldInv, HoldInv', FullInv, History, LostSlots' = LostSlots,
         \A t \in Threads, i \in Slots : HasSlot(t, i)' <=> HasSlot(t, i),
         \A t \in Threads : Asks(t)' <=> Asks(t),
         \A t \in Threads : pc'[t] = "refused" <=> pc[t] = "refused",
         "connect_threw" \in happened' <=> "connect_threw" \in happened
  PROVE  UNCHANGED Allocator!vars
<1>1. \A i \in Slots : Holder(i)' = Holder(i)
  BY HolderKept
<1>2. Full' <=> Full
  BY DEF Full
<1>3. sawFull' = sawFull
  BY <1>2 DEF History, FullInv
<1>. QED BY <1>1, <1>3 DEF Allocator!vars, Holder

\* Only a query that throws loses a slot.
LEMMA SlotsKept ==
  ASSUME FixedInv, FixedInv', [Next]_vars, \A t \in Threads : ~QueryThrows(t)
  PROVE  LostSlots' = LostSlots
<1>1. CleanStep /\ ~MonitorClosed
  BY DEF FixedInv, CleanStep, Overlap, Reclosing, Closing, UnbrokenInv, MonitorClosed
<1>2. lost' = lost
  BY <1>1, LostStays, LostGrows DEF FixedInv
<1>3. ASSUME NEW i \in Slots
      PROVE  mClients[i] \in lost <=> mClients'[i] \in lost
  <2>1. mClients[i] \in lost => mClients'[i] = mClients[i]
    BY <1>1, LostStays DEF FixedInv
  <2>2. ASSUME mClients'[i] \in lost
        PROVE  mClients[i] \in lost
    <3>1. PICK k \in Slots : mClients[k] = mClients'[i]
      BY <2>2 DEF FixedInv, Protocol, LostInv
    <3>2. mClients'[k] = mClients'[i]
      BY <1>1, <2>2, <3>1, LostStays DEF FixedInv
    <3>3. k = i
      BY <2>2, <3>2, ValueAssumption DEF FixedInv, Structure, SlotInv, TypeOK, MemoryOK
    <3>. QED BY <2>2, <3>1, <3>3
  <2>. QED BY <2>1, <2>2
<1>. QED BY <1>2, <1>3 DEF LostSlots

\* What the allocator says of metFull is what the history records.
LEMMA MetFull ==
  ASSUME HoldInv', History
  PROVE  sawFull' = {t \in {s \in Threads : Asks(s)'} :
                       t \in sawFull \/ \A i \in Slots : ~Allocator!Free(i)'}
<1>1. Full' <=> \A i \in Slots : i \in LostSlots' \/ Holder(i)' # NoThread
  BY HolderIsPrimed DEF Full
<1>2. \A i \in Slots : Allocator!Free(i)' <=> Holder(i)' = NoThread /\ i \notin LostSlots'
  BY DEF Allocator!Free, Holder
<1>. QED BY <1>1, <1>2 DEF History

-----------------------------------------------------------------------------
(* Step by step.                                                             *)

\* Most of GetClient, and a query, pass the allocator by.
LEMMA CallerStutters ==
  ASSUME FixedInv, FixedInv', LostSlots' = LostSlots, NEW t \in Threads,
         \/ Lock(t) \/ Scan(t) \/ Create(t) \/ Connect(t) \/ Return(t) \/ QueryStart(t) \/ QueryEnd(t)
  PROVE  UNCHANGED Allocator!vars
<1>. USE DEF FixedInv, Structure, TypeOK, MemoryOK, Keeping, pool, monitor, Goto
<1>1. History
  BY DEF Lock, Scan, Create, Connect, Return, QueryStart, QueryEnd
<1>2. \A s \in Threads \ {t} : pc'[s] = pc[s] /\ at'[s] = at[s]
  BY DEF Lock, Scan, Create, Connect, Return, QueryStart, QueryEnd
<1>3. /\ Asks(t)' <=> Asks(t)
      /\ \A i \in Slots : HasSlot(t, i)' <=> HasSlot(t, i)
      /\ pc'[t] = "refused" <=> pc[t] = "refused"
      /\ ~(pc[t] \in Locked /\ pc'[t] = "idle")
  <2>. USE DEF Asks, HasSlot, Locked, Using
  <2>1. CASE Lock(t)
    BY <2>1 DEF Lock
  <2>2. CASE Scan(t)
    BY <2>2 DEF Scan, CaseOf
  <2>3. CASE Create(t) \/ Connect(t)
    BY <2>3 DEF Create, Connect, UnbrokenInv
  <2>4. CASE Return(t) \/ QueryStart(t) \/ QueryEnd(t)
    BY <2>4 DEF Return, QueryStart, QueryEnd
  <2>. QED BY <2>1, <2>2, <2>3, <2>4
<1>4. "connect_threw" \in happened' <=> "connect_threw" \in happened
  <2>1. ~\E s \in Threads : pc[s] \in Locked /\ pc'[s] = "idle"
    BY <1>2, <1>3 DEF Locked
  <2>. QED BY <1>1, <2>1 DEF History, Occurs
<1>. QED BY <1>1, <1>2, <1>3, <1>4, Stutters DEF Protocol, Asks, HasSlot

\* So do the monitor and the clock.
LEMMA OthersStutter ==
  ASSUME FixedInv, FixedInv', LostSlots' = LostSlots, MonitorStep \/ (\E i \in Slots : Ages(i)) \/ UNCHANGED vars
  PROVE  UNCHANGED Allocator!vars
<1>1. pc' = pc /\ at' = at
  BY DEF MonitorStep, MonitorTest, MonitorPass, MonitorDecide, MonitorRenew, MonitorClose, MonitorClosed, Ages,
     Keeping, callers, vars
<1>2. \A t \in Threads : /\ Asks(t)' <=> Asks(t)
                         /\ \A i \in Slots : HasSlot(t, i)' <=> HasSlot(t, i)
  BY <1>1 DEF Asks, HasSlot
<1>3. CASE UNCHANGED vars
  <2>1. \A i \in Slots : Holder(i)' = Holder(i)
    BY <1>2, HolderKept DEF FixedInv, Protocol
  <2>. QED BY <1>1, <1>2, <1>3, <2>1 DEF Allocator!vars, Holder, vars, history
<1>4. CASE History
  <2>1. "connect_threw" \in happened' <=> "connect_threw" \in happened
    BY <1>1, <1>4 DEF History, Occurs, Locked
  <2>. QED BY <1>1, <1>2, <1>4, <2>1, Stutters DEF FixedInv, Protocol
<1>5. History \/ UNCHANGED vars
  BY DEF MonitorStep, MonitorTest, MonitorPass, MonitorDecide, MonitorRenew, MonitorClose, MonitorClosed, Ages, Keeping
<1>. QED BY <1>3, <1>4, <1>5

\* The steps that the allocator sees, one by one.
LEMMA CallAsks ==
  ASSUME FixedInv, FixedInv', LostSlots' = LostSlots, NEW t \in Threads, Call(t)
  PROVE  Allocator!Ask(t)
<1>. USE DEF FixedInv, Structure, TypeOK, MemoryOK, Keeping, Goto
<1>1. /\ pc[t] = "idle" /\ pc' = [pc EXCEPT ![t] = "lock"] /\ at' = at /\ History
  BY DEF Call
<1>2. \A i \in Slots : Holder(i)' = Holder(i) /\ Holder(i) # t
  <2>1. \A s \in Threads, i \in Slots : HasSlot(s, i)' <=> HasSlot(s, i)
    BY <1>1 DEF HasSlot, Using
  <2>2. \A i \in Slots : ~HasSlot(t, i)
    BY <1>1 DEF HasSlot, Using
  <2>. QED BY <2>1, <2>2, HolderKept, HolderIs DEF Protocol
<1>3. {s \in Threads : Asks(s)'} = {s \in Threads : Asks(s)} \cup {t} /\ ~Asks(t)
  BY <1>1 DEF Asks, Locked
<1>4. {s \in Threads : pc'[s] = "refused"} = {s \in Threads : pc[s] = "refused"}
  BY <1>1
<1>5. "connect_threw" \in happened' <=> "connect_threw" \in happened
  BY <1>1 DEF History, Occurs, Locked
<1>6. t \notin Allocator!Served
  BY <1>1, <1>2, <1>3 DEF Allocator!Served, Holder
<1>. QED BY <1>2, <1>3, <1>4, <1>5, <1>6 DEF Allocator!Ask, Holder

LEMMA ScanEndsRefuses ==
  ASSUME FixedInv, FixedInv', LostSlots' = LostSlots, NEW t \in Threads, ScanEnds(t)
  PROVE  Allocator!Refuse(t)
<1>. USE DEF FixedInv, Structure, TypeOK, MemoryOK, Keeping, Goto
<1>1. /\ pc[t] = "scan" /\ pc' = [pc EXCEPT ![t] = "refused"] /\ at' = at /\ History
  BY DEF ScanEnds
<1>2. \A i \in Slots : Holder(i)' = Holder(i)
  <2>1. \A s \in Threads, i \in Slots : HasSlot(s, i)' <=> HasSlot(s, i)
    BY <1>1 DEF HasSlot, Using
  <2>. QED BY <2>1, HolderKept DEF Protocol
<1>3. {s \in Threads : Asks(s)'} = {s \in Threads : Asks(s)} \ {t} /\ Asks(t)
  BY <1>1 DEF Asks, Locked
<1>4. {s \in Threads : pc'[s] = "refused"} = {s \in Threads : pc[s] = "refused"} \cup {t}
  BY <1>1
<1>5. "connect_threw" \notin happened /\ "connect_threw" \notin happened'
  <2>1. "connect_threw" \notin happened
    BY <1>1 DEF WedgedInv, Locked
  <2>. QED BY <1>1, <2>1 DEF History, Occurs, Locked
<1>6. t \in sawFull
  <2>1. ASSUME t \notin sawFull PROVE \E j \in Slots : j >= at[t]
    BY <1>1, <2>1 DEF Protocol, AheadInv
  <2>2. at[t] \in 1 .. MaxPoolSize + 1 /\ ~InLoop(t)
    BY DEF ScanEnds
  <2>. QED BY <2>1, <2>2, SizeAssumption DEF InLoop, Slots
<1>. QED BY <1>2, <1>3, <1>4, <1>5, <1>6 DEF Allocator!Refuse, Holder

LEMMA ConnectThrowsFails ==
  ASSUME FixedInv, FixedInv', LostSlots' = LostSlots, NEW t \in Threads, ConnectThrows(t)
  PROVE  Allocator!Fail(t)
<1>. USE DEF FixedInv, Structure, TypeOK, MemoryOK, Keeping, Goto
<1>1. /\ pc[t] = "connect" /\ pc' = [pc EXCEPT ![t] = "idle"] /\ at' = at /\ History
  BY DEF ConnectThrows, UnbrokenInv
<1>2. \A i \in Slots : Holder(i)' = Holder(i)
  <2>1. \A s \in Threads, i \in Slots : HasSlot(s, i)' <=> HasSlot(s, i)
    BY <1>1 DEF HasSlot, Using
  <2>. QED BY <2>1, HolderKept DEF Protocol
<1>3. {s \in Threads : Asks(s)'} = {s \in Threads : Asks(s)} \ {t} /\ Asks(t)
  BY <1>1 DEF Asks, Locked
<1>4. {s \in Threads : pc'[s] = "refused"} = {s \in Threads : pc[s] = "refused"}
  BY <1>1
<1>5. "connect_threw" \notin happened /\ "connect_threw" \in happened'
  BY <1>1, HistoryGrows DEF WedgedInv, Locked
<1>. QED BY <1>2, <1>3, <1>4, <1>5 DEF Allocator!Fail, Holder

LEMMA TakeGrants ==
  ASSUME FixedInv, FixedInv', LostSlots' = LostSlots, NEW t \in Threads, Take(t)
  PROVE  at[t] \in Slots /\ Allocator!Grant(t, at[t])
<1>. USE DEF FixedInv, Structure, TypeOK, MemoryOK, Keeping, Goto
<1>1. /\ pc[t] = "take" /\ pc' = [pc EXCEPT ![t] = "return"] /\ at' = at /\ History
      /\ at[t] \in Slots
  BY DEF Take, HandOut, SlotInv, AtClient
<1>2. Holder(at[t]) = NoThread
  <2>1. \A s \in Threads : ~HasSlot(s, at[t])
    BY <1>1 DEF Protocol, StepInv, HoldInv, HasSlot, Holding
  <2>. QED BY <1>1, <2>1, HolderIs DEF Protocol
<1>3. \A i \in Slots : Holder(i)' = IF i = at[t] THEN t ELSE Holder(i)
  <2>1. HasSlot(t, at[t])'
    BY <1>1 DEF HasSlot
  <2>2. \A s \in Threads, i \in Slots \ {at[t]} : HasSlot(s, i)' <=> HasSlot(s, i)
    BY <1>1 DEF HasSlot, Using
  <2>3. Holder(at[t])' = t
    <3>1. ASSUME NEW i \in Slots, HasSlot(t, i)' PROVE Holder(i)' = t
      BY <3>1, HolderIsPrimed DEF Protocol
    <3>2. \A i \in Slots : i = at[t] => HasSlot(t, i)' /\ Holder(i)' = t
      BY <1>1, <3>1 DEF HasSlot
    <3>. QED BY <1>1, <3>2 DEF Holder
  <2>4. \A i \in Slots \ {at[t]} : Holder(i)' = Holder(i)
    BY <2>2, HolderKept DEF Protocol
  <2>. QED BY <1>1, <2>3, <2>4
<1>4. {s \in Threads : Asks(s)'} = {s \in Threads : Asks(s)} \ {t} /\ Asks(t)
  BY <1>1 DEF Asks, Locked
<1>5. {s \in Threads : pc'[s] = "refused"} = {s \in Threads : pc[s] = "refused"}
  BY <1>1
<1>6. "connect_threw" \notin happened /\ "connect_threw" \notin happened'
  <2>1. "connect_threw" \notin happened
    BY <1>1 DEF WedgedInv, Locked
  <2>. QED BY <1>1, <2>1 DEF History, Occurs, Locked
<1>7. Allocator!Free(at[t])
  <2>1. at[t] \notin LostSlots
    BY <1>1 DEF LostSlots, Protocol, StepInv
  <2>. QED BY <1>1, <1>2, <2>1, Mapping
<1>8. [i \in Slots |-> Holder(i)'] = [[i \in Slots |-> Holder(i)] EXCEPT ![at[t]] = t]
  BY <1>1, <1>3
<1>. QED BY <1>1, <1>4, <1>5, <1>6, <1>7, <1>8 DEF Allocator!Grant, Holder

LEMMA GiveBackReturns ==
  ASSUME FixedInv, FixedInv', LostSlots' = LostSlots, NEW t \in Threads, GiveBack(t)
  PROVE  at[t] \in Slots /\ Allocator!GiveBack(at[t])
<1>. USE DEF FixedInv, Structure, TypeOK, MemoryOK, Keeping, Goto
<1>1. /\ pc[t] = "done" /\ pc' = [pc EXCEPT ![t] = "idle"] /\ at' = at /\ History
      /\ at[t] \in Slots
  BY DEF GiveBack, UnbrokenInv, Protocol, HoldInv, Using
<1>2. Holder(at[t]) = t
  BY <1>1, HolderIs DEF Protocol, HasSlot, Using
<1>3. \A i \in Slots : Holder(i)' = IF i = at[t] THEN NoThread ELSE Holder(i)
  <2>1. \A s \in Threads, i \in Slots : i = at[t] => ~HasSlot(s, i)'
    <3>1. \A s \in Threads \ {t} : ~HasSlot(s, at[t])
      BY <1>1, <1>2, HolderIs DEF Protocol
    <3>. QED BY <1>1, <3>1 DEF HasSlot, Using
  <2>2. \A s \in Threads, i \in Slots \ {at[t]} : HasSlot(s, i)' <=> HasSlot(s, i)
    BY <1>1 DEF HasSlot, Using
  <2>3. \A i \in Slots : i = at[t] => Holder(i)' = NoThread
    BY <2>1, HolderIsPrimed DEF Protocol
  <2>4. \A i \in Slots \ {at[t]} : Holder(i)' = Holder(i)
    BY <2>2, HolderKept DEF Protocol
  <2>. QED BY <2>3, <2>4
<1>4. {s \in Threads : Asks(s)'} = {s \in Threads : Asks(s)}
  BY <1>1 DEF Asks, Locked
<1>5. {s \in Threads : pc'[s] = "refused"} = {s \in Threads : pc[s] = "refused"}
  BY <1>1
<1>6. "connect_threw" \in happened' <=> "connect_threw" \in happened
  BY <1>1 DEF History, Occurs, Locked
<1>7. Holder(at[t]) # NoThread
  BY <1>2, ValueAssumption
<1>8. [i \in Slots |-> Holder(i)'] = [[i \in Slots |-> Holder(i)] EXCEPT ![at[t]] = NoThread]
  BY <1>1, <1>3
<1>. QED BY <1>1, <1>4, <1>5, <1>6, <1>7, <1>8 DEF Allocator!GiveBack, Holder

LEMMA ThrowDrops ==
  ASSUME FixedInv, FixedInv', NEW t \in Threads, QueryThrows(t)
  PROVE  at[t] \in Slots /\ Allocator!Drop(at[t])
<1>. USE DEF FixedInv, Structure, TypeOK, MemoryOK, Keeping, Goto, pool
<1>1. /\ pc[t] = "running" /\ pc' = [pc EXCEPT ![t] = "idle"] /\ at' = at /\ History
      /\ at[t] \in Slots /\ mClients[at[t]] = pClient[t] /\ State[pClient[t]] = "Busy" /\ pClient[t] \in Clients
      /\ mClients' = mClients /\ State' = State
  BY DEF QueryThrows, Protocol, HoldInv, Holding, Using, SlotInv
<1>2. Holder(at[t]) = t
  BY <1>1, HolderIs DEF Protocol, HasSlot, Using
<1>3. \A i \in Slots : Holder(i)' = IF i = at[t] THEN NoThread ELSE Holder(i)
  <2>1. \A s \in Threads, i \in Slots : i = at[t] => ~HasSlot(s, i)'
    <3>1. \A s \in Threads \ {t} : ~HasSlot(s, at[t])
      BY <1>1, <1>2, HolderIs DEF Protocol
    <3>. QED BY <1>1, <3>1 DEF HasSlot, Using
  <2>2. \A s \in Threads, i \in Slots \ {at[t]} : HasSlot(s, i)' <=> HasSlot(s, i)
    BY <1>1 DEF HasSlot, Using
  <2>3. \A i \in Slots : i = at[t] => Holder(i)' = NoThread
    BY <2>1, HolderIsPrimed DEF Protocol
  <2>4. \A i \in Slots \ {at[t]} : Holder(i)' = Holder(i)
    BY <2>2, HolderKept DEF Protocol
  <2>. QED BY <2>3, <2>4
<1>4. {s \in Threads : Asks(s)'} = {s \in Threads : Asks(s)}
  BY <1>1 DEF Asks, Locked
<1>5. {s \in Threads : pc'[s] = "refused"} = {s \in Threads : pc[s] = "refused"}
  BY <1>1
<1>6. "connect_threw" \in happened' <=> "connect_threw" \in happened
  BY <1>1 DEF History, Occurs, Locked
<1>7. LostSlots' = LostSlots \cup {at[t]}
  <2>1. \A s \in Threads, c \in Clients : Drops(s, c) <=> s = t /\ c = pClient[t]
    BY <1>1 DEF Drops
  <2>2. lost' = lost \cup {pClient[t]}
    BY <1>1, <2>1 DEF History
  <2>3. \A i \in Slots : mClients[i] = pClient[t] => i = at[t]
    BY <1>1, ValueAssumption DEF SlotInv
  <2>. QED BY <1>1, <2>2, <2>3 DEF LostSlots
<1>8. Holder(at[t]) # NoThread
  BY <1>2, ValueAssumption
<1>9. [i \in Slots |-> Holder(i)'] = [[i \in Slots |-> Holder(i)] EXCEPT ![at[t]] = NoThread]
  BY <1>1, <1>3
<1>. QED BY <1>1, <1>4, <1>5, <1>6, <1>7, <1>8, <1>9 DEF Allocator!Drop, Holder

LEMMA RefusedLeaves ==
  ASSUME FixedInv, FixedInv', LostSlots' = LostSlots, NEW t \in Threads, Refused(t)
  PROVE  Allocator!Leave(t)
<1>. USE DEF FixedInv, Structure, TypeOK, MemoryOK, Keeping, Goto
<1>1. /\ pc[t] = "refused" /\ pc' = [pc EXCEPT ![t] = "idle"] /\ at' = at /\ History
  BY DEF Refused
<1>2. \A i \in Slots : Holder(i)' = Holder(i)
  <2>1. \A s \in Threads, i \in Slots : HasSlot(s, i)' <=> HasSlot(s, i)
    BY <1>1 DEF HasSlot, Using
  <2>. QED BY <2>1, HolderKept DEF Protocol
<1>3. {s \in Threads : Asks(s)'} = {s \in Threads : Asks(s)}
  BY <1>1 DEF Asks, Locked
<1>4. {s \in Threads : pc'[s] = "refused"} = {s \in Threads : pc[s] = "refused"} \ {t}
  BY <1>1
<1>5. "connect_threw" \in happened' <=> "connect_threw" \in happened
  BY <1>1 DEF History, Occurs, Locked
<1>. QED BY <1>1, <1>2, <1>3, <1>4, <1>5 DEF Allocator!Leave, Holder

-----------------------------------------------------------------------------
(* All together.                                                             *)

LEMMA StepIsPromised ==
  ASSUME FixedSize, FixedInv, FixedInv', [Next]_vars
  PROVE  [Allocator!Next]_(Allocator!vars)
<1>1. ASSUME History
      PROVE  sawFull' = {s \in {r \in Threads : Asks(r)'} :
                           s \in sawFull \/ \A i \in Slots : ~Allocator!Free(i)'}
  BY <1>1, MetFull DEF FixedInv, Protocol
<1>2. CASE \E t \in Threads : QueryThrows(t)
  <2>1. History
    BY <1>2 DEF QueryThrows, Keeping
  <2>2. \E i \in Slots : Allocator!Drop(i)
    BY <1>2, ThrowDrops
  <2>. QED BY <1>1, <2>1, <2>2 DEF Allocator!Next
<1>3. CASE \A t \in Threads : ~QueryThrows(t)
  <2>0. LostSlots' = LostSlots
    BY <1>3, SlotsKept
  <2>1. ASSUME NEW t \in Threads,
               Call(t) \/ ScanEnds(t) \/ ConnectThrows(t) \/ Take(t) \/ GiveBack(t) \/ Refused(t)
        PROVE  Allocator!Next
    <3>1. History
      BY <2>1 DEF Call, ScanEnds, ConnectThrows, Take, GiveBack, Refused, Keeping
    <3>2. \/ Allocator!Ask(t) \/ Allocator!Refuse(t) \/ Allocator!Fail(t) \/ Allocator!Leave(t)
          \/ \E i \in Slots : Allocator!Grant(t, i) \/ Allocator!GiveBack(i)
      BY <2>0, <2>1, CallAsks, ScanEndsRefuses, ConnectThrowsFails, TakeGrants, GiveBackReturns, RefusedLeaves
    <3>. QED BY <1>1, <3>1, <3>2 DEF Allocator!Next
  <2>2. ASSUME NEW t \in Threads, Destroy(t) \/ Check(t)
        PROVE  FALSE
    BY <2>2 DEF Destroy, Check, FixedInv, UnbrokenInv
  <2>. QED BY <1>3, <2>0, <2>1, <2>2, CallerStutters, OthersStutter DEF Next, CallerStep
<1>. QED BY <1>2, <1>3

LEMMA InitIsPromised ==
  ASSUME Init
  PROVE  Allocator!Init
<1>1. \A i \in Slots, t \in Threads : ~HasSlot(t, i)
  BY DEF Init, HasSlot, Using
<1>2. \A t \in Threads : ~Asks(t) /\ pc[t] # "refused"
  BY DEF Init, Asks, Locked
<1>. QED BY <1>1, <1>2, ValueAssumption DEF Init, LostSlots, Allocator!Init

\* Whatever its monitor does, a pool of fixed size whose queries end, or throw past
\* the catch block, lends each slot to one thread at a time, refuses only a thread that met every slot
\* taken, and serves nobody after a connect that threw.
THEOREM FixedPoolKeepsPromise ==
  ASSUME FixedSize
  PROVE  Spec => KeepsPromise
<1>1. FixedInv /\ [Next]_vars => FixedInv'
  BY FixedStep
<1>2. FixedInv /\ FixedInv' /\ [Next]_vars => [Allocator!Next]_(Allocator!vars)
  BY StepIsPromised
<1>3. Init => FixedInv /\ Allocator!Init
  BY FixedInit, InitIsPromised
<1>. QED BY <1>1, <1>2, <1>3, PTL DEF Spec, KeepsPromise, Allocator!Spec
=============================================================================
