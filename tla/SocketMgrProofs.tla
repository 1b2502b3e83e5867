-------------------------- MODULE SocketMgrProofs ---------------------------
(***************************************************************************)
(* Safety of the network threads, for any number of threads and            *)
(* connections.                                                            *)
(***************************************************************************)
EXTENDS SocketMgr, FiniteSetTheorems, TLAPS

\* Everything of TypeOK, but that counts are not negative, which follows from
\* what they count.
MemoryOK ==
  /\ client \in [Connections -> {"away", "backlog", "accepted"}]
  /\ hungup \subseteq Connections
  /\ held \in Connections \cup {NoSocket}
  /\ step \in {"idle", "options", "count", "add"}
  /\ sock \in Connections \cup {NoSocket}
  /\ i \in 0 .. ThreadCount /\ min \in Threads
  /\ _closed \subseteq Connections /\ reading \subseteq Connections
  /\ session \in [Connections -> {"none", "open", "over"}]
  /\ _connections \in [Threads -> Int]
  /\ _stopped \in BOOLEAN
  /\ _Sockets \in [Threads -> SUBSET Connections]
  /\ _newSockets \in [Threads -> SUBSET Connections]
  /\ pc \in [Threads -> {"top", "addnew", "update", "exited"}]
  /\ todo \in [Threads -> SUBSET Connections]
  /\ joined \in -1 .. ThreadCount

\* The socket that is being made is nobody else's business yet.
MakingInv ==
  /\ step # "idle" => sock \in Connections /\ client[sock] = "accepted" /\ session[sock] = "none"
  /\ \A s \in Connections : client[s] # "accepted" => session[s] = "none"

\* Which sockets threads hold, may be read from, and may have been closed.
HoldInv ==
  /\ \A s \in Connections : session[s] = "none" =>
       /\ s \notin _closed
       /\ s \in reading => step = "add" /\ s = sock
       /\ \A t \in Threads : s \notin _Sockets[t] /\ s \notin _newSockets[t]
  /\ \A s \in reading : s \notin _closed /\ session[s] # "over"
  /\ \A s \in Connections, t, u \in Threads :
       s \in _Sockets[t] \cup _newSockets[t] /\ s \in _Sockets[u] \cup _newSockets[u] => t = u
  /\ \A s \in Connections : session[s] = "open" =>
       \E t \in Threads : s \in _Sockets[t] \cup _newSockets[t]

\* A new socket the thread has come to is among its sockets, or its session is
\* over; no other is both new and old, and only new ones can be over.
WalkInv ==
  \A t \in Threads :
    /\ \A s \in _Sockets[t] : session[s] = "open"
    /\ pc[t] = "update" => todo[t] \subseteq _Sockets[t]
    /\ pc[t] = "addnew" =>
         /\ todo[t] \subseteq _newSockets[t] /\ todo[t] \cap _Sockets[t] = {}
         /\ \A s \in _newSockets[t] \ todo[t] : s \in _Sockets[t] \/ session[s] = "over"
         /\ \A s \in todo[t] : session[s] = "open"
    /\ pc[t] # "addnew" =>
         /\ _newSockets[t] \cap _Sockets[t] = {}
         /\ \A s \in _newSockets[t] : session[s] = "open"

\* What is inductive.
IInv == MemoryOK /\ MakingInv /\ HoldInv /\ WalkInv /\ CountsSessions

-----------------------------------------------------------------------------
\* The program starts in the invariant.
LEMMA InitInv == Init => IInv
<1>. SUFFICES ASSUME Init PROVE IInv
  OBVIOUS
<1>. USE SocketAssumption, CountAssumption DEF Init, Threads
<1>1. MemoryOK
  <2>1. /\ _connections \in [Threads -> Int]
        /\ _Sockets \in [Threads -> SUBSET Connections]
        /\ _newSockets \in [Threads -> SUBSET Connections]
        /\ todo \in [Threads -> SUBSET Connections]
    OBVIOUS
  <2>2. /\ client \in [Connections -> {"away", "backlog", "accepted"}]
        /\ session \in [Connections -> {"none", "open", "over"}]
        /\ pc \in [Threads -> {"top", "addnew", "update", "exited"}]
    OBVIOUS
  <2>3. i \in 0 .. ThreadCount /\ min \in Threads /\ joined \in -1 .. ThreadCount
    OBVIOUS
  <2>. QED BY <2>1, <2>2, <2>3 DEF MemoryOK
<1>2. MakingInv /\ HoldInv /\ WalkInv
  BY DEF MakingInv, HoldInv, WalkInv
<1>3. CountsSessions
  <2>1. \A t \in Threads : Served(t) = {} /\ _connections[t] = 0
    BY DEF Served
  <2>. QED BY <2>1, FS_EmptySet DEF CountsSessions
<1>. QED BY <1>1, <1>2, <1>3 DEF IInv

\* Every step keeps the types.
LEMMA MemoryStep ==
  ASSUME MemoryOK, MakingInv, [Next]_vars
  PROVE  MemoryOK'
<1>. USE SocketAssumption, CountAssumption DEF MemoryOK, MakingInv, Threads, io,
   sockets, network, Goto, Rearm
<1>1. ASSUME NEW s \in Connections, Connect(s)  PROVE MemoryOK'
  BY <1>1 DEF Connect
<1>2. ASSUME NEW s \in Connections, HangUp(s)  PROVE MemoryOK'
  BY <1>2 DEF HangUp
<1>3. ASSUME NEW s \in Connections, Accept(s)  PROVE MemoryOK'
  BY <1>3 DEF Accept
<1>4. ASSUME NEW s \in Connections, ReadFails(s)  PROVE MemoryOK'
  BY <1>4 DEF ReadFails, CloseSocket
<1>5. CASE OptionFails
  BY <1>5 DEF OptionFails
<1>6. CASE SetOptions
  BY <1>6 DEF SetOptions
<1>7. CASE CompareCounts
  BY <1>7 DEF CompareCounts, Fewer
<1>8. CASE ConstructThrows
  BY <1>8 DEF ConstructThrows, AfterThrow
<1>9. CASE StartSocket
  BY <1>9 DEF StartSocket
<1>10. CASE AddSocket
  BY <1>10 DEF AddSocket, CountUp
<1>11. CASE StopNetwork
  BY <1>11 DEF StopNetwork
<1>12. CASE Wait
  BY <1>12 DEF Wait
<1>13. ASSUME NEW t \in Threads, WakeUp(t)  PROVE MemoryOK'
  <2>1. todo'[t] \in SUBSET Connections /\ todo' = [todo EXCEPT ![t] = todo'[t]]
    BY <1>13 DEF WakeUp
  <2>2. pc' \in [Threads -> {"top", "addnew", "update", "exited"}]
    BY <1>13 DEF WakeUp
  <2>. QED BY <1>13, <2>1, <2>2 DEF WakeUp
<1>14. ASSUME NEW t \in Threads, AddedNewSockets(t)  PROVE MemoryOK'
  BY <1>14 DEF AddedNewSockets, Clear
<1>15. ASSUME NEW t \in Threads, Updated(t)  PROVE MemoryOK'
  BY <1>15 DEF Updated
<1>16. ASSUME NEW t \in Threads, Exit(t)  PROVE MemoryOK'
  BY <1>16 DEF Exit
<1>17. ASSUME NEW t \in Threads, NEW s \in Connections, AddNewSocket(t, s)  PROVE MemoryOK'
  <2>1. session' \in [Connections -> {"none", "open", "over"}] /\ _connections' \in [Threads -> Int]
    <3>1. CASE Remove(t, s)
      BY <3>1 DEF Remove
    <3>2. CASE UNCHANGED <<session, _connections>>
      BY <3>2
    <3>. QED BY <1>17, <3>1, <3>2 DEF AddNewSocket
  <2>2. Kept(s) \subseteq Connections
    BY DEF Kept
  <2>3. _Sockets' \in [Threads -> SUBSET Connections]
    BY <1>17, <2>2 DEF AddNewSocket
  <2>. QED BY <1>17, <2>1, <2>3 DEF AddNewSocket
<1>18. ASSUME NEW t \in Threads, NEW s \in Connections, Keep(t, s)  PROVE MemoryOK'
  BY <1>18 DEF Keep
<1>19. ASSUME NEW t \in Threads, NEW s \in Connections, Drop(t, s)  PROVE MemoryOK'
  BY <1>19 DEF Drop, Remove
<1>20. CASE UNCHANGED vars
  BY <1>20 DEF vars
<1>. HIDE DEF MemoryOK
<1>. QED BY <1>1, <1>2, <1>3, <1>4, <1>5, <1>6, <1>7, <1>8, <1>9, <1>10, <1>11,
   <1>12, <1>13, <1>14, <1>15, <1>16, <1>17, <1>18, <1>19, <1>20
   DEF Next, AcceptHandler, Run

\* The socket that is being made remains so.
LEMMA MakingStep ==
  ASSUME MemoryOK, MakingInv, WalkInv, [Next]_vars
  PROVE  MakingInv'
<1>. USE SocketAssumption, CountAssumption DEF MemoryOK, MakingInv, WalkInv, io, sockets, network, Goto, Rearm
<1>1. ASSUME NEW s \in Connections, Connect(s)  PROVE MakingInv'
  BY <1>1 DEF Connect
<1>2. ASSUME NEW s \in Connections, HangUp(s)  PROVE MakingInv'
  BY <1>2 DEF HangUp
<1>3. ASSUME NEW s \in Connections, Accept(s)  PROVE MakingInv'
  BY <1>3 DEF Accept
<1>4. ASSUME NEW s \in Connections, ReadFails(s)  PROVE MakingInv'
  BY <1>4 DEF ReadFails, CloseSocket
<1>5. CASE OptionFails
  BY <1>5 DEF OptionFails
<1>6. CASE SetOptions
  BY <1>6 DEF SetOptions
<1>7. CASE CompareCounts
  BY <1>7 DEF CompareCounts, Fewer
<1>8. CASE ConstructThrows
  BY <1>8 DEF ConstructThrows, AfterThrow
<1>9. CASE StartSocket
  BY <1>9 DEF StartSocket
<1>10. CASE AddSocket
  BY <1>10 DEF AddSocket, CountUp
<1>11. CASE StopNetwork
  BY <1>11 DEF StopNetwork
<1>12. CASE Wait
  BY <1>12 DEF Wait
<1>13. ASSUME NEW t \in Threads, WakeUp(t)  PROVE MakingInv'
  BY <1>13 DEF WakeUp
<1>14. ASSUME NEW t \in Threads, AddedNewSockets(t)  PROVE MakingInv'
  BY <1>14 DEF AddedNewSockets, Clear
<1>15. ASSUME NEW t \in Threads, Updated(t)  PROVE MakingInv'
  BY <1>15 DEF Updated
<1>16. ASSUME NEW t \in Threads, Exit(t)  PROVE MakingInv'
  BY <1>16 DEF Exit
<1>17. ASSUME NEW t \in Threads, NEW s \in Connections, AddNewSocket(t, s)  PROVE MakingInv'
  BY <1>17 DEF AddNewSocket, Remove, Kept, IsOpen
<1>18. ASSUME NEW t \in Threads, NEW s \in Connections, Keep(t, s)  PROVE MakingInv'
  BY <1>18 DEF Keep, IsOpen
<1>19. ASSUME NEW t \in Threads, NEW s \in Connections, Drop(t, s)  PROVE MakingInv'
  BY <1>19 DEF Drop, Remove, IsOpen
<1>20. CASE UNCHANGED vars
  BY <1>20 DEF vars
<1>. HIDE DEF MakingInv
<1>. QED BY <1>1, <1>2, <1>3, <1>4, <1>5, <1>6, <1>7, <1>8, <1>9, <1>10, <1>11,
   <1>12, <1>13, <1>14, <1>15, <1>16, <1>17, <1>18, <1>19, <1>20
   DEF Next, AcceptHandler, Run

\* Sockets stay with their threads, and reads with open sockets.
LEMMA HoldStep ==
  ASSUME MemoryOK, MakingInv, HoldInv, WalkInv, [Next]_vars
  PROVE  HoldInv'
<1>. USE SocketAssumption, CountAssumption DEF MemoryOK, MakingInv, HoldInv,
   WalkInv, io, sockets, network, Goto, Rearm
<1>1. ASSUME NEW s \in Connections, Connect(s)  PROVE HoldInv'
  BY <1>1 DEF Connect
<1>2. ASSUME NEW s \in Connections, HangUp(s)  PROVE HoldInv'
  BY <1>2 DEF HangUp
<1>3. ASSUME NEW s \in Connections, Accept(s)  PROVE HoldInv'
  BY <1>3 DEF Accept
<1>4. ASSUME NEW s \in Connections, ReadFails(s)  PROVE HoldInv'
  BY <1>4 DEF ReadFails, CloseSocket
<1>5. CASE OptionFails
  BY <1>5 DEF OptionFails
<1>6. CASE SetOptions
  BY <1>6 DEF SetOptions
<1>7. CASE CompareCounts
  BY <1>7 DEF CompareCounts, Fewer
<1>8. CASE ConstructThrows
  BY <1>8 DEF ConstructThrows, AfterThrow
<1>9. CASE StartSocket
  BY <1>9 DEF StartSocket
<1>10. CASE AddSocket
  BY <1>10 DEF AddSocket, CountUp
<1>11. CASE StopNetwork
  BY <1>11 DEF StopNetwork
<1>12. CASE Wait
  BY <1>12 DEF Wait
<1>13. ASSUME NEW t \in Threads, WakeUp(t)  PROVE HoldInv'
  BY <1>13 DEF WakeUp
<1>14. ASSUME NEW t \in Threads, AddedNewSockets(t)  PROVE HoldInv'
  BY <1>14 DEF AddedNewSockets, Clear
<1>15. ASSUME NEW t \in Threads, Updated(t)  PROVE HoldInv'
  BY <1>15 DEF Updated
<1>16. ASSUME NEW t \in Threads, Exit(t)  PROVE HoldInv'
  BY <1>16 DEF Exit
<1>17. ASSUME NEW t \in Threads, NEW s \in Connections, AddNewSocket(t, s)  PROVE HoldInv'
  BY <1>17 DEF AddNewSocket, Remove, Kept, IsOpen
<1>18. ASSUME NEW t \in Threads, NEW s \in Connections, Keep(t, s)  PROVE HoldInv'
  BY <1>18 DEF Keep, IsOpen
<1>19. ASSUME NEW t \in Threads, NEW s \in Connections, Drop(t, s)  PROVE HoldInv'
  BY <1>19 DEF Drop, Remove, IsOpen
<1>20. CASE UNCHANGED vars
  BY <1>20 DEF vars
<1>. HIDE DEF HoldInv
<1>. QED BY <1>1, <1>2, <1>3, <1>4, <1>5, <1>6, <1>7, <1>8, <1>9, <1>10, <1>11,
   <1>12, <1>13, <1>14, <1>15, <1>16, <1>17, <1>18, <1>19, <1>20
   DEF Next, AcceptHandler, Run

\* The walks over the sets come to what they should.
LEMMA WalkStep ==
  ASSUME MemoryOK, MakingInv, HoldInv, WalkInv, [Next]_vars
  PROVE  WalkInv'
<1>. USE SocketAssumption, CountAssumption DEF MemoryOK, MakingInv, HoldInv,
   WalkInv, io, sockets, network, Goto, Rearm
<1>1. ASSUME NEW s \in Connections, Connect(s)  PROVE WalkInv'
  BY <1>1 DEF Connect
<1>2. ASSUME NEW s \in Connections, HangUp(s)  PROVE WalkInv'
  BY <1>2 DEF HangUp
<1>3. ASSUME NEW s \in Connections, Accept(s)  PROVE WalkInv'
  BY <1>3 DEF Accept
<1>4. ASSUME NEW s \in Connections, ReadFails(s)  PROVE WalkInv'
  BY <1>4 DEF ReadFails, CloseSocket
<1>5. CASE OptionFails
  BY <1>5 DEF OptionFails
<1>6. CASE SetOptions
  BY <1>6 DEF SetOptions
<1>7. CASE CompareCounts
  BY <1>7 DEF CompareCounts, Fewer
<1>8. CASE ConstructThrows
  BY <1>8 DEF ConstructThrows, AfterThrow
<1>9. CASE StartSocket
  BY <1>9 DEF StartSocket
<1>10. CASE AddSocket
  BY <1>10 DEF AddSocket, CountUp
<1>11. CASE StopNetwork
  BY <1>11 DEF StopNetwork
<1>12. CASE Wait
  BY <1>12 DEF Wait
<1>13. ASSUME NEW t \in Threads, WakeUp(t)  PROVE WalkInv'
  BY <1>13 DEF WakeUp
<1>14. ASSUME NEW t \in Threads, AddedNewSockets(t)  PROVE WalkInv'
  BY <1>14 DEF AddedNewSockets, Clear
<1>15. ASSUME NEW t \in Threads, Updated(t)  PROVE WalkInv'
  BY <1>15 DEF Updated
<1>16. ASSUME NEW t \in Threads, Exit(t)  PROVE WalkInv'
  BY <1>16 DEF Exit
<1>17. ASSUME NEW t \in Threads, NEW s \in Connections, AddNewSocket(t, s)  PROVE WalkInv'
  BY <1>17 DEF AddNewSocket, Remove, Kept, IsOpen
<1>18. ASSUME NEW t \in Threads, NEW s \in Connections, Keep(t, s)  PROVE WalkInv'
  BY <1>18 DEF Keep, IsOpen
<1>19. ASSUME NEW t \in Threads, NEW s \in Connections, Drop(t, s)  PROVE WalkInv'
  BY <1>19 DEF Drop, Remove, IsOpen
<1>20. CASE UNCHANGED vars
  BY <1>20 DEF vars
<1>. HIDE DEF WalkInv
<1>. QED BY <1>1, <1>2, <1>3, <1>4, <1>5, <1>6, <1>7, <1>8, <1>9, <1>10, <1>11,
   <1>12, <1>13, <1>14, <1>15, <1>16, <1>17, <1>18, <1>19, <1>20
   DEF Next, AcceptHandler, Run

-----------------------------------------------------------------------------
(* The count.                                                                *)

\* A thread serves finitely many sessions, as there are finitely many sockets.
LEMMA ServedFinite ==
  ASSUME NEW t \in Threads, MemoryOK
  PROVE  IsFiniteSet(Served(t))
<1>1. Served(t) \subseteq Connections
  BY DEF MemoryOK, Served
<1>. QED BY <1>1, FS_Subset, SocketAssumption

\* Steps that change nothing of what a thread holds keep the count.
LEMMA SameCount ==
  ASSUME CountsSessions, _connections' = _connections,
         \A t \in Threads : Served(t)' = Served(t)
  PROVE  CountsSessions'
BY DEF CountsSessions, Threads

\* So do steps that touch neither sessions nor threads.
LEMMA SameServed ==
  ASSUME CountsSessions, UNCHANGED <<session, _connections, _Sockets, _newSockets>>
  PROVE  CountsSessions'
BY SameCount DEF Served

\* A session that ends leaves its thread's sessions, and only those.
LEMMA RemoveCounts ==
  ASSUME MemoryOK, HoldInv, CountsSessions, NEW t \in Threads, NEW s \in Connections,
         s \in Served(t), Remove(t, s), _newSockets' = _newSockets,
         _Sockets' = _Sockets \/ _Sockets' = [_Sockets EXCEPT ![t] = @ \ {s}]
  PROVE  CountsSessions'
<1>1. Served(t)' = Served(t) \ {s}
  BY DEF Served, Remove, MemoryOK
<1>2. \A u \in Threads \ {t} : Served(u)' = Served(u)
  <2>. SUFFICES ASSUME NEW u \in Threads \ {t}  PROVE Served(u)' = Served(u)
    OBVIOUS
  <2>1. s \notin _Sockets[u] \cup _newSockets[u]
    BY DEF HoldInv, Served
  <2>2. _Sockets'[u] = _Sockets[u]
    BY DEF MemoryOK
  <2>. QED BY <2>1, <2>2 DEF Served, Remove, MemoryOK
<1>3. Cardinality(Served(t) \ {s}) = Cardinality(Served(t)) - 1
  BY ServedFinite, FS_RemoveElement
<1>4. _connections'[t] = _connections[t] - 1
      /\ \A u \in Threads \ {t} : _connections'[u] = _connections[u]
  BY DEF Remove, MemoryOK
<1>. QED BY <1>1, <1>2, <1>3, <1>4 DEF CountsSessions, Threads

\* Every step keeps the counts right.
LEMMA CountStep ==
  ASSUME MemoryOK, MakingInv, HoldInv, WalkInv, CountsSessions, [Next]_vars
  PROVE  CountsSessions'
<1>. USE DEF io, sockets, network
<1>1. ASSUME AddSocket, NEW t \in Threads, t = min  PROVE CountsSessions'
  <2>1. /\ sock \in Connections /\ session[sock] = "none"
        /\ \A u \in Threads : sock \notin _Sockets[u] /\ sock \notin _newSockets[u]
    BY <1>1 DEF AddSocket, MakingInv, HoldInv
  <2>2. Served(t)' = Served(t) \cup {sock} /\ sock \notin Served(t)
    BY <1>1, <2>1 DEF AddSocket, Served, MemoryOK
  <2>3. \A u \in Threads \ {t} : Served(u)' = Served(u)
    BY <1>1, <2>1 DEF AddSocket, Served, MemoryOK
  <2>4. Cardinality(Served(t) \cup {sock}) = Cardinality(Served(t)) + 1
    BY <2>1, <2>2, ServedFinite, FS_AddElement
  <2>5. _connections'[t] = _connections[t] + 1
        /\ \A u \in Threads \ {t} : _connections'[u] = _connections[u]
    BY <1>1 DEF AddSocket, CountUp, MemoryOK
  <2>. QED BY <2>2, <2>3, <2>4, <2>5 DEF CountsSessions, Threads
<1>2. ASSUME NEW t \in Threads, AddedNewSockets(t)  PROVE CountsSessions'
  <2>1. \A u \in Threads : Served(u)' = Served(u)
    BY <1>2 DEF AddedNewSockets, Clear, Served, WalkInv, MemoryOK
  <2>. QED BY <1>2, <2>1, SameCount DEF AddedNewSockets
<1>3. ASSUME NEW t \in Threads, NEW s \in Connections, AddNewSocket(t, s)  PROVE CountsSessions'
  <2>1. s \in _newSockets[t] /\ session[s] = "open"
    BY <1>3 DEF AddNewSocket, WalkInv
  <2>2. CASE IsOpen(s)
    <3>1. \A u \in Threads : Served(u)' = Served(u)
      BY <1>3, <2>1, <2>2 DEF AddNewSocket, Kept, Served, MemoryOK
    <3>. QED BY <1>3, <2>2, <3>1, SameCount DEF AddNewSocket
  <2>3. CASE ~IsOpen(s)
    <3>1. s \in Served(t)
      BY <2>1 DEF Served
    <3>2. _Sockets' = _Sockets
      BY <1>3, <2>3 DEF AddNewSocket, Kept, MemoryOK
    <3>. QED BY <1>3, <2>3, <3>1, <3>2, RemoveCounts DEF AddNewSocket
  <2>. QED BY <2>2, <2>3
<1>4. ASSUME NEW t \in Threads, NEW s \in Connections, Drop(t, s)  PROVE CountsSessions'
  <2>1. s \in Served(t)
    BY <1>4 DEF Drop, WalkInv, Served
  <2>. QED BY <1>4, <2>1, RemoveCounts DEF Drop
<1>5. ASSUME \/ \E s \in Connections : Connect(s) \/ HangUp(s) \/ Accept(s) \/ ReadFails(s)
             \/ OptionFails \/ SetOptions \/ CompareCounts \/ ConstructThrows \/ StartSocket
             \/ StopNetwork \/ Wait
             \/ \E t \in Threads : WakeUp(t) \/ Updated(t) \/ Exit(t)
                                   \/ \E s \in Connections : Keep(t, s)
             \/ UNCHANGED vars
      PROVE  CountsSessions'
  <2>1. UNCHANGED <<session, _connections, _Sockets, _newSockets>>
    BY <1>5 DEF Connect, HangUp, Accept, ReadFails, OptionFails, SetOptions, CompareCounts,
       ConstructThrows, StartSocket, StopNetwork, Wait, WakeUp, Updated, Exit, Keep, vars
  <2>. QED BY <2>1, SameServed
<1>. QED BY <1>1, <1>2, <1>3, <1>4, <1>5 DEF Next, AcceptHandler, Run, MemoryOK

-----------------------------------------------------------------------------
(* The theorems.                                                             *)

\* The invariant is inductive, and holds in every state of the network.
THEOREM Invariant == Spec => []IInv
<1>1. IInv /\ [Next]_vars => IInv'
  BY MemoryStep, MakingStep, HoldStep, WalkStep, CountStep DEF IInv
<1>. QED BY InitInv, <1>1, PTL DEF Spec

\* The program's variables keep their types; a thread's count, which is counted
\* down without a look at it, is never negative.
THEOREM TypesHold == Spec => []TypeOK
<1>1. IInv => TypeOK
  <2>. SUFFICES ASSUME IInv PROVE TypeOK
    OBVIOUS
  <2>1. \A t \in Threads : _connections[t] \in Nat
    BY ServedFinite, FS_CardinalityType DEF IInv, CountsSessions
  <2>. QED BY <2>1 DEF IInv, MemoryOK, TypeOK
<1>. QED BY Invariant, <1>1, PTL

\* A network thread's _connections is the number of sessions it serves, with
\* sockets added and closed while it walks over its sets.
THEOREM SessionsCounted == Spec => []CountsSessions
BY Invariant, PTL DEF IInv

\* Every open session is the business of exactly one network thread.
THEOREM SessionsHaveOneThread == Spec => []OneThreadEach
<1>1. IInv => OneThreadEach
  <2>. SUFFICES ASSUME HoldInv, WalkInv, MemoryOK PROVE OneThreadEach
    BY DEF IInv
  <2>1. ASSUME NEW s \in Connections, session[s] = "open"
        PROVE  \E t \in Threads : s \in Served(t)
                 /\ \A u \in Threads \ {t} : s \notin _Sockets[u] \cup _newSockets[u]
    BY <2>1 DEF HoldInv, Served
  <2>2. ASSUME NEW t \in Threads, NEW s \in _Sockets[t] \cup _newSockets[t], session[s] # "open"
        PROVE  session[s] = "over" /\ pc[t] = "addnew" /\ s \notin todo[t]
    BY <2>2 DEF WalkInv
  <2>. QED BY <2>1, <2>2 DEF OneThreadEach
<1>. QED BY Invariant, <1>1, PTL

\* No read completes before a socket's OnOpen or after its OnClose.
THEOREM ReadsAreInSession == Spec => []ReadsInSession
<1>1. IInv => ReadsInSession
  <2>. SUFFICES ASSUME HoldInv, MemoryOK, step = "idle", NEW s \in reading
                PROVE  session[s] = "open"
    BY DEF IInv, ReadsInSession
  <2>1. s \in Connections /\ session[s] # "over"
    BY DEF HoldInv, MemoryOK
  <2>2. session[s] # "none"
    BY <2>1 DEF HoldInv
  <2>. QED BY <2>1, <2>2 DEF MemoryOK
<1>. QED BY Invariant, <1>1, PTL

-----------------------------------------------------------------------------
(* Balance.                                                                  *)

NoneOver == \A s \in Connections : session[s] # "over"

\* What the search for the thread with the fewest connections has found so far.
\* Its result is still true when the socket is added.
FewestInv ==
  /\ step = "count" => \A t \in Threads : t < i => _connections[min] <= _connections[t]
  /\ step = "add" => \A t \in Threads : _connections[min] <= _connections[t]

BalanceInv == IInv /\ (NoneOver => FewestInv /\ Balanced)

\* A session that is over remains so, and until one is, counts only grow.
LEMMA OverForGood ==
  ASSUME IInv, [Next]_vars, NoneOver'
  PROVE  NoneOver /\ (AddSocket \/ _connections' = _connections)
<1>. USE DEF NoneOver, IInv, MemoryOK, MakingInv, io, sockets, network
<1>1. CASE AddSocket
  BY <1>1 DEF AddSocket
<1>2. ASSUME NEW t \in Threads, NEW s \in Connections, AddNewSocket(t, s) \/ Drop(t, s)
      PROVE  NoneOver /\ _connections' = _connections
  BY <1>2 DEF AddNewSocket, Drop, Remove
<1>3. ASSUME \/ \E s \in Connections : Connect(s) \/ HangUp(s) \/ Accept(s) \/ ReadFails(s)
             \/ OptionFails \/ SetOptions \/ CompareCounts \/ ConstructThrows \/ StartSocket
             \/ StopNetwork \/ Wait
             \/ \E t \in Threads : \/ WakeUp(t) \/ AddedNewSockets(t) \/ Updated(t) \/ Exit(t)
                                   \/ \E s \in Connections : Keep(t, s)
             \/ UNCHANGED vars
      PROVE  NoneOver /\ _connections' = _connections
  <2>1. UNCHANGED <<session, _connections>>
    BY <1>3 DEF Connect, HangUp, Accept, ReadFails, OptionFails, SetOptions, CompareCounts,
       ConstructThrows, StartSocket, StopNetwork, Wait, WakeUp, AddedNewSockets, Updated, Exit, Keep, vars
  <2>. QED BY <2>1
<1>. QED BY <1>1, <1>2, <1>3 DEF Next, AcceptHandler, Run

\* The search goes on with the counts it has read.
LEMMA FewestStep ==
  ASSUME IInv, FewestInv, NoneOver', [Next]_vars
  PROVE  FewestInv'
<1>. USE CountAssumption DEF FewestInv, IInv, MemoryOK, Threads, io, sockets, network, Rearm
<1>1. CASE AddSocket \/ OptionFails \/ ConstructThrows
  BY <1>1 DEF AddSocket, OptionFails, ConstructThrows, AfterThrow
<1>2. CASE SetOptions
  BY <1>2 DEF SetOptions
<1>3. CASE CompareCounts
  <2>1. /\ step = "count" /\ step' = "count" /\ i < ThreadCount /\ i' = i + 1 /\ _connections' = _connections
        /\ min' = IF _connections[i] < _connections[min] THEN i ELSE min
    BY <1>3 DEF CompareCounts, Fewer
  <2>2. \A t \in Threads : t < i + 1 => t < i \/ t = i
    OBVIOUS
  <2>3. i \in Threads /\ _connections[i] \in Int /\ _connections[min] \in Int
    BY <2>1
  <2>4. \A t \in Threads : t < i + 1 => _connections[min'] <= _connections[t]
    BY <2>1, <2>2, <2>3
  <2>. QED BY <2>1, <2>4
<1>4. CASE StartSocket
  BY <1>4 DEF StartSocket
<1>5. ASSUME NEW s \in Connections, Accept(s)
      PROVE  FewestInv'
  BY <1>5 DEF Accept
<1>6. ASSUME \/ \E s \in Connections : Connect(s) \/ HangUp(s) \/ ReadFails(s)
             \/ StopNetwork \/ Wait \/ (\E t \in Threads : Run(t)) \/ UNCHANGED vars
      PROVE  FewestInv'
  <2>1. UNCHANGED <<step, i, min>> /\ ~AddSocket
    BY <1>6 DEF Connect, HangUp, ReadFails, StopNetwork, Wait, Run, WakeUp, AddNewSocket, AddedNewSockets, Updated,
       Exit, Keep, Drop, vars, AddSocket, MakingInv
  <2>2. _connections' = _connections
    BY <2>1, OverForGood
  <2>. QED BY <2>1, <2>2
<1>. QED BY <1>1, <1>2, <1>3, <1>4, <1>5, <1>6 DEF Next, AcceptHandler

LEMMA BalanceStep ==
  ASSUME IInv, FewestInv, Balanced, NoneOver', [Next]_vars
  PROVE  Balanced'
<1>. USE DEF IInv, MemoryOK, Balanced, NoneOver
<1>1. NoneOver
  BY OverForGood
<1>2. CASE _connections' = _connections
  BY <1>1, <1>2 DEF Threads
<1>3. CASE AddSocket
  <2>1. /\ \A t \in Threads : _connections[min] <= _connections[t]
        /\ _connections' = [_connections EXCEPT ![min] = @ + 1]
    BY <1>3 DEF AddSocket, CountUp, FewestInv
  <2>2. SUFFICES ASSUME NEW t \in Threads, NEW u \in Threads
                 PROVE  _connections'[t] <= _connections'[u] + 1
    BY DEF Threads
  <2>3. _connections[t] <= _connections[u] + 1 /\ _connections[min] <= _connections[u]
    BY <1>1, <2>1
  <2>. QED BY <2>1, <2>3
<1>. QED BY <1>2, <1>3, OverForGood

\* Until a session ends, the network threads' counts are within one of each
\* other, although the search reads them without a lock.
THEOREM CountsAreBalanced == Spec => []Balanced
<1>1. Init => BalanceInv
  <2>. SUFFICES ASSUME Init PROVE BalanceInv
    OBVIOUS
  <2>1. IInv
    BY InitInv
  <2>. QED BY <2>1 DEF Init, BalanceInv, FewestInv, Balanced, Threads
<1>2. BalanceInv /\ [Next]_vars => BalanceInv'
  <2>. SUFFICES ASSUME BalanceInv, [Next]_vars PROVE BalanceInv'
    OBVIOUS
  <2>1. IInv /\ IInv'
    BY MemoryStep, MakingStep, HoldStep, WalkStep, CountStep DEF BalanceInv, IInv
  <2>2. ASSUME NoneOver' PROVE FewestInv' /\ Balanced'
    BY <2>1, <2>2, OverForGood, FewestStep, BalanceStep DEF BalanceInv
  <2>. QED BY <2>1, <2>2 DEF BalanceInv
<1>3. BalanceInv => Balanced
  BY DEF BalanceInv, Balanced, NoneOver
<1>. QED BY <1>1, <1>2, <1>3, PTL DEF Spec

=============================================================================
