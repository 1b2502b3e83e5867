----------------------------- MODULE SocketMgr ------------------------------
(***************************************************************************)
(* SocketMgr, NetworkThread and AsyncAcceptor of DragonFiesta.Shared, with *)
(* the LoginSockets they serve.                                            *)
(*                                                                         *)
(* One thread runs the io_service: it accepts a connection, starts to read *)
(* from it, and hands it to the network thread with the fewest; later it   *)
(* runs the socket's read handler.  Each network thread takes over the new *)
(* sockets under _newSocketsLock, and removes those that have been closed. *)
(* A session is what lies between a socket's OnOpen and its OnClose.  What *)
(* is read and written is left out.                                        *)
(***************************************************************************)
EXTENDS Integers, FiniteSets

CONSTANTS
  Connections,  \* clients' connections, and the sockets made for them
  ThreadCount,  \* _threadCount
  NoSocket

ASSUME CountAssumption == ThreadCount \in Nat \ {0}
ASSUME SocketAssumption == NoSocket \notin Connections /\ IsFiniteSet(Connections)

Threads == 0 .. ThreadCount - 1

VARIABLES
  \* the clients and the acceptor
  client,       \* connection -> "away", "backlog", or "accepted"
  hungup,       \* connections their clients have hung up
  held,         \* the connection an earlier accept has left in _socket
  \* the thread of the io_service
  step, sock,   \* its step, and the socket it works on
  i, min,       \* OnSocketOpen's variables
  \* sockets
  _closed,      \* those with _closed set
  reading,      \* those with an asynchronous read under way
  session,      \* connection -> "none", "open" after OnOpen, "over" after OnClose
  \* network threads
  _connections, _stopped, _Sockets, _newSockets, pc,
  todo,         \* the sockets the loop the thread is in has yet to come to
  \* StopNetwork
  joined        \* the threads it has waited for; -1 before it is called

io == <<step, sock, i, min>>
sockets == <<_closed, reading, session>>
network == <<_connections, _Sockets, _newSockets, pc, todo>>
vars == <<client, hungup, held, io, sockets, network, _stopped, joined>>

Init ==
  /\ client = [s \in Connections |-> "away"]
  /\ hungup = {} /\ held = NoSocket
  /\ step = "idle" /\ sock = NoSocket /\ i = 0 /\ min = 0
  /\ _closed = {} /\ reading = {}
  /\ session = [s \in Connections |-> "none"]
  /\ _connections = [t \in Threads |-> 0]
  /\ _stopped = FALSE
  /\ _Sockets = [t \in Threads |-> {}] /\ _newSockets = [t \in Threads |-> {}]
  /\ pc = [t \in Threads |-> "top"] /\ todo = [t \in Threads |-> {}]
  /\ joined = -1

-----------------------------------------------------------------------------
(* Clients.                                                                  *)

Connect(s) ==
  /\ client[s] = "away"
  /\ client' = [client EXCEPT ![s] = "backlog"]
  /\ UNCHANGED <<hungup, held, io, sockets, network, _stopped, joined>>

HangUp(s) ==
  /\ client[s] # "away"
  /\ hungup' = hungup \cup {s}
  /\ UNCHANGED <<client, held, io, sockets, network, _stopped, joined>>

-----------------------------------------------------------------------------
(* The accept handler, on the thread of the io_service.                      *)

\* async_accept completes; with an open _socket it only ever fails.
Accept(s) ==
  /\ step = "idle" /\ client[s] = "backlog" /\ held = NoSocket
  /\ client' = [client EXCEPT ![s] = "accepted"]
  /\ step' = "options" /\ sock' = s
  /\ UNCHANGED <<hungup, held, i, min, sockets, network, _stopped, joined>>

\* The handler is done, and AsyncAcceptManaged called again.
Rearm == step' = "idle" /\ sock' = NoSocket

\* non_blocking and the socket options.  If one fails the socket is neither
\* moved on nor closed: it stays in _socket.
OptionFails ==
  /\ step = "options"
  /\ held' = sock
  /\ Rearm
  /\ UNCHANGED <<client, hungup, i, min, sockets, network, _stopped, joined>>

SetOptions ==
  /\ step = "options"
  /\ step' = "count" /\ i' = 1 /\ min' = 0
  /\ UNCHANGED <<client, hungup, held, sock, sockets, network, _stopped, joined>>

\* One round of the search for the thread with the fewest connections.
Fewer(t, u) == _connections[t] < _connections[u]
CompareCounts ==
  /\ step = "count" /\ i < ThreadCount
  /\ min' = IF Fewer(i, min) THEN i ELSE min
  /\ i' = i + 1
  /\ UNCHANGED <<client, hungup, held, step, sock, sockets, network, _stopped, joined>>

\* remote_endpoint throws if the client has gone already; the socket has been
\* moved, and dies with the object whose constructor threw.
AfterThrowDeaf == step' = "deaf" /\ UNCHANGED sock  \* mutant: not called again
AfterThrow == Rearm
ConstructThrows ==
  /\ step = "count" /\ i = ThreadCount
  /\ sock \in hungup
  /\ AfterThrow
  /\ UNCHANGED <<client, hungup, held, i, min, sockets, network, _stopped, joined>>

\* make_shared, and Start.
StartSocket ==
  /\ step = "count" /\ i = ThreadCount
  /\ reading' = reading \cup {sock}
  /\ step' = "add"
  /\ UNCHANGED <<client, hungup, held, sock, i, min, _closed, session, network, _stopped, joined>>

\* AddSocket, under _newSocketsLock, with SocketAdded.
CountUpServed(t) == Cardinality(_Sockets[t]) + 1  \* mutant: new sockets not counted
CountUp(t) == _connections[t] + 1
AddSocket ==
  /\ step = "add" /\ pc[min] # "addnew"
  /\ _connections' = [_connections EXCEPT ![min] = CountUp(min)]
  /\ _newSockets' = [_newSockets EXCEPT ![min] = @ \cup {sock}]
  /\ session' = [session EXCEPT ![sock] = "open"]
  /\ Rearm
  /\ UNCHANGED <<client, hungup, held, i, min, _closed, reading, _Sockets, pc, todo, _stopped, joined>>

-----------------------------------------------------------------------------
\* ReadHandlerInternal with an error, which ends the chain of reads.  Without
\* one, ReadHandler asks for the next read and nothing here changes.
CloseIgnored(s) == UNCHANGED _closed  \* mutant: end of file taken for no error
CloseSocket(s) == _closed' = _closed \cup {s}
ReadFails(s) ==
  /\ step = "idle"
  /\ s \in reading /\ s \in hungup
  /\ CloseSocket(s)
  /\ reading' = reading \ {s}
  /\ UNCHANGED <<client, hungup, held, io, session, network, _stopped, joined>>

-----------------------------------------------------------------------------
(* NetworkThread::Run.                                                       *)

Goto(t, label, S) == pc' = [pc EXCEPT ![t] = label] /\ todo' = [todo EXCEPT ![t] = S]

IsOpenUnlessHungUp(s) == s \notin hungup  \* mutant: the connection asked, not the socket
IsOpen(s) == s \notin _closed

\* SocketRemoved, and the connection no longer counted.
Remove(t, s) ==
  /\ session' = [session EXCEPT ![s] = "over"]
  /\ _connections' = [_connections EXCEPT ![t] = @ - 1]

\* The loop goes on until Stop.  AddNewSockets takes the lock.
GoesOnWhileServing(t) == ~_stopped \/ _Sockets[t] # {}  \* mutant: drain before stopping
GoesOn(t) == ~_stopped
WakeUp(t) ==
  /\ pc[t] = "top" /\ GoesOn(t)
  /\ \/ _newSockets[t] # {} /\ Goto(t, "addnew", _newSockets[t])
     \/ _newSockets[t] = {} /\ Goto(t, "update", _Sockets[t])
  /\ UNCHANGED <<client, hungup, held, io, sockets, _connections, _Sockets, _newSockets, _stopped, joined>>

Kept(s) == IF IsOpen(s) THEN {s} ELSE {}
AddNewSocket(t, s) ==
  /\ pc[t] = "addnew" /\ s \in todo[t]
  /\ \/ ~IsOpen(s) /\ Remove(t, s)
     \/ IsOpen(s) /\ UNCHANGED <<session, _connections>>
  /\ _Sockets' = [_Sockets EXCEPT ![t] = @ \cup Kept(s)]
  /\ Goto(t, "addnew", todo[t] \ {s})
  /\ UNCHANGED <<client, hungup, held, io, _closed, reading, _newSockets, _stopped, joined>>

\* _newSockets.clear(), and the lock is given back.
ClearNothing(t) == {s \in _newSockets[t] : ~IsOpen(s)}  \* mutant: only the sockets kept
Clear(t) == {}
AddedNewSockets(t) ==
  /\ pc[t] = "addnew" /\ todo[t] = {}
  /\ _newSockets' = [_newSockets EXCEPT ![t] = Clear(t)]
  /\ Goto(t, "update", _Sockets[t])
  /\ UNCHANGED <<client, hungup, held, io, sockets, _connections, _Sockets, _stopped, joined>>

\* One socket's Update: it stays, or has been closed and is removed.
Keep(t, s) ==
  /\ pc[t] = "update" /\ s \in todo[t] /\ IsOpen(s)
  /\ Goto(t, "update", todo[t] \ {s})
  /\ UNCHANGED <<client, hungup, held, io, sockets, _connections, _Sockets, _newSockets, _stopped, joined>>

Drop(t, s) ==
  /\ pc[t] = "update" /\ s \in todo[t] /\ ~IsOpen(s)
  /\ Remove(t, s)
  /\ _Sockets' = [_Sockets EXCEPT ![t] = @ \ {s}]
  /\ Goto(t, "update", todo[t] \ {s})
  /\ UNCHANGED <<client, hungup, held, io, _closed, reading, _newSockets, _stopped, joined>>

Updated(t) ==
  /\ pc[t] = "update" /\ todo[t] = {}
  /\ Goto(t, "top", {})
  /\ UNCHANGED <<client, hungup, held, io, sockets, _connections, _Sockets, _newSockets, _stopped, joined>>

Exit(t) ==
  /\ pc[t] = "top" /\ ~GoesOn(t)
  /\ Goto(t, "exited", {})
  /\ UNCHANGED <<client, hungup, held, io, sockets, _connections, _Sockets, _newSockets, _stopped, joined>>

-----------------------------------------------------------------------------
(* StopNetwork stops every thread, and then waits for one after the other.   *)
(* The io_service goes on.                                                   *)

StopNetwork ==
  /\ joined = -1
  /\ _stopped' = TRUE /\ joined' = 0
  /\ UNCHANGED <<client, hungup, held, io, sockets, network>>

Wait ==
  /\ joined \in Threads /\ pc[joined] = "exited"
  /\ joined' = joined + 1
  /\ UNCHANGED <<client, hungup, held, io, sockets, network, _stopped>>

-----------------------------------------------------------------------------
AcceptHandler == \/ OptionFails \/ SetOptions \/ CompareCounts \/ ConstructThrows
                 \/ StartSocket \/ AddSocket

Run(t) == \/ WakeUp(t) \/ AddedNewSockets(t) \/ Updated(t) \/ Exit(t)
          \/ \E s \in Connections : AddNewSocket(t, s) \/ Keep(t, s) \/ Drop(t, s)

Next == \/ \E s \in Connections : Connect(s) \/ HangUp(s) \/ Accept(s) \/ ReadFails(s)
        \/ AcceptHandler \/ StopNetwork \/ Wait
        \/ \E t \in Threads : Run(t)

Spec == Init /\ [][Next]_vars

\* The threads go on, and the io_service runs the handlers that are ready.  No
\* client is forced to do anything, and nobody to stop the network.
FairSpec ==
  /\ Spec
  /\ WF_vars(AcceptHandler) /\ WF_vars(Wait)
  /\ \A s \in Connections : WF_vars(Accept(s)) /\ WF_vars(ReadFails(s))
  /\ \A t \in Threads : WF_vars(Run(t))

-----------------------------------------------------------------------------
(* Properties.                                                               *)

TypeOK ==
  /\ client \in [Connections -> {"away", "backlog", "accepted"}]
  /\ hungup \subseteq Connections
  /\ held \in Connections \cup {NoSocket}
  /\ step \in {"idle", "options", "count", "add"}
  /\ sock \in Connections \cup {NoSocket}
  /\ i \in 0 .. ThreadCount /\ min \in Threads
  /\ _closed \subseteq Connections /\ reading \subseteq Connections
  /\ session \in [Connections -> {"none", "open", "over"}]
  /\ _connections \in [Threads -> Nat]
  /\ _stopped \in BOOLEAN
  /\ _Sockets \in [Threads -> SUBSET Connections]
  /\ _newSockets \in [Threads -> SUBSET Connections]
  /\ pc \in [Threads -> {"top", "addnew", "update", "exited"}]
  /\ todo \in [Threads -> SUBSET Connections]
  /\ joined \in -1 .. ThreadCount

\* The sockets whose session a thread has yet to end.
Served(t) == {s \in _Sockets[t] \cup _newSockets[t] : session[s] = "open"}

\* The count by which new connections are spread is the number of sessions that
\* are the thread's, however the io_service adds sockets and closes them while
\* the thread walks over its sets.
CountsSessions == \A t \in Threads : _connections[t] = Cardinality(Served(t))

\* An open session is the business of exactly one thread, and what a thread
\* holds is an open session, up to the new sockets it has just found closed.
OneThreadEach ==
  /\ \A s \in Connections : session[s] = "open" =>
       \E t \in Threads : s \in Served(t) /\ \A u \in Threads \ {t} : s \notin _Sockets[u] \cup _newSockets[u]
  /\ \A t \in Threads : \A s \in _Sockets[t] \cup _newSockets[t] :
       session[s] # "open" => session[s] = "over" /\ pc[t] = "addnew" /\ s \notin todo[t]

\* No read handler runs before OnOpen or after OnClose, although Start asks for
\* the first read before AddSocket, and another thread ends the session.
ReadsInSession == step = "idle" => \A s \in reading : session[s] = "open"

\* As long as no session has ended, the threads' counts are within one of each
\* other, a connection that is being added included.
Balanced ==
  (\A s \in Connections : session[s] # "over")
    => \A t, u \in Threads : _connections[t] <= _connections[u] + 1

\* A client that hangs up has its session ended, until the network is stopped:
\* the chain of reads never breaks, and a closed socket is found by its thread.
HangUpIsNoticed ==
  \A s \in Connections : session[s] = "open" /\ s \in hungup ~> session[s] = "over" \/ _stopped

\* StopNetwork, "It will wait for all running threads", returns, with or
\* without open sessions and while new connections come in.
StopReturns == joined = 0 ~> joined = ThreadCount

\* A client that connects gets its session, unless it has hung up first or an
\* earlier connection's options have failed, after which nobody does any more.
ConnectsUnlessHeld ==
  \A s \in Connections : client[s] = "backlog" ~> session[s] # "none" \/ s \in hungup \/ held # NoSocket
=============================================================================
