---------------------------- MODULE DatabasePool ----------------------------
(***************************************************************************)
(* The MySQL connection pool of DragonFiesta.Shared: class DatabaseManager *)
(* and the DatabaseClients it owns.                                        *)
(*                                                                         *)
(* Threads call runCommand/RunQuery.  Each call takes a client with        *)
(* GetClient, which holds mMutex, runs its query without any lock, and     *)
(* gives the client back by writing its State.  UpdateClients, the         *)
(* callback of the pool's own Task, walks over the same slots every five   *)
(* seconds and closes connections WITHOUT taking mMutex; here it is the    *)
(* monitor.  One action is one access to shared memory, or one call into   *)
(* the MySQL library, together with the thread-local work after it.        *)
(***************************************************************************)
EXTENDS Integers, FiniteSets

CONSTANTS
  Threads,      \* the threads that run queries
  Clients,      \* DatabaseClient objects the heap can hold at a time
  MinPoolSize,  \* Database::GetMinPoolSize
  MaxPoolSize,  \* Database::GetMaxPoolSize: the number of slots
  MaxCalls,     \* bound: queries the threads run between them
  Outside,      \* what the world around the pool may do, a subset of Events
  NoThread, NoClient

Events == {"connect_fails", "query_fails", "query_throws", "time_passes", "monitor_runs"}
Slots == 1 .. MaxPoolSize

\* Database's constructor refuses every other pair of sizes.
ASSUME SizeAssumption ==
  /\ MinPoolSize \in Nat \ {0} /\ MaxPoolSize \in Nat
  /\ MinPoolSize <= MaxPoolSize
  /\ MaxCalls \in Nat
ASSUME ValueAssumption ==
  NoThread \notin Threads /\ NoClient \notin Clients /\ Outside \subseteq Events

VARIABLES
  mClients,    \* slot -> the client it points to, or NoClient (nullptr)
  State,       \* client -> DatabaseClientState; Open and None are never stored
  connection,  \* client -> what connection_ points to
  stale,       \* the clients whose LastActive lies 60 s back or more
  mMutex,      \* the thread that holds mMutex
  pc,          \* thread -> the step it takes next
  at,          \* thread -> HandleID, the slot GetClient works on
  pClient,     \* thread -> the client its call runs on
  calls,       \* calls left to make
  mpc, mAt,    \* the monitor's next step and its slot
  target,      \* the client the monitor has passed to mysql_close
  fault,       \* the first undefined behaviour met; the program stops there
  happened,    \* history: the accidents that have happened so far
  sawFull,     \* history: threads that, since they asked, saw every slot in use
  lost         \* history: clients a call has left Busy for nobody

pool == <<mClients, State, connection, stale>>
monitor == <<mpc, mAt, target>>
history == <<happened, sawFull, lost>>
vars == <<pool, mMutex, pc, at, pClient, calls, monitor, fault, history>>

\* The steps of GetClient that run between mMutex.lock() and unlock().
Locked == {"create", "connect", "take", "scan", "destroy", "rebuild",
           "reconnect", "check"}
\* From the moment GetClient has let go of mMutex until State is written back.
Using == {"query", "running", "done", "failed"}
Steps == Locked \cup Using \cup {"idle", "lock", "return", "refused"}

-----------------------------------------------------------------------------
(* What the code reads.                                                      *)

\* Slot i holds a client.
Has(i) == mClients[i] # NoClient

\* GetConnectionCount.  The loop reads one State after the other; here it
\* reads them all at once.
ConnectionCount == Cardinality({i \in Slots : Has(i) /\ State[mClients[i]] # "Closed"})

\* Neither in a slot, nor held by a thread or by the monitor: free memory.
FreshClients ==
  Clients \ ({mClients[i] : i \in Slots} \cup {pClient[t] : t \in Threads}
             \cup {target})

\* A thread uses client c: it has been handed out to it and is not back yet.
Uses(t, c) == \/ pc[t] = "return" /\ mClients[at[t]] = c
              \/ pc[t] \in Using /\ pClient[t] = c

\* The client t uses came from slot i.
HasSlot(t, i) == at[t] = i /\ pc[t] \in {"return"} \cup Using

\* The monitor has made up its mind to close the client of slot mAt.
Closing == mpc \in {"close", "closed"}

-----------------------------------------------------------------------------
(* History: what the properties need to know of the past.                    *)

\* The monitor is closing a client that a thread uses or GetClient works on.
Overlap ==
  /\ Closing
  /\ \/ State[mClients[mAt]] = "Busy" /\ mClients[mAt] \notin lost
     \/ \E t \in Threads : at[t] = mAt /\ pc[t] \in Locked \ {"scan"}

\* The monitor is about to close a client that is Closed already.
Reclosing == mpc = "close" /\ State[mClients[mAt]] = "Closed"

Accidents == {"raced", "reclosed", "rebuilt", "query_failed", "connect_threw"}

Occurs(accident) ==
  \/ accident = "raced" /\ Overlap'
  \/ accident = "reclosed" /\ Reclosing'
  \/ accident = "rebuilt" /\ \E t \in Threads : pc[t] = "check" /\ pc'[t] = "return"
  \/ accident = "query_failed" /\ \E t \in Threads : pc'[t] = "failed"
  \/ accident = "connect_threw" /\ \E t \in Threads : pc[t] \in Locked /\ pc'[t] = "idle"

\* Thread t waits in GetClient for a client.
Asks(t) == pc[t] = "lock" \/ pc[t] \in Locked
\* The slots whose client is Busy for nobody, and with them the pool is full.
LostSlots == {i \in Slots : mClients[i] \in lost}
Full == \A i \in Slots : i \in LostSlots \/ \E t \in Threads : HasSlot(t, i)

\* The call of a thread ends in the middle of a query on c.
Drops(t, c) == pc[t] = "running" /\ pc'[t] = "idle" /\ pClient[t] = c

History ==
  /\ lost' = {c \in Clients :
       State'[c] = "Busy" /\ (c \in lost \/ \E t \in Threads : Drops(t, c))}
  /\ happened' = happened \cup {a \in Accidents : Occurs(a)}
  /\ sawFull' = {t \in Threads : Asks(t)' /\ (t \in sawFull \/ Full')}

\* What an action leaves alone.  Every action ends with it: none is taken after
\* undefined behaviour, and each keeps the history.
Keeping(v) == fault = "none" /\ UNCHANGED v /\ History

-----------------------------------------------------------------------------
Init ==
  /\ mClients = [i \in Slots |-> NoClient]
  /\ State = [c \in Clients |-> "Closed"]
  /\ connection = [c \in Clients |-> "unset"]
  /\ stale = {}
  /\ mMutex = NoThread
  /\ pc = [t \in Threads |-> "idle"]
  /\ at = [t \in Threads |-> 1]
  /\ pClient = [t \in Threads |-> NoClient]
  /\ calls = MaxCalls
  /\ mpc = "test" /\ mAt = 1 /\ target = NoClient
  /\ fault = "none"
  /\ happened = {} /\ sawFull = {} /\ lost = {}

Goto(t, step) == pc' = [pc EXCEPT ![t] = step]

\* mysql_close(connection_): freeing a handle that is not open, or that another
\* thread has a query on, is undefined.
MysqlClose(c) ==
  /\ connection' = [connection EXCEPT ![c] = "freed"]
  /\ fault' = IF connection[c] # "open" THEN "handle_freed_twice"
              ELSE IF \E t \in Threads : pc[t] = "running" /\ pClient[t] = c
              THEN "handle_freed_in_use" ELSE "none"

-----------------------------------------------------------------------------
(* runCommand and RunQuery up to GetClient's lock.                           *)

\* A thread starts a call.
Call(t) ==
  /\ pc[t] = "idle" /\ calls > 0
  /\ Goto(t, "lock")
  /\ calls' = calls - 1
  /\ Keeping(<<pool, mMutex, at, pClient, monitor, fault>>)

\* mMutex.lock()
AcquireUnguarded(t) == mMutex' = t  \* mutant: the lock is not waited for
Acquire(t) == mMutex = NoThread /\ mMutex' = t

\* GetClient up to its loop: the lock, the connection count, and the choice
\* between filling the first empty slot and scanning.  Without an empty slot
\* std::find returns end(), and mClients[HandleID] lies past the vector's end.
Lock(t) ==
  /\ pc[t] = "lock"
  /\ Acquire(t)
  /\ IF MinPoolSize > ConnectionCount
     THEN IF \A i \in Slots : Has(i)
          THEN fault' = "slot_past_the_end" /\ UNCHANGED <<pc, at>>
          ELSE /\ Goto(t, "create")
               /\ \E i \in Slots :
                    /\ ~Has(i) /\ \A j \in 1 .. i - 1 : Has(j)
                    /\ at' = [at EXCEPT ![t] = i]
               /\ UNCHANGED fault
     ELSE /\ Goto(t, "scan")
          /\ at' = [at EXCEPT ![t] = 1]
          /\ UNCHANGED fault
  /\ Keeping(<<pool, pClient, calls, monitor>>)

-----------------------------------------------------------------------------
(* GetClient's loop over the slots.                                          *)

\* What the loop does next with a client in State s.
CaseOfReuse(s) == IF s = "Closed" THEN "take" ELSE  \* mutant: reused as it is
  IF s = "Busy" THEN "scan" ELSE IF s = "Idle" THEN "take" ELSE "destroy"
CaseOfFallThrough(s) ==  \* mutant: case Busy has no continue
  IF s \in {"Busy", "Idle"} THEN "take" ELSE IF s = "Broken" THEN "destroy" ELSE "connect"
CaseOf(s) == IF s = "Busy" THEN "scan" ELSE IF s = "Idle" THEN "take"
             ELSE IF s = "Broken" THEN "destroy" ELSE "connect"

InLoopShort(t) == at[t] < MaxPoolSize  \* mutant: the last slot is left out
InLoop(t) == at[t] \in Slots

Scan(t) ==
  /\ pc[t] = "scan" /\ InLoop(t)
  /\ LET c == mClients[at[t]]
         next == IF c = NoClient THEN "create" ELSE CaseOf(State[c])
     IN  /\ Goto(t, next)
         /\ at' = [at EXCEPT ![t] = IF next = "scan" THEN @ + 1 ELSE @]
  /\ Keeping(<<pool, mMutex, pClient, calls, monitor, fault>>)

\* The loop ran off the end: unlock and return nullptr.
ScanEnds(t) ==
  /\ pc[t] = "scan" /\ ~InLoop(t)
  /\ Goto(t, "refused")
  /\ mMutex' = NoThread
  /\ Keeping(<<pool, at, pClient, calls, monitor, fault>>)

\* case Broken: Destroy closes the connection ...
DestroyForgets(t) ==  \* mutant: like ~DatabaseClient, whose mysql_close is commented out
  /\ pc[t] = "destroy"
  /\ Goto(t, "rebuild")
  /\ Keeping(<<pool, mMutex, at, pClient, calls, monitor, fault>>)
Destroy(t) ==
  /\ pc[t] = "destroy"
  /\ MysqlClose(mClients[at[t]])
  /\ Goto(t, "rebuild")
  /\ Keeping(<<mClients, State, stale, mMutex, at, pClient, calls, monitor>>)

\* ... and make_shared puts a new client, Closed, into the slot.  The old one is
\* left Closed; its connection_, now null, is not reached through a slot again.
Create(t) ==
  /\ pc[t] \in {"create", "rebuild"}
  /\ \E c \in FreshClients :
       /\ mClients' = [mClients EXCEPT ![at[t]] = c]
       /\ State' = [d \in Clients |-> IF d \in {c, mClients[at[t]]} THEN "Closed" ELSE State[d]]
       /\ connection' = [connection EXCEPT ![c] = "unset"]
       /\ stale' = stale \ {c}
  /\ Goto(t, IF pc[t] = "create" THEN "connect" ELSE "reconnect")
  /\ Keeping(<<mMutex, at, pClient, calls, monitor, fault>>)

\* DatabaseClient::Connect succeeds.
Connect(t) ==
  /\ pc[t] \in {"connect", "reconnect"}
  /\ LET c == mClients[at[t]] IN
       /\ connection' = [connection EXCEPT ![c] = "open"]
       /\ State' = [State EXCEPT ![c] = "Idle"]
  /\ Goto(t, IF pc[t] = "connect" THEN "take" ELSE "check")
  /\ Keeping(<<mClients, stale, mMutex, at, pClient, calls, monitor, fault>>)

\* Connect frees its handle and throws.  GetClient is called outside the try
\* block of runCommand, and nothing on the way unlocks mMutex.
LockAfterThrowGuarded(t) == NoThread  \* mutant: a lock_guard holds the mutex
LockAfterThrow(t) == t
ConnectThrows(t) ==
  /\ pc[t] \in {"connect", "reconnect"} /\ "connect_fails" \in Outside
  /\ connection' = [connection EXCEPT ![mClients[at[t]]] = "freed"]
  /\ mMutex' = LockAfterThrow(t)
  /\ Goto(t, "idle")
  /\ Keeping(<<mClients, State, stale, at, pClient, calls, monitor, fault>>)

\* Unlock and leave GetClient with the client of slot at[t].
HandOutLocked(t) == Goto(t, "return") /\ UNCHANGED mMutex  \* mutant: no unlock
HandOut(t) == Goto(t, "return") /\ mMutex' = NoThread

\* UpdateLastActivity and State = Busy, then unlock.
Take(t) ==
  /\ pc[t] = "take"
  /\ LET c == mClients[at[t]] IN
       /\ State' = [State EXCEPT ![c] = "Busy"]
       /\ stale' = stale \ {c}
  /\ HandOut(t)
  /\ Keeping(<<mClients, connection, at, pClient, calls, monitor, fault>>)

\* The end of case Broken: a client that is Idle is returned as it is, without
\* being marked Busy; otherwise the loop goes on.
Check(t) ==
  /\ pc[t] = "check"
  /\ \/ /\ State[mClients[at[t]]] = "Idle"
        /\ HandOut(t)
        /\ UNCHANGED at
     \/ /\ State[mClients[at[t]]] # "Idle"
        /\ Goto(t, "scan")
        /\ at' = [at EXCEPT ![t] = @ + 1]
        /\ UNCHANGED mMutex
  /\ Keeping(<<pool, pClient, calls, monitor, fault>>)

\* return mClients[HandleID]: the slot is read again, after the unlock.
Return(t) ==
  /\ pc[t] = "return"
  /\ pClient' = [pClient EXCEPT ![t] = mClients[at[t]]]
  /\ Goto(t, "query")
  /\ Keeping(<<pool, mMutex, at, calls, monitor, fault>>)

-----------------------------------------------------------------------------
(* The query itself and what runCommand does after it.                       *)

\* A MYSQL handle must be open and used by one thread at a time.
QueryStart(t) ==
  /\ pc[t] = "query"
  /\ Goto(t, "running")
  /\ fault' = IF connection[pClient[t]] # "open" THEN "query_on_a_freed_handle"
              ELSE IF \E s \in Threads : pc[s] = "running" /\ pClient[s] = pClient[t]
              THEN "handle_shared" ELSE "none"
  /\ Keeping(<<pool, mMutex, at, pClient, calls, monitor>>)

QueryEnd(t) ==
  /\ pc[t] = "running"
  /\ \/ Goto(t, "done")
     \/ "query_fails" \in Outside /\ Goto(t, "failed")
  /\ Keeping(<<pool, mMutex, at, pClient, calls, monitor, fault>>)

\* An exception that is no MySqlException, such as the bad_lexical_cast of a
\* result's column, passes the catch block: nobody writes State.
QueryThrows(t) ==
  /\ pc[t] = "running" /\ "query_throws" \in Outside
  /\ pClient' = [pClient EXCEPT ![t] = NoClient]
  /\ Goto(t, "idle")
  /\ Keeping(<<pool, mMutex, at, calls, monitor, fault>>)

\* State = Idle after the query, State = Broken in catch (MySqlException).
StateAfterUncaught(step) == IF step = "done" THEN "Idle" ELSE "Busy"  \* mutant: no catch
StateAfter(step) == IF step = "done" THEN "Idle" ELSE "Broken"
GiveBack(t) ==
  /\ pc[t] \in {"done", "failed"}
  /\ State' = [State EXCEPT ![pClient[t]] = StateAfter(pc[t])]
  /\ pClient' = [pClient EXCEPT ![t] = NoClient]
  /\ Goto(t, "idle")
  /\ Keeping(<<mClients, connection, stale, mMutex, at, calls, monitor, fault>>)

\* pClient is nullptr: the call logs an error and returns -1.
Refused(t) ==
  /\ pc[t] = "refused"
  /\ Goto(t, "idle")
  /\ Keeping(<<pool, mMutex, at, pClient, calls, monitor, fault>>)

-----------------------------------------------------------------------------
(* UpdateClients, the monitor.                                               *)

callers == <<mClients, mMutex, pc, at, pClient, calls>>

\* for (i = 0; ...): after the last slot the next pass starts, five seconds on.
NextSlotUnwrapped == mAt' = mAt + 1  \* mutant: the pass does not restart
NextSlot == mAt' = IF mAt = MaxPoolSize THEN 1 ELSE mAt + 1

\* The outer test, on a slot that is not nullptr: go on with it, or pass.
Inspects(i) ==
  Has(i) /\ (State[mClients[i]] \in {"Idle", "Broken"} \/ mClients[i] \in stale)
MonitorTest ==
  /\ mpc = "test" /\ "monitor_runs" \in Outside
  /\ Inspects(mAt)
  /\ mpc' = "decide"
  /\ Keeping(<<State, connection, stale, mAt, target, fault, callers>>)

MonitorPass ==
  /\ mpc = "test" /\ "monitor_runs" \in Outside
  /\ ~Inspects(mAt)
  /\ NextSlot
  /\ Keeping(<<State, connection, stale, mpc, target, fault, callers>>)

\* The inner test: disconnect, or renew the client's lifetime.
DispensableAtMinimum(c) ==  \* mutant: >= for >
  State[c] = "Broken" \/ ConnectionCount >= MinPoolSize
Dispensable(c) == State[c] = "Broken" \/ ConnectionCount > MinPoolSize
MonitorDecide ==
  /\ mpc = "decide"
  /\ Dispensable(mClients[mAt])
  /\ mpc' = "close"
  /\ Keeping(<<State, connection, stale, mAt, target, fault, callers>>)

MonitorRenew ==
  /\ mpc = "decide"
  /\ ~Dispensable(mClients[mAt])
  /\ stale' = stale \ {mClients[mAt]}
  /\ mpc' = "test"
  /\ NextSlot
  /\ Keeping(<<State, connection, target, fault, callers>>)

\* ClientDisconnecting: mysql_close, and later State = Closed.
MonitorClose ==
  /\ mpc = "close"
  /\ target' = mClients[mAt]
  /\ MysqlClose(mClients[mAt])
  /\ mpc' = "closed"
  /\ Keeping(<<State, stale, mAt, callers>>)

MonitorClosed ==
  /\ mpc = "closed"
  /\ State' = [State EXCEPT ![target] = "Closed"]
  /\ target' = NoClient
  /\ mpc' = "test"
  /\ NextSlot
  /\ Keeping(<<connection, stale, fault, callers>>)

\* Sixty seconds pass since the client's last UpdateLastActivity.
Ages(i) ==
  /\ "time_passes" \in Outside
  /\ Has(i) /\ mClients[i] \notin stale
  /\ stale' = stale \cup {mClients[i]}
  /\ Keeping(<<State, connection, monitor, fault, callers>>)

-----------------------------------------------------------------------------
CallerStep(t) ==
  \/ Lock(t) \/ Scan(t) \/ ScanEnds(t) \/ Destroy(t) \/ Create(t)
  \/ Connect(t) \/ ConnectThrows(t) \/ Take(t) \/ Check(t) \/ Return(t)
  \/ QueryStart(t) \/ GiveBack(t) \/ Refused(t)

MonitorStep == \/ MonitorTest \/ MonitorPass \/ MonitorDecide \/ MonitorRenew
               \/ MonitorClose \/ MonitorClosed

Next == \/ \E t \in Threads : Call(t) \/ CallerStep(t) \/ QueryEnd(t) \/ QueryThrows(t)
        \/ MonitorStep
        \/ \E i \in Slots : Ages(i)

Spec == Init /\ [][Next]_vars

\* A thread inside a call keeps running.  Calls are not forced to start, MySQL
\* is not forced to answer a query, and neither is the monitor forced to run.
FairSpec == Spec /\ \A t \in Threads : WF_vars(CallerStep(t))

-----------------------------------------------------------------------------
(* Properties.                                                               *)

\* The variables of the program have their types ...
MemoryOK ==
  /\ mClients \in [Slots -> Clients \cup {NoClient}]
  /\ State \in [Clients -> {"Closed", "Idle", "Busy", "Broken"}]
  /\ connection \in [Clients -> {"unset", "open", "freed"}]
  /\ stale \subseteq Clients
  /\ mMutex \in Threads \cup {NoThread}
  /\ pc \in [Threads -> Steps]
  /\ at \in [Threads -> 1 .. MaxPoolSize + 1]
  /\ pClient \in [Threads -> Clients \cup {NoClient}]
  /\ calls \in 0 .. MaxCalls
  /\ mpc \in {"test", "decide", "close", "closed"}
  /\ mAt \in Slots
  /\ target \in Clients \cup {NoClient}
  /\ fault \in {"none", "slot_past_the_end", "handle_freed_twice",
                "handle_freed_in_use", "query_on_a_freed_handle", "handle_shared"}

\* ... and so has the history: no client is dereferenced that is not there, and
\* no slot is left behind, by any interleaving of the threads and the monitor.
TypeOK ==
  /\ MemoryOK
  /\ happened \subseteq Accidents /\ sawFull \subseteq Threads
  /\ \A c \in lost : c \in Clients /\ State[c] = "Busy"

NoAccident == happened \cap {"raced", "reclosed", "rebuilt"} = {}

\* No two threads ever use one client, unless the monitor closed a client in
\* use (raced), closed one twice (reclosed), or GetClient handed out a rebuilt
\* one (rebuilt): the State protocol works although clients are given back, and
\* idle or broken ones closed, without the mutex.
ExclusiveUse ==
  NoAccident => \A s, t \in Threads, c \in Clients : Uses(s, c) /\ Uses(t, c) => s = t

\* MySQL handles are never misused unless one of these accidents came first.
HandlesSafe == fault \notin {"none", "slot_past_the_end"} => ~NoAccident

\* GetClient writes past the end of mClients only after a query has failed or
\* the monitor has raced: otherwise the connections never drop below
\* MinPoolSize once the slots are filled.
SlotInBounds ==
  fault = "slot_past_the_end" => happened \cap {"raced", "query_failed"} # {}

\* No connection is lost: one that is open belongs to a client in a slot, so
\* MySQL never serves more than MaxPoolSize connections of one pool.
ConnectionsPooled ==
  \A c \in Clients : connection[c] = "open" => \E i \in Slots : mClients[i] = c

\* A client that is marked Busy in its slot is in use by some thread, which will
\* give it back; only an exception that passes runCommand's catch block leaves it
\* Busy for nobody.
BusyHasUser ==
  \A i \in Slots : Has(i) /\ State[mClients[i]] = "Busy" =>
    i \in LostSlots \/ \E t \in Threads : Uses(t, mClients[i])

\* No call ever gets such a client, and none repairs it: its slot is lost until
\* the monitor closes the connection.
LostUntilClosed ==
  [][\A c \in lost : NoAccident' =>
       /\ ~\E t \in Threads : Uses(t, c)
       /\ c \notin lost' => MonitorClosed /\ target = c]_vars

\* GetClient is about to return nullptr only if, at some moment of the call,
\* every slot was taken: clients given back behind or ahead of the scan, or
\* closed by the monitor meanwhile, never make it miss a slot that stayed free.
RefusedOnlyWhenFull ==
  NoAccident => \A t \in Threads : pc[t] = "scan" /\ ~InLoop(t) => t \in sawFull

\* mMutex is released on every way out of GetClient but one: a connect that
\* throws.  Then nobody is inside, and nobody will be.
LockReleased ==
  mMutex # NoThread /\ pc[mMutex] \notin Locked /\ fault = "none" =>
    /\ "connect_threw" \in happened
    /\ \A t \in Threads : pc[t] \notin Locked

\* Once a connect has thrown, the pool never answers another call.
ThrowWedgesPool ==
  [][\A t \in Threads : "connect_threw" \in happened /\ pc[t] \in {"idle", "lock"}
       => pc'[t] \in {"idle", "lock"}]_vars

\* Unless queries have failed or it has raced with a user, the monitor never
\* takes the pool below MinPoolSize connections, even though it counts them
\* without the lock.
MonitorKeepsMinimum ==
  [][MonitorClosed /\ happened \cap {"raced", "query_failed"} = {}
       => ConnectionCount' >= MinPoolSize]_vars

\* The comment on UpdateClients' test: it closes "by nothing activity", so never
\* a client in use that has been active within the last sixty seconds.
ClosesOnlyInactive ==
  [][mpc = "decide" /\ mpc' = "close" /\ State[mClients[mAt]] = "Busy"
       => mClients[mAt] \in stale]_vars

\* The same comment speaks of a connection: a client that is Closed, and on which
\* GetClient does not work, has none, so the monitor never closes it again.
ClosesConnections ==
  Reclosing => \E t \in Threads : at[t] = mAt /\ pc[t] \in Locked

\* The comment on GetClient's case Busy: a client in use is passed over for the
\* next one, so that no client is handed to a second thread.
BusyIsPassedOver ==
  \A s, t \in Threads, c \in Clients : Uses(s, c) /\ Uses(t, c) => s = t

\* Every call is answered, with a client or with nullptr, whatever the other
\* threads, their queries and the monitor do, unless a connect throws.
EveryCallAnswered ==
  \A t \in Threads : pc[t] = "lock" ~>
    \/ pc[t] \in {"query", "refused"}
    \/ fault # "none"
    \/ "connect_threw" \in happened

-----------------------------------------------------------------------------
\* The pool as an allocator of its slots.
Allocator == INSTANCE ClientAllocator WITH
  Places  <- Slots,
  holder  <- [i \in Slots |-> IF \E t \in Threads : HasSlot(t, i)
                              THEN CHOOSE t \in Threads : HasSlot(t, i) ELSE NoThread],
  gone    <- LostSlots,
  asking  <- {t \in Threads : Asks(t)},
  refused <- {t \in Threads : pc[t] = "refused"},
  metFull <- sawFull,
  wedged  <- "connect_threw" \in happened

\* A pool of fixed size (MinPoolSize = MaxPoolSize) whose queries end or throw
\* past the catch block keeps the allocator's promise, whatever the monitor does.
KeepsPromise == Allocator!Spec

=============================================================================
