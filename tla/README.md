# DragonFiesta in TLA+

DragonFiesta is a C++11 emulator of the Fiesta Online servers: a LoginServer, a
WorldServer and a ZoneServer over one library, DragonFiesta.Shared.  Most of the
servers' own logic is still to come; what exists, and what everything to come
will stand on, is the shared infrastructure: the database connection pool, the
task manager, and the network threads.  That is what these modules model.  Paths
below are relative to the repository's `src/` directory; `Shared` stands for
`DragonFiesta.Shared`.

## 1. The system

### Components

| component | source | state it keeps | operations |
|---|---|---|---|
| Database connection pool | `Shared/Database/DatabaseManager.*`, `DatabaseClient.*` | `mClients` (slots of `DatabaseClient`s, each with `State`, `connection_`, `LastActive`), `mMutex` | `GetClient`, `runCommand`/`RunQuery`, `UpdateClients` |
| Task manager and shutdown | `Shared/Task/*`, `*/Event/ShutdownEvent.cpp`, `*/Server.cpp` | `mTasks`, `mMutex`, `mFinish`, each task's `Last_Execute` and `Add_Time`; `m_stopEvent` | `AddTask`, `Executor`, `RemoveTask`, `Stop`; `ShutdownInit`, `Shutdown` |
| Network threads and acceptor | `Shared/Networking/AsyncAcceptor.h`, `SocketMgr.h`, `networkThread.h`; `LoginSocketMgr.cpp` | `_socket` of the acceptor; per thread `_connections`, `_newSockets`, `_Sockets`, `_stopped` | accept handler, `OnSocketOpen`, `AddSocket`, `AddNewSockets`, `Run`, `StopNetwork` |
| Socket write path | `Shared/Networking/Socket.h` | `_writeQueue`, `_writeBuffer`, `_isWritingAsync`, `_closed`, `_closing` | `QueuePacket`, `Update`, `WriteHandler`, `HandleQueue`, `DelayedCloseSocket` |
| Inter-server framing | `InterNetwork/InterSocket.cpp`, `MessageBuffer.h` | read, header and packet buffers with their positions | `ReadHandler` |
| Game sockets, handler store | `GameNetwork/FiestaSocket.cpp`, `Handler/*` | `HandShaked`, handler map | `OnOpen`, `ReadHandler`, `AddHandler`, `GetHandler` |
| Packet streams | `Networking/Packet/*` | `StreamPos`, `_storage` | `Read`, `Read_skip`, `ReadString`, `Write` |
| Stream cipher | `Cryptography/FiestaCryptoProvider.cpp` | `XorPos` | `Crypt` |
| Client manager, secure collections | `ClientManager.h`, `Util/Secure*.hpp` | a map or vector and its mutex | `TryAdd`, `Remove`, the finders |
| Configuration | `IO/ini_file.cpp`, `Config/*` | sections and parameters | `operator>>`, `Read` |
| Server start-up | `*/Server.cpp` | configurations, singletons | `Start`, `StartMaintenance`, `LoadConfigs` |
| Prepared statements, binders | `Database/MySqlPreparedStatement.*`, `*Binder.*` | buffers of one statement, its `MYSQL_BIND`s | `runCommand`, `runQuery`, `setResults`, `refetchTruncatedColumns` |
| Crash handler | `Debugging/CrashHandler.cpp` | `outsStream`, the log | `Start`, `crit_err_hdlr` |
| Timers and dates | `Task/Timer.h`, `Util/DateTime.*` | the fields of one timer; one `tm` of the whole program | `Update`, `Reset`, `TUpdate`; `ToFiestaTime` |
| Logging | `Log/*` | level of each tag | `LogMSG`, `Initialize` |
| Console, other utilities, game data | the rest | - | - |

### How they interact

* The LoginServer's main thread runs `Server::Start` and then the `io_service`,
  the only thread that does: it accepts connections and runs every read handler.
* `TaskManager`'s executors, as many as there are CPUs, run every `Task`.
  `DatabaseManager` is itself a `Task` (`Database/DB.cpp` adds it): its callback
  `UpdateClients` therefore runs on an executor, one call at a time and never
  overlapping itself (that is what `KeepsSchedule` of the task manager gives the
  pool), but concurrently with every thread that runs queries.
* Each network thread owns the sockets handed to it by `OnSocketOpen`, and calls
  `OnOpen` and `OnClose` at the two ends of a session, the first on the thread of
  the `io_service` and the second on its own.
* The shutdown is a `TimerTask` whose `OnLeave`, called by an executor under the
  task manager's own lock, calls back into `TaskManager::Stop` and then exits.

### What is hard, and what makes each part correct

* Pool: two protocols on one memory.  `GetClient` holds `mMutex`; callers give
  clients back, and the monitor closes them, without it.  Correct: one user per
  client, no handle closed in use or twice, no connection lost, no client lost but
  by an exception nobody catches, the pool between its bounds, a refusal only when
  it was full, every call answered.
* Task manager: executors walk a `std::map` without the lock while others change
  it under the lock.  Correct: one task at a time, an interval between its runs,
  none after its lifetime, no task starved, a shutdown that ends.
* Network: three kinds of threads move a socket between four sets and count it.
  Correct: a session belongs to one thread, which counts it once; it is opened
  once and closed once, with all reads in between; a hang-up ends it; stopping
  the network ends.
* Write path: a message is sent whole, once and in order although a write may be
  partial, would block, or come from two threads; a delayed close loses nothing.
* Framing: packets come out as they went in, however the stream is cut.
* Statements: a row is handed out as it was fetched, although the buffers move.
* Start-up: what has started works with what its files say, and what has failed
  has shown why and left as little running as it can.
* Crash report: complete, and never waiting for a lock that nobody will free.
* Streams, ini files, timers, dates: agree with a reference, up to what their
  fields can hold.

`PROJECT.json` lists the hazards line by line with the properties that cover
them, and the components that are not modelled with the reason.

## 2. The modules

| module | models | against |
|---|---|---|
| `DatabasePool` | the pool with its callers and its monitor | `ClientAllocator`, an allocator of places |
| `DatabasePoolProofs` | proofs about `DatabasePool`, and that it implements its abstraction | `ClientAllocator` |
| `TaskManager` | executors, tasks, shutdown | `TaskSchedule`, a single-threaded schedule |
| `TaskManagerProofs` | the proof that `TaskManager` implements its abstraction | `TaskSchedule` |
| `SocketMgr` | acceptor, `OnSocketOpen`, network threads, sessions | |
| `SocketMgrProofs` | proofs about `SocketMgr` | |
| `SocketState`, `SocketWriter` | the sending half of a socket | `ByteStream`, a stream of whole messages |
| `MessageBuffer` | a block of bytes with two positions | |
| `SocketReader` | the receiving half under `FiestaSocket` and `InterSocket` | the numbered bytes of the stream |
| `SocketProofs` | proofs about `SocketWriter` and `SocketReader`, and that the former implements its abstraction | `ByteStream` |
| `Statement` | one `runCommand` or `runQuery` | the rows that were fetched |
| `IniFile` | an ini file read and written | the lines of the file |
| `Startup` | `Start` of the three servers, configurations, the log's filter | |
| `PacketStreams` | a packet written and read | the numbered bytes written |
| `Collections` | map and vector under recursive mutexes | what was added |
| `Timers` | the timers of `Timer.h` | elapsed time |
| `DateTime` | dates that share one `tm` | a calendar |
| `CrashHandler` | the report of a SIGSEGV | |
| `BufferProofs` | proofs about `Statement` and `PacketStreams` | |
| `ServicesProofs` | proofs about `Startup`, `CrashHandler`, `Timers`, `DateTime` and `Collections` | |
| `IniFileProofs` | proofs about `IniFile` | |
| `NumberLemmas` | induction over the natural numbers, for the proofs of the others | |
| `MCDatabasePool`, `MCTaskManager`, `MCSocketMgr` | instances that are model-checked | |
| `MCMessages` | the two halves of a socket | |
| `MCServices` | `Statement` to `CrashHandler`, each on its own | |

### DatabasePool

One action is one access to shared memory, or one call into libmysqlclient, with
the thread-local work after it.  `pc[t]` walks through `runCommand` and
`GetClient`; `mpc` through `UpdateClients`.  Notes:

* Memory is sequentially consistent and a slot or a `State` is read and written
  in one piece.  `GetConnectionCount` reads all `State`s at once; `Take` writes
  `LastActive` and `State` together, under the mutex; what `Destroy` writes to a
  client that leaves its slot is part of `Create`, the next step.
* A connect that fails leaves `connection_` closed and not null: "freed".
* `Clients` bounds the objects that exist at a time, not those ever made: a
  client that nothing points to can be made again.  `MaxCalls` bounds the calls.
* `fault` is set by the first undefined behaviour, and the model stops there:
  nothing is claimed about what the program does after it.
* `happened` names accidents that cost the guarantees: `raced` (the monitor
  closes a client in use), `reclosed` (it closes one that is Closed), `rebuilt`
  (a rebuilt client is handed out Idle), and `query_failed`, `connect_threw`.
  The invariants say that nothing goes wrong before an accident; the violation
  runs show that each of the three can happen.
* Only a `MySqlException` is caught where a query runs (`DatabaseManager.hpp:99,131,162`,
  `DatabaseManager.cpp:258`).  The `bad_lexical_cast` of a result's column
  (`OutputBinder.hpp:261`) is none: `QueryThrows` ends the call and writes no `State`.
  The client stays Busy for nobody, and `lost` names it.  `BusyHasUser` and
  `LostUntilClosed` say that nothing else does this and that such a slot is
  gone until the monitor finds the client stale and closes it; in `ClientAllocator`
  it is the step `Drop`.
* The servers do not run queries yet: the callers are the API's, any thread at
  any time.  `DestroyClients` has no caller.  The performance counters are left
  out.

### TaskManager

Between `lock_guard` and the callback an executor's work is one action; so is a
callback's end with the write of `Last_Execute`.  The walk over the map is a key
per executor.  Erasing an entry leaves every iterator to it `dangling`, and what
the code then does with it is undefined: incrementing it finds the next entry in
the freed memory or crashes, dereferencing it crashes (`EnterErased` says why).
`Last_Execute` is uninitialized, so the first interval is any.  Clocks saturate at
the interval and one past the lifetime, the only values the code tells apart;
`getMSTime`'s wrap after 49 days is left out.  `ShutdownInit` may be called at any
time: the `signal_set` that should call it is a local of `Start` and gone when
signals come, and console commands are not implemented.  The model ends at
`std::exit`.  `AddTask`'s first access puts a null entry into the map before it
is filled; both happen under the lock, and the walk dereferences nothing without
it, so they are one step.

### SocketMgr

The thread of the `io_service` runs one handler at a time: `step` is where the
accept handler is.  Each round of the search for the least loaded thread reads
two counts in one step.  `AddNewSockets` holds `_newSocketsLock` from `WakeUp` to
`AddedNewSockets`, and looks at each socket in a step of its own, as does the
update loop.  `session[s]` records `OnOpen` and `OnClose`.  Two facts come from
outside the repository: the constructor of a socket may throw when its client has
gone (`remote_endpoint`), and `async_accept` into a socket that is still open only
fails (Boost.Asio's `already_open`).  The latter makes `held` stay for good once an
option could not be set.  A read without error changes nothing here and has no
action.  Who calls `StopNetwork` is open; it may come at any time.

### SocketWriter, SocketReader, MessageBuffer

A buffer is its bytes and two positions, as in the code, so that moving,
enlarging and reusing it is what it is there.  The writer's bytes bear the number
of their message and the reader's that of their place in the stream.  One action
of the writer is one call of `write_some` with what is done about it, all of it
under `_writeLock`; `lock` names the thread that holds it, and `writing` where in
`WriteHandler` it is.  `write_some` takes any part of what fits into the kernel's
buffer, would block, or fails: for good once the socket is closed or the client
has gone, and `MaxErrors` times in passing.

**Nothing sends yet**: the body of `FiestaSocket::SendPacket` is commented out in
the source, and the model's `SendPacket` is what that comment says.  The
handshake therefore sets `HandShaked` and puts out nothing.  The IOCP variant is
left out.

The reader is one thread, the `io_service`'s.  A `FiestaSocket` takes nothing out of
its buffer.  An `InterSocket` reads the packet's size from behind the two bytes of
its header buffer, where there are zeros, and takes 4 from it: all that follows
the first header is taken for a payload of nearly 2^32 bytes, for which there may
be no memory ("crashed").  No packet is ever complete unless a payload is, and the
properties speak of the bytes and not of packets.

### The services

Each of these modules is sequential, or has its own few threads; none shares
state with another, which is why one run checks them side by side.

* `Statement` follows one call through the C API, every call of which may fail.
  `parameters` are the `MYSQL_BIND`s in our memory and `bound` the statement's copy: the
  address of a buffer is its size and an offset, so that a buffer which has moved
  is told from the one that was bound.  Inputs are read when it is executed.
* `IniFile` has a line's kind in place of its characters, except for the value of a
  parameter, on which quoting is done character by character.  Its oddities are
  the code's: no parameter's name may begin with `_` while any other character may, a second
  section or parameter of a name is dropped, and the comments it writes begin with `;`,
  which it cannot read.  Of a value's characters only spaces, marks and backslashes are told from the
  rest; character 0 and the end of a line, which end what is read, are in no value
  (`IniAssumption`).
* `Startup` has one action per part that `Start` sets up.  A file differs from the usual
  one in any one setting (the Login server's in any two), or lacks a section.  The
  World server does not compile (`WorldServer/Server.cpp:32` passes an argument that
  `StartNetwork` no longer takes), and is modelled without it; it never listens.
  `StartMaintenance` cannot be reached.  `InitializeLog` may fail and show nothing, since
  `Log::Initialize` catches what its sink and file throw; the console's thread may be
  refused when the acceptor listens already.  Two messages about a zone's
  configuration print its id, an integer, with `%s` (`ZoneServerConfig.cpp:46,64`):
  that is no text for zone 0 and the end of the program for any other.
* `PacketStreams` starts from any position, since no constructor sets it, and a skip or a
  read of a place may be given any `size_t`: the reader's sums then wrap around, pass
  the check, and take the position back or the read outside of the vector.
* `Collections` gives a call a beginning and an end.  Two calls on one container, one of
  them writing, are undefined, and `undefined` names their members.  The only
  collections in use are the demonstration in `LoginServer/Server.cpp`, by one thread.
* `Timers` has no caller in the servers; `DateTime` only in the crash handler (`NowDate`).
  A timer's caller gives the time since its last call, and resets a timer when it
  has passed.
* `CrashHandler` has threads at work that hold the heap's lock, which is not
  recursive, and the log sink's, which is.  A line of the report is formatted on the
  heap and measured by the log's level before the sink is locked; with a main level
  above `MSG_ERROR`, which `InitializesLog` may set at any time, the log drops
  it (`Log.cpp:117`).  Nothing is modelled past `exit`.

## 3. What is model-checked

Every run checks a small instance completely.  All but `messages` switch deadlock
checking off: threads that have made their calls, a process that has exited, a
network nobody connects to any more, or a call that has returned, rightly stop.

| run | question | instance |
|---|---|---|
| `pool` | exclusive use, handle safety, bounds, no loss, lock, with all failures | 2 threads, slots 1 to 2, 5 clients, 3 calls |
| `fixed_pool` | does it implement `ClientAllocator`; are refusals justified, calls answered | 3 threads, 2 slots, 3 calls, queries that end or throw past the catch block |
| `tasks` | does it keep `TaskSchedule`; does every task run and a shutdown end | 2 executors, 3 tasks |
| `network` | counts, sets and sessions agree; reads only in sessions | 4 connections, 2 threads |
| `network_live` | hang-ups noticed, `StopNetwork` returns, connections served | 2 connections, 3 threads |
| `messages` | does what is sent stay a stream, and leave; does what is read | 3 messages of 1 or 2 bytes, a block of 3, a kernel's buffer of 2; 9 bytes read through blocks of 2 |
| `services` | each service against its reference; does a crash end the process | see the bounds in `MCServices.cfg` |

The bounds are enough for what can go wrong: two threads and the monitor meet on
one slot, and a third caller finds the pool full while a scan runs; three calls
let a client fail, be rebuilt and be used again; with two slots above a minimum of
one the monitor may close one.  Two executors suffice for one to erase what
the other points to, and a key between two others makes iterators cross it;
intervals of one and two ticks and lifetimes of two let expiry and a run fall
together or apart.  Four connections on two threads make one thread hold two
sockets, one being moved while the other is closed; three threads let the search
go past its first round.  Names of threads, clients and connections are
interchangeable (symmetry) where no temporal property is checked.

Three messages let one be in the buffer, one be sent in part from the queue, and
one wait; two bytes let a write be partial, and a kernel's buffer of two be full
in the middle of one.  Nine bytes make a read buffer of two double twice, and let
an InterSocket begin a payload and wait for more of it.  A statement fetches two
rows of two columns of 0 to 3 bytes or NULL into text buffers of 2: columns that
fit, just fill, and outgrow a buffer that an earlier one has moved already.
Four lines let a section come twice with parameters in between, and values of four
characters hold both marks, a backslash and a space at either end.  Two threads
suffice for two calls to collide, and for a crash to meet another, or a lock that is held.  The timers count to twelve in fields of
-6 to 5: periods that fit, that do not, and calls more than a period late.  Positions and
skips range over all 16 values of a `size_t` whose vectors have at most 6 bytes.  Dates
are at the turn of 2000, where every field changes, and in the last year there is
a place for.

Five runs show a property violated that a comment in the repository states:

* `closes_active`: the monitor tests a client and closes it some steps later; in
  between it has been handed out.  The comment says it closes "by nothing activity".
* `closes_twice`: a client the monitor has closed is still stale sixty seconds
  on, and its freed handle is closed again.
* `rebuilt_shared`: a client rebuilt after a failed query is handed out without
  being marked Busy, although a busy client is one to "Continue to next" on.
* `stop_walks`: `Stop` increments the iterator of the entry it has just erased, so
  the "Rest" need not leave.
* `counts_down`: the shutdown's remaining time is read after the clock has passed
  its end, and shows 49 days instead of at most "10 Sec".

### Fairness

* Pool: `WF` of each caller's next step.  A thread inside a call goes on, and MySQL
  answers; nobody has to start a call, the monitor need not run, time need not
  pass.  `mMutex` needs no strong fairness because calls are finite.
* Tasks: `WF` of each executor (an endless loop), of the clock, and so of callbacks,
  which return; `SF` of the thread that adds the ShutdownEvent, which competes for
  a lock the executors take again and again: each sleeps 150 ms every 400 walks,
  when the lock is free for long.  Nobody has to start a shutdown.
* Network: `WF` of each network thread (an endless loop), of the accept handler, of
  each ready handler and of the thread that waits in `StopNetwork`.  Clients need
  not do anything.

* Messages: `WF` of `WriteHandler`, of the wrapper when the socket is writable, and of a
  client that is still there; `SF` of `Update`, which is called over and over and
  tries for the lock each time, and of the read that finds the client's end.

* Crash: `WF` of the end of an allocation and `SF` of the end of a write to the log,
  which the thread may put off by allocating meanwhile; `SF` of each step of a report,
  since it waits for locks that threads at work take again and again, and a mutex
  that is free time and again lets each waiting thread in some time.  Nobody has to crash.

Liveness holds up to what the code cannot survive: a connect that throws wedges
the pool, undefined behaviour ends the model, a socket whose options failed ends
accepting, and a crash with the heap's lock held hangs.

## 4. What is proved

### The pool

`tlapm` proves, for any number of threads, slots, clients and calls, under
`SizeAssumption` (`Database`'s constructor refuses other sizes) and
`ValueAssumption` (null values are none of the values), as `Spec => []P`:

| theorem | property |
|---|---|
| `TypesHold` | `TypeOK` |
| `ConnectionsStayPooled` | `ConnectionsPooled` |
| `OnlyThrowsLoseClients` | `BusyHasUser` |
| `LostClientsStay` | `LostUntilClosed` (an action property) |
| `LockIsReleased` | `LockReleased` |
| `WedgedForGood` | `ThrowWedgesPool` (an action property) |
| `UseIsExclusive` | `ExclusiveUse` |
| `HandlesAreSafe` | `HandlesSafe` |
| `RefusalsAreJustified` | `RefusedOnlyWhenFull` |
| `SlotsStayInBounds` | `SlotInBounds` |
| `MinimumIsKept` | `MonitorKeepsMinimum` (an action property) |
| `FixedPoolKeepsPromise` | `KeepsPromise`, the refinement of `ClientAllocator`, for a pool whose bounds are equal and whose queries end or throw past the catch block (`FixedSize`) |

The argument has layers.  `Structure` (`DatabasePoolProofs`) holds come what
may: who owns `mMutex` at which step (`LockInv`); which slots are filled when, and
that no two slots share a client (`SlotInv`); that an open connection is in a slot
(`PooledInv`); that a Busy client has a user or is lost.  The properties of this layer are
not inductive alone: that `Destroy` and `Create` lose no connection needs to know
that a thread at "rebuild" has closed the one it replaces.

`Protocol` (the second part) holds until one of the three accidents, and is
why `State` can do without a lock: a user's client is Busy and the user is alone
in its slot (`HoldInv`); `GetClient` works on a client whose `State` keeps others
away (`StepInv`); the monitor is not closing anything Busy or Closed (`CloseInv`);
what is not Closed has an open connection unless someone is halfway through
closing it (`OpenInv`); and a scan that has not met a full pool has a free slot
ahead (`AheadInv`).  The induction is on `Structure /\ (NoAccident => Protocol)`,
one lemma per part and one step per action.

`Bounds` (the third part) counts, and needs less: until a query has failed or
the monitor has raced, nothing is Broken (`UnbrokenInv`); the monitor closes one of
more than enough, and while there are not enough, a filled slot without a connection
is one that is being connected (`EnoughInv`), so a thread that makes a client because
there are too few finds a slot empty.  A step changes the count by one slot at most,
which the library's facts about finite sets give.

The refinement (the last part) stands on all of it.  In a pool of a fixed
size the count is never above the minimum, so the monitor closes nothing and no
accident can happen but a connect that throws (`FixedInv`).  What the history says of
a thread that asks (`FullInv`: it has seen the pool full if it is full now) makes the
refusals those of the allocator.  Each step of the pool is then one of the
allocator's or a stutter; the allocator has no fairness, so nothing else is to be
shown.

### The network threads

For any number of network threads and any finite set of connections, under
`CountAssumption` (the configured thread count is positive) and
`SocketAssumption`, `SocketMgrProofs` proves `Spec => []P`:

| theorem | property |
|---|---|
| `TypesHold` | types, `TypeOK`, which no run repeats |
| `SessionsCounted` | `CountsSessions` |
| `SessionsHaveOneThread` | `OneThreadEach` |
| `ReadsAreInSession` | `ReadsInSession` |
| `CountsAreBalanced` | `Balanced`, which no run repeats |

None of them is inductive alone.  `IInv` adds who the socket being made
belongs to (`MakingInv`: a session begins only once, since the socket has none
yet); that a socket is in one thread's sets at most and that nothing closed is
still read from (`HoldInv`); and what the walk over a thread's sets has still to
come to (`WalkInv`: a socket that a thread is about to remove has an open
session, so no session ends twice and no count is taken down twice).  That
`_connections` is not negative, which `TypeOK` says, is no part of the induction:
it follows from `CountsSessions`, a cardinality.  The steps that change a count
cite the library's facts about adding an element to a finite set and removing
one.  `Balanced` needs in addition what the search has found so far (`FewestInv`): that
the thread it has chosen has the fewest is still true when the socket is added,
since only the search's own thread adds to a count, and nothing takes from one until
a session ends.

### The sending half of a socket

For any sizes, blocks, kernel buffers and numbers of messages and errors, under
`WriterAssumption`, `SocketProofs` proves `WriterSpec => []P`, and of the last property itself:

| theorem | property |
|---|---|
| `WaitsOnce` | `OneWait` |
| `BufferGoesFirst` | `BufferFirst` |
| `BuffersStayWhole` | every buffer is `WellFormed` |
| `MessagesLeaveInOrder` | `KeepsStream`, the refinement of `ByteStream` |

`OneWait` needs to know that nobody starts a write while the lock is held
(`LockInv`), and `BufferFirst` that only a message which is being sent has been read
from.  The lemmas about `MessageBuffer` say what each member function does to the
positions and to the bytes that are active.

The refinement (the last part of the module) maps the buffer's active bytes, and those of each
queued message behind them, to the bytes that are pending.  `SendPacket` puts a message
behind them; bytes the kernel takes come off their front, since the buffer is empty
whenever the queue is sent from (`BufferFirst`); a message that is popped is given up; all other
steps stutter, `ClientReads` because it moves a byte within what is out.  That a popped
message is all that is pending of it, and nothing else, needs to know that no two queued messages share
a byte (`OrderInv`: each consists of its own number, and none of one above `sent`).
`FlattenSeq`, a recursive function, is first shown to be its first piece and the rest
(`FlattenHead`) and to grow at its end (`FlattenAppend`), by induction.

### The receiving half of a socket

For any block, header, number of bytes and width of the size field in which the
size can be written (`ReaderAssumption`), `SocketProofs` proves
`ReaderSpec => []P`:

| theorem | property |
|---|---|
| `ReadsAlwaysHaveRoom` | `ReadsHaveRoom`, which no run repeats |
| `StreamIsKept` | `NoByteLost` |
| `BuffersStayBounded` | `BuffersBounded`, which no run repeats |

`ReaderInv` joins the three, because they need each other: that an `InterSocket`'s
block does not grow follows from the buffer being empty when it asks for more,
which follows from there being room in the header or payload buffer that was not
filled.  `PacketInv` adds that the payload buffer has a payload's size whenever the
header is complete, although it is never reset.  The lemmas show that Normalize and
EnsureFreeSpace keep the active bytes, that Write appends to them, and that
ReadCompleted takes them from the front.

### The timers

For any `Half`, times and differences, under `TimersAssumption`, `ServicesProofs` proves
`TimersSpec => []TimersOnTime`.  `TimersOnTime` speaks of timers that have been reset; what is
inductive (`IntervalInv`, `TrackerInv`, `PeriodicInv`) also says how far a timer that waits for its reset
may have passed: no more than the last call was late, so that the period which is
added makes it positive again and fits in 32 bits.

### Dates and collections

`ServicesProofs` also proves

| theorem | property | for any |
|---|---|---|
| `DatesComeFromTheirTimes` | `DateTimeSpec => []FiestaDates` | calendar of well-formed times |
| `CollectionsKeep` | `CollectionSpec => []KeepsWhatWasAdded` | threads, keys, entries |

A date is packed field by field, so `DateIInv` says of each field what `FiestaDates` says,
from the step that packs it, and that `tm` always shows one of the times asked for.

What the mutexes of the collections give is that two calls under way collide only after a
member that does not lock has been used (`ApartInv`, from `CallInv`: a call that locks owns the
mutex of its container).  Only then may a key that `TryAdd` has looked for be there when
it is inserted (`FreshInv`).  The vector is counted element by element, which `RemoveAllBy` keeps.

### Configuration files

For any names, characters, bounds and files, under `IniAssumption`, `IniFileProofs` proves

| theorem | property |
|---|---|
| `ParametersAreTheFirst` | `IniSpec => []OwnsFirst` |
| `WhatIsWrittenIsRead` | `IniSpec => []FileSurvives` |
| `ValueSurvives` | a value of any length reads back as it was if and only if `Survives` says so |

The parser's two places, the section in the map and the one that parameters go to, are not the
same: `SecInv` says that the latter is the last section line, and whether the map has it; from
that, each line read changes the set of a parameter's lines as it changes the map.

`ValueSurvives` is about `ReadValue(WriteValue(v))` alone.  `Escaped` and `EndOfQuotation` are
recursive functions, one over the characters from the first on, the other over those that are left; `EscapedIs`
and `EndIs` say by `Induction` that each has the value of its definition.  If no character is the
mark that quotes, what is written between the marks is the value, and no character before the last
mark ends the quotation, unless the value ends with a backslash (`BetweenMarks`).  If one is,
the backslash put before the first of them is read as part of the value, which is then
another one wherever the reader stops (`BackslashKept`).  A value that needs quotation for its spaces
and has no mark is written between two characters 0, and is read with them.

For whole files, `RoundInv` is inductive together with `IniIInv`, the invariant of the first theorem:
the map that was written is whole and its file is that of `WriteSections`; what has been read
since is the beginning of that file; and a reader that has thrown an exception had a map that does not
survive.  That alone says nothing of the end: `FileShape` (`WriteSectionsIs`) says what the
file of any map looks like, each section once, in it its own parameters and no others, and a comment
where the map has one.  It follows from where `Joined` puts each piece (`Laid`), since the sections are
written in an order that the proof does not know.  At the end of the file `OwnsFirst` then
makes the map that was read one with the same sections and parameters (`EachReadBack`), and
`ValueSurvives` decides for each whether its value is the same.  Without a comment on either
side the maps are then equal if the values are.  TLC finds `RoundInv` kept in every state of `services`.

### Start-up and the crash handler

For any settings and any failing step, and for any number of threads at work and frames,
`ServicesProofs` proves

| theorem | property |
|---|---|
| `ServersStartWhole` | `StartupSpec => []StartedWhole` |
| `FailedStartsAreClean` | `StartupSpec => []FailsClean` |
| `CrashesAreReported` | `CrashSpec => []CrashReported` |
| `NobodyPassesTheHeap` | `CrashSpec => HeapCrashHangs` |

`StartupIInv` says what each step of `Start` has secured for those after it: the settings are
accepted, the zones are counted, the pool has its sizes before anything uses it, threads run
before anybody listens.  `FailsClean` is part of it; that an error is shown needs the log's
level, which no filter lowers between the two places that may fail.  `CrashIInv` says how many
lines of its report a thread has logged and written, by its step, and that a log which lacks
one has been told to; two threads have to
crash for a file to be garbled.  That a crash comes to its end unless the heap's lock is in
the way, `CrashEnds`, is liveness and stays with TLC.

### Statements and packet streams

For any columns, buffers, lengths and numbers of rows, and for any position a stream is made
with and any sizes that fit (`StatementAssumption`, `PacketStreamsAssumption`), `BufferProofs`
proves

| theorem | property |
|---|---|
| `QueriesReturnWholeRows` | `StatementSpec => []RowsWhole` |
| `StatementsWriteInBuffers` | `StatementSpec => []WritesInBuffers` |
| `PacketsReadAsWritten` | `PacketSpec => []ReadsWhatWasWritten` |

The statement knows where the buffers are from the first fetch on (`BufferInv`), so a buffer
that is enlarged has to be bound again before the next.  Between a fetch and the row made of it
each buffer begins with what was fetched, as far as it has room (`Holds`), and only a
text that was too long keeps the row waiting (`LengthInv`); a refetch puts the rest behind the part
that is there.  A stream's vector is what was written since the last clear behind as many zeros
as the position was off (`StorageInv`), which is all that reading needs to know: a sum that
stays below the limit is at most the vector's size, and one that does not takes the position back,
to where what is read begins anew.

### Executors keep their schedule

For any number of executors and tasks, any intervals and lifetimes, `TaskManagerProofs` proves
that `Spec => KeepsSchedule`.  Whoever is inside holds `mMutex` (`LockInv`), and what it works on is an
entry of the map, unless its iterator dangles (`EntryInv`): so a callback is never that of a task
that has been erased.  `Last_Execute` never makes a task look more rested than it is
(`ClockInv`), what leaves has expired, and once `Stop` has begun, its thread keeps the lock.  Each
step of an executor is then one of the schedule's or a stutter.

### Induction

The library's induction theorems cannot be used here, since they take an operator as a parameter.
Where a proof needs induction it uses `Induction`: a set of natural numbers that has 0 and every
successor is all of them, which follows from the library's facts about finite sets.  With it, that
a set of numbers has a least element (`LeastExists`) and what a recursive function returns for
every sequence (`WithoutIs`, `FlattenIs`, `EscapedIs`, `EndIs`, `JoinedFold`) are proved like anything else.  The first two are in
`NumberLemmas`.

### Model-checked only

Every invariant and every action property that a run checks is stated by a theorem; what is checked by TLC
only is everything under fairness, which is out of the prover's reach, and the runs that
show a property violated.

## 5. The plan

Done: the pool, the task manager and the network threads with their abstract
specifications and proofs; the two halves of a socket; the services.

As the repository grows: the dispatch of game packets and the handler store once
they compile; `SendPacket` once its body is more than a comment; the protocol
between the servers once an `InterSocket` takes packets out of its buffers.

## 6. What is not modelled, and why

* The stream cipher: `Crypt` is private and nothing calls it.
* The handler store and the dispatch of game packets: commented out, or templates
  that nothing instantiates and that would not compile.
* Random numbers, system information, performance counters: no state that the rest
  depends on.  `Util/TaskManager` is an earlier one that nothing uses.
* The console's loop, whose command handler is empty, and the formatting of logs.
* Game data: records read once; only their lookup is in `Collections`.
* What happens after `std::exit` (static destructors on an executor's thread while
  the main thread still runs the `io_service`, `LoginServer/Server.cpp:154`) is undefined in several ways
  at once and has no property to state beyond that.
* `DelayedCloseSocket` says that the socket closes "after write buffer becomes empty",
  and nothing waits for that.  It has no caller; the model has it, and `Drains` claims
  nothing for a socket that is closing.
* IOCP, the other way `Socket.h` can be built.
* Data races are modelled at the granularity given above and not below it.
