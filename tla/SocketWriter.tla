---------------------------- MODULE SocketWriter ----------------------------
(***************************************************************************)
(* The sending half of Socket.h as it is built without IOCP.               *)
(*                                                                         *)
(* Senders put messages into the write buffer or the queue under           *)
(* _writeLock.  The socket's network thread sends from them in Update, if  *)
(* it gets the lock at once.  When the kernel takes no more, the socket    *)
(* waits for it with async_write_some, and the thread of the io_service    *)
(* sends once more when it is writable.  write_some happens under the      *)
(* lock; the socket may be closed while it is held.                        *)
(***************************************************************************)
EXTENDS SocketState, MessageBuffer, SequencesExt

CONSTANTS
  Sizes,       \* the sizes of the messages sent
  BlockSize,   \* a default MessageBuffer's, 4096 in the code
  SendBuffer,  \* bytes the kernel holds for the client
  MaxSent,     \* bound on the messages sent
  MaxErrors    \* bound on the errors of write_some that pass

ASSUME WriterAssumption ==
  Sizes \subseteq Nat /\ {BlockSize, SendBuffer, MaxSent, MaxErrors} \subseteq Nat

VARIABLES
  sent,                 \* messages sent; the k-th consists of k's
  _writeQueue, _writeBuffer, _isWritingAsync,
  lock,                 \* _writeLock: "free", or the thread that writes
  writing,                 \* where that thread is in WriteHandler
  waits,                \* async_write_some's under way
  outgoing, received,     \* bytes the kernel holds, and bytes the client has read
  gone,                 \* the client has hung up
  errors                \* errors that have passed

queues == <<_writeQueue, _writeBuffer>>
outside == <<connection, gone>>
writerState == <<sent, queues, _isWritingAsync, gone, lock, writing, waits, outgoing, received, errors>>
writerVars == <<connection, writerState>>

Message(k, size) == Write(MessageBufferOf(size), [p \in 1 .. size |-> k])

\* The socket as Start leaves it, with a buffer that nothing was written to.
WriterInit ==
  /\ sent = 0
  /\ _writeQueue = <<MessageBufferOf(BlockSize)>>
  /\ _writeBuffer = MessageBufferOf(BlockSize)
  /\ _isWritingAsync = FALSE /\ Connected
  /\ lock = "free" /\ writing = "check" /\ waits = 0
  /\ outgoing = <<>> /\ received = <<>> /\ gone = FALSE /\ errors = 0

-----------------------------------------------------------------------------
(* Senders and the client.                                                   *)

Fits(size) == GetRemainingSpace(_writeBuffer) >= size

\* A sender, that is what FiestaSocket::SendPacket is written to do: its body is
\* commented out in the source, and nothing else sends yet.  A short message
\* goes into the buffer if none is queued before it; any other through
\* QueuePacket, which needs the lock to be held by who calls it.
QueuePacket(m) == _writeQueue' = Append(_writeQueue, m)
SendPacket(size) ==
  /\ lock = "free" /\ sent < MaxSent
  /\ sent' = sent + 1
  /\ IF _writeQueue = <<>> /\ Fits(size)
     THEN /\ _writeBuffer' = Write(_writeBuffer, Active(Message(sent', size)))
          /\ UNCHANGED _writeQueue
     ELSE /\ QueuePacket(Message(sent', size))
          /\ UNCHANGED _writeBuffer
  /\ UNCHANGED <<_isWritingAsync, outside, lock, writing, waits, outgoing, received, errors>>

OwnerCloses ==
  /\ DelayedCloseSocket
  /\ UNCHANGED <<sent, queues, _isWritingAsync, gone, lock, writing, waits, outgoing, received, errors>>

ClientReads ==
  /\ outgoing # <<>> /\ ~gone
  /\ received' = Append(received, Head(outgoing)) /\ outgoing' = Tail(outgoing)
  /\ UNCHANGED <<sent, queues, _isWritingAsync, outside, lock, writing, waits, errors>>

ClientGoes ==
  /\ gone' = TRUE
  /\ UNCHANGED <<sent, queues, _isWritingAsync, connection, lock, writing, waits, outgoing, received, errors>>

\* The thread of the io_service finds the end of what there is to read.
EndIsRead ==
  /\ gone /\ lock # "io"
  /\ CloseSocket
  /\ UNCHANGED <<sent, queues, _isWritingAsync, gone, lock, writing, waits, outgoing, received, errors>>

-----------------------------------------------------------------------------
(* write_some.                                                               *)

WouldBlock == ~_closed /\ Len(outgoing) >= SendBuffer /\ UNCHANGED <<outgoing, errors>>

\* Always once the sending side is shut down, at any time once the client has
\* gone, and now and then for want of memory.
Fails ==
  /\ \/ (_closed \/ gone) /\ UNCHANGED errors
     \/ ~_closed /\ ~gone /\ errors < MaxErrors /\ errors' = errors + 1
  /\ UNCHANGED outgoing

Takes(b, n) ==
  /\ ~_closed
  /\ n \in 1 .. GetActiveSize(b) /\ Len(outgoing) + n <= SendBuffer
  /\ outgoing' = outgoing \o SubSeq(Active(b), 1, n)
  /\ UNCHANGED errors

-----------------------------------------------------------------------------
(* WriteHandler, by the thread that holds the lock.                          *)

\* Update goes on writing as long as WriteHandler returns true.
Return(again) ==
  /\ writing' = "check"
  /\ lock' = IF again /\ lock = "network" THEN lock ELSE "free"
  /\ UNCHANGED <<_isWritingAsync, waits>>

AsyncProcessQueue ==
  /\ _isWritingAsync' = TRUE
  /\ waits' = IF _isWritingAsync THEN waits ELSE waits + 1
  /\ writing' = "check" /\ lock' = "free"

Goto(s) == writing' = s /\ UNCHANGED <<lock, _isWritingAsync, waits>>

\* mutant: a queued message does not wait for the buffer
FirstQueue == IF _writeQueue # <<>> THEN "queue" ELSE "buffer"
First == IF GetActiveSize(_writeBuffer) = 0 THEN "queue" ELSE "buffer"

CheckOpen ==
  /\ writing = "check" /\ lock # "free"
  /\ IF IsOpen THEN Goto(First) ELSE Return(FALSE)
  /\ UNCHANGED <<sent, queues, outside, outgoing, received, errors>>

\* mutant: what was sent in part is sent again from its start
UnsentAll(b, n) == b
Unsent(b, n) == ReadCompleted(b, n)

WriteBuffer ==
  /\ writing = "buffer"
  /\ \/ WouldBlock /\ AsyncProcessQueue /\ UNCHANGED _writeBuffer
     \/ Fails /\ Return(FALSE) /\ UNCHANGED _writeBuffer
     \/ \E n \in 1 .. GetActiveSize(_writeBuffer) :
          /\ Takes(_writeBuffer, n)
          /\ \/ /\ n < GetActiveSize(_writeBuffer)
                /\ _writeBuffer' = Normalize(Unsent(_writeBuffer, n))
                /\ AsyncProcessQueue
             \/ /\ n = GetActiveSize(_writeBuffer)
                /\ _writeBuffer' = Reset(_writeBuffer)
                /\ Goto("queue")
  /\ UNCHANGED <<sent, _writeQueue, outside, received>>

\* HandleQueue.  A message that could not be sent, or of which nothing was, is
\* popped like one that was sent.
HandleQueue ==
  /\ writing = "queue"
  /\ IF _writeQueue = <<>>
     THEN Return(FALSE) /\ UNCHANGED <<_writeQueue, outgoing, errors>>
     ELSE LET message == Head(_writeQueue) IN
       \/ /\ GetActiveSize(message) = 0
          /\ _writeQueue' = Tail(_writeQueue)
          /\ Return(FALSE) /\ UNCHANGED <<outgoing, errors>>
       \/ /\ GetActiveSize(message) > 0
          /\ WouldBlock /\ AsyncProcessQueue /\ UNCHANGED _writeQueue
       \/ /\ GetActiveSize(message) > 0
          /\ Fails
          /\ _writeQueue' = Tail(_writeQueue)
          /\ Return(FALSE)
       \/ \E n \in 1 .. GetActiveSize(message) :
            /\ Takes(message, n)
            /\ \/ /\ n < GetActiveSize(message)
                  /\ _writeQueue' = [_writeQueue EXCEPT ![1] = Unsent(message, n)]
                  /\ AsyncProcessQueue
               \/ /\ n = GetActiveSize(message)
                  /\ _writeQueue' = Tail(_writeQueue)
                  /\ Return(_writeQueue' # <<>>)
  /\ UNCHANGED <<sent, _writeBuffer, outside, received>>

-----------------------------------------------------------------------------
(* Who calls it.                                                             *)

\* Update of the network thread, when there is something for it to do; it has
\* not got the lock if another thread has it.
Update ==
  /\ IsOpen /\ lock = "free"
  /\ ~_isWritingAsync /\ (GetActiveSize(_writeBuffer) > 0 \/ _writeQueue # <<>>)
  /\ lock' = "network"
  /\ UNCHANGED <<sent, queues, _isWritingAsync, outside, writing, waits, outgoing, received, errors>>

\* mutant: only Update clears the flag
ClearNever == UNCHANGED _isWritingAsync
ClearFlag == _isWritingAsync' = FALSE

\* WriteHandlerWrapper, when the socket is writable or will never be.
WriteHandlerWrapper ==
  /\ waits > 0 /\ lock = "free"
  /\ Len(outgoing) < SendBuffer \/ _closed \/ gone
  /\ waits' = waits - 1
  /\ lock' = "io" /\ ClearFlag
  /\ UNCHANGED <<sent, queues, outside, writing, outgoing, received, errors>>

WriteHandler == CheckOpen \/ WriteBuffer \/ HandleQueue

WriterNext ==
  \/ \E size \in Sizes : SendPacket(size)
  \/ OwnerCloses \/ ClientReads \/ ClientGoes \/ EndIsRead
  \/ Update \/ WriteHandlerWrapper \/ WriteHandler

WriterSpec == WriterInit /\ [][WriterNext]_writerVars

-----------------------------------------------------------------------------
(* Properties.                                                               *)

\* The bytes sent and not yet taken by the kernel, the buffer's first.
Pending == Active(_writeBuffer) \o FlattenSeq([q \in 1 .. Len(_writeQueue) |-> Active(_writeQueue[q])])

\* Two places to put messages and two threads that send from them make one
\* stream: bytes leave in the order of SendPacket, none twice, and none is left
\* out but the rest of a message that a hard error has hit.
Stream == INSTANCE ByteStream WITH count <- sent, pending <- Pending, out <- received \o outgoing
KeepsStream == Stream!Spec

\* A wait for the socket to become writable is under way exactly when
\* _isWritingAsync says so, however Update and WriteHandlerWrapper alternate;
\* so nothing stays unsent for want of anyone to go on, and AsyncProcessQueue
\* never finds the flag set.
OneWait == waits = (IF _isWritingAsync THEN 1 ELSE 0)

\* No queued message overtakes the write buffer, in which all older ones are: a
\* message of which a part is out heads the queue, and the buffer is empty.
PartlySent(m) == m._rpos > 0
BufferFirst ==
  /\ \A q \in 1 .. Len(_writeQueue) : PartlySent(_writeQueue[q]) => q = 1 /\ GetActiveSize(_writeBuffer) = 0
  /\ writing = "queue" => GetActiveSize(_writeBuffer) = 0

\* What is sent through an open socket leaves it, is given up, or the socket is
\* closed; no message waits for another to be sent.
Leaves(k) == \A p \in 1 .. Len(Pending) : Pending[p] # k
Drains == \A k \in 1 .. MaxSent : sent >= k ~> Leaves(k) \/ ~IsOpen
=============================================================================
