---------------------------- MODULE SocketReader ----------------------------
(***************************************************************************)
(* The receiving half of Socket.h under its two users, FiestaSocket and    *)
(* InterSocket.  All of it runs on the thread of the io_service: a read    *)
(* completes, its handler works on the read buffer and asks for the next.  *)
(* The client's bytes are numbered as they arrive.                         *)
(***************************************************************************)
EXTENDS SocketState, MessageBuffer

CONSTANTS
  ReadBlock,   \* READ_BLOCK_SIZE and a default MessageBuffer's size
  HeaderSize,  \* SizeOfClientHeader[0][0], 2 in the code
  Width,       \* of the header's size field, 32 bits in the code
  MaxBytes     \* bound on the bytes a client sends

ASSUME ReaderAssumption ==
  /\ {ReadBlock, HeaderSize, Width} \subseteq Nat \ {0} /\ MaxBytes \in Nat
  /\ 2 ^ Width \in Nat \ 0 .. 4

VARIABLES
  kind,          \* "none" before Start, then "fiesta" or "inter"
  reading,       \* "start", "opened", "reading", "handler", "payload", "ask", "ended", "crashed"
  arrived,       \* bytes the client has sent
  unread,        \* those that have not been read
  HandShaked,
  _readBuffer, _headerBuffer, _packetBuffer,
  taken          \* bytes moved out of the read buffer, in that order

buffers == <<_readBuffer, _headerBuffer, _packetBuffer>>
readerState == <<kind, reading, arrived, unread, HandShaked, buffers, taken>>
readerVars == <<connection, readerState>>

\* HandShaked is not initialised; OnOpen sets it before anybody reads it.
ReaderInit ==
  /\ kind = "none" /\ reading = "start" /\ Connected
  /\ arrived = 0 /\ unread = <<>>
  /\ HandShaked = FALSE
  /\ _readBuffer = MessageBufferOf(ReadBlock)
  /\ _headerBuffer = Resize(MessageBufferOf(ReadBlock), HeaderSize)
  /\ _packetBuffer = MessageBufferOf(ReadBlock)
  /\ taken = <<>>

ClientSends ==
  /\ kind # "none" /\ arrived < MaxBytes
  /\ arrived' = arrived + 1
  /\ unread' = Append(unread, arrived')
  /\ UNCHANGED <<kind, reading, connection, HandShaked, buffers, taken>>

\* By any thread.
OwnerClosesReader ==
  /\ kind # "none" /\ DelayedCloseSocket
  /\ UNCHANGED <<kind, reading, arrived, unread, HandShaked, buffers, taken>>

-----------------------------------------------------------------------------
(* Socket.                                                                   *)

Prepared(b) == EnsureFreeSpace(Normalize(b))

AsyncRead ==
  IF IsOpen
  THEN _readBuffer' = Prepared(_readBuffer) /\ reading' = "reading"
  ELSE reading' = "ended" /\ UNCHANGED _readBuffer

\* Start asks for the first read, before OnOpen; the initializer it queues is
\* the writing half's.
Start(k) ==
  /\ reading = "start"
  /\ kind' = k /\ reading' = "opened"
  /\ _readBuffer' = Prepared(_readBuffer)
  /\ UNCHANGED <<connection, arrived, unread, HandShaked, _headerBuffer, _packetBuffer, taken>>

\* OnOpen; a FiestaSocket sends the handshake, of which nothing goes out yet.
SendHandShake == HandShaked' = TRUE
OnOpen ==
  /\ reading = "opened"
  /\ reading' = "reading"
  /\ IF kind = "fiesta" THEN SendHandShake ELSE UNCHANGED HandShaked
  /\ UNCHANGED <<kind, connection, arrived, unread, buffers, taken>>

\* The kernel fills the free space with what it has got, and
\* ReadHandlerInternal counts it; a read into no space completes at once.  The
\* handler does nothing when the socket has been closed.
Read(n) == SubSeq(unread, 1, n)
ReadCompletes ==
  /\ reading = "reading"
  /\ \E n \in 0 .. GetRemainingSpace(_readBuffer) :
       /\ n <= Len(unread) /\ (n = 0 => GetRemainingSpace(_readBuffer) = 0)
       /\ _readBuffer' = WriteCompleted(Fill(_readBuffer, Read(n)), n)
       /\ unread' = SubSeq(unread, n + 1, Len(unread))
  /\ reading' = IF IsOpen THEN "handler" ELSE "ended"
  /\ UNCHANGED <<kind, connection, arrived, HandShaked, _headerBuffer, _packetBuffer, taken>>

\* The end of the stream, or an error.
ReadFails ==
  /\ reading = "reading"
  /\ reading' = "ended" /\ CloseSocket
  /\ UNCHANGED <<kind, arrived, unread, HandShaked, buffers, taken>>

-----------------------------------------------------------------------------
(* FiestaSocket::ReadHandler takes nothing out of the buffer.                *)

FiestaReadHandler ==
  /\ kind = "fiesta" /\ reading = "handler"
  /\ IF HandShaked THEN UNCHANGED HandShaked ELSE SendHandShake
  /\ AsyncRead
  /\ UNCHANGED <<kind, connection, arrived, unread, _headerBuffer, _packetBuffer, taken>>

-----------------------------------------------------------------------------
(* InterSocket::ReadHandler, one round of its loop in up to two steps.       *)

Least(a, b) == IF a < b THEN a ELSE b

\* Bytes go from the read buffer to b as long as there are some and b has room.
Moved(b) == Least(GetActiveSize(_readBuffer), GetRemainingSpace(b))
MoveTo(b) ==
  LET bytes == SubSeq(Active(_readBuffer), 1, Moved(b)) IN
    /\ _readBuffer' = ReadCompleted(_readBuffer, Moved(b))
    /\ taken' = taken \o bytes

\* ReadHeaderHandler looks for the size behind the end of the header buffer,
\* where the zeros of its first block still are, and takes 4 from it.
PayloadSize == (0 - 4) % 2 ^ Width

\* The loop's condition, and the header.
ReadHeader ==
  /\ kind = "inter" /\ reading = "handler" /\ GetActiveSize(_readBuffer) > 0
  /\ IF GetRemainingSpace(_headerBuffer) = 0
     THEN reading' = "payload" /\ UNCHANGED <<buffers, taken>>
     ELSE /\ MoveTo(_headerBuffer)
          /\ _headerBuffer' = Write(_headerBuffer, SubSeq(Active(_readBuffer), 1, Moved(_headerBuffer)))
          /\ \/ /\ GetRemainingSpace(_headerBuffer') > 0
                /\ reading' = "ask"
                /\ UNCHANGED _packetBuffer
             \/ /\ GetRemainingSpace(_headerBuffer') = 0
                /\ reading' = "payload"
                /\ _packetBuffer' = Resize(_packetBuffer, PayloadSize)
             \/ /\ GetRemainingSpace(_headerBuffer') = 0
                /\ reading' = "crashed"  \* no memory: the exception ends the server
                /\ UNCHANGED _packetBuffer
  /\ UNCHANGED <<kind, connection, arrived, unread, HandShaked>>

\* The payload; with all of it, the header is made ready for the next packet,
\* and the payload buffer is not.
ReadPayload ==
  /\ reading = "payload"
  /\ MoveTo(_packetBuffer)
  /\ _packetBuffer' = Write(_packetBuffer, SubSeq(Active(_readBuffer), 1, Moved(_packetBuffer)))
  /\ IF GetRemainingSpace(_packetBuffer') > 0
     THEN reading' = "ask" /\ UNCHANGED _headerBuffer
     ELSE reading' = "handler" /\ _headerBuffer' = Reset(_headerBuffer)
  /\ UNCHANGED <<kind, connection, arrived, unread, HandShaked>>

AskForMore ==
  /\ \/ reading = "ask"
     \/ kind = "inter" /\ reading = "handler" /\ GetActiveSize(_readBuffer) = 0
  /\ AsyncRead
  /\ UNCHANGED <<kind, connection, arrived, unread, HandShaked, _headerBuffer, _packetBuffer, taken>>

-----------------------------------------------------------------------------
ReaderNext ==
  \/ ClientSends \/ OwnerClosesReader \/ OnOpen \/ ReadCompletes \/ ReadFails
  \/ \E k \in {"fiesta", "inter"} : Start(k)
  \/ FiestaReadHandler \/ ReadHeader \/ ReadPayload \/ AskForMore

ReaderSpec == ReaderInit /\ [][ReaderNext]_readerVars

-----------------------------------------------------------------------------
(* Properties.                                                               *)

\* async_read_some is never asked to fill no space: such a read would complete
\* at once with nothing, over and over.
ReadsHaveRoom == reading \in {"opened", "reading"} => GetRemainingSpace(_readBuffer) > 0

\* However reads cut the stream and buffers are moved and enlarged, its bytes
\* are handed on in order, each once, and the rest waits in the read buffer.
NoByteLost == taken \o Active(_readBuffer) \o unread = [p \in 1 .. arrived |-> p]

\* A FiestaSocket keeps all it has read, in a buffer that is as large as two
\* blocks or twice that; an InterSocket has emptied its buffer when it asks for
\* the next read, as the asserts in its loop say, and never needs another block.
BuffersBounded ==
  /\ kind = "fiesta" => GetBufferSize(_readBuffer) <= ReadBlock \/ GetBufferSize(_readBuffer) <= 2 * arrived
  /\ kind = "inter" => GetBufferSize(_readBuffer) = ReadBlock
  /\ reading = "ask" => GetActiveSize(_readBuffer) = 0
=============================================================================
