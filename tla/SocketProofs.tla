---------------------------- MODULE SocketProofs ----------------------------
(***************************************************************************)
(* Safety of the two halves of a socket, for messages, blocks, kernel      *)
(* buffers, headers and fields of any size, and any number of messages,    *)
(* bytes and errors.                                                       *)
(***************************************************************************)
EXTENDS SocketWriter, SocketReader, NumberLemmas, SequenceTheorems, TLAPS

(***************************************************************************)
(* The sending half.                                                       *)
(***************************************************************************)
Buffers == {b \in [_wpos : Nat, _rpos : Nat, _storage : Seq(Nat)] : WellFormed(b)}

\* What is inductive.  Whoever is halfway through WriteHandler holds the lock;
\* bytes are in the buffer when it is to be written, and none when the queue is.
TypeInv ==
  /\ sent \in Nat
  /\ _writeBuffer \in Buffers /\ _writeQueue \in Seq(Buffers)
  /\ lock \in {"free", "network", "io"} /\ writing \in {"check", "buffer", "queue"}
LockInv ==
  /\ lock = "free" => writing = "check"
  /\ writing = "buffer" => GetActiveSize(_writeBuffer) > 0
WaitInv == _isWritingAsync \in BOOLEAN /\ waits \in Nat /\ OneWait
IInv == TypeInv /\ LockInv /\ WaitInv /\ BufferFirst

-----------------------------------------------------------------------------
(* The operations on a buffer that the writer uses.                          *)

LEMMA BytesInRow ==
  ASSUME NEW n \in Nat, NEW f \in [1 .. n -> Nat]
  PROVE  f \in Seq(Nat) /\ Len(f) = n
OBVIOUS

LEMMA BufferParts ==
  ASSUME NEW b \in Buffers
  PROVE  \E w \in Nat, r \in Nat, s \in Seq(Nat) : b = [_wpos |-> w, _rpos |-> r, _storage |-> s]
BY DEF Buffers

\* A fresh block of any size is well formed and empty.
LEMMA FreshBuffer ==
  ASSUME NEW size \in Nat
  PROVE  /\ MessageBufferOf(size) \in Buffers
         /\ MessageBufferOf(size)._rpos = 0 /\ MessageBufferOf(size)._wpos = 0
         /\ Len(MessageBufferOf(size)._storage) = size
<1>1. /\ [p \in 1 .. size |-> Zero] \in Seq(Nat)
      /\ Len([p \in 1 .. size |-> Zero]) = size
  BY DEF Zero
<1>. QED BY <1>1 DEF MessageBufferOf, Buffers, WellFormed

\* Bytes that fit behind the active ones become active.
LEMMA WriteFits ==
  ASSUME NEW b \in Buffers, NEW data \in Seq(Nat), Len(data) <= GetRemainingSpace(b)
  PROVE  /\ Write(b, data) \in Buffers
         /\ Write(b, data)._rpos = b._rpos
         /\ Write(b, data)._wpos = b._wpos + Len(data)
         /\ Len(Write(b, data)._storage) = Len(b._storage)
<1>1. PICK w \in Nat, r \in Nat, s \in Seq(Nat) : b = [_wpos |-> w, _rpos |-> r, _storage |-> s]
  BY BufferParts
<1>2. r <= w /\ w + Len(data) <= Len(s) /\ Len(s) \in Nat /\ Len(data) \in Nat
  BY <1>1 DEF Buffers, WellFormed, GetRemainingSpace
<1>. DEFINE filled == [p \in 1 .. Len(s) |-> IF p - w \in 1 .. Len(data) THEN data[p - w] ELSE s[p]]
<1>3. filled \in Seq(Nat) /\ Len(filled) = Len(s)
  <2>1. \A p \in 1 .. Len(s) : s[p] \in Nat
    OBVIOUS
  <2>2. \A p \in 1 .. Len(data) : data[p] \in Nat
    OBVIOUS
  <2>3. filled \in [1 .. Len(s) -> Nat]
    BY <2>1, <2>2
  <2>. HIDE DEF filled
  <2>. QED BY <1>2, <2>3, BytesInRow
<1>4. Fill(b, data) = [_wpos |-> w, _rpos |-> r, _storage |-> filled]
  <2>. DEFINE g(t) == [p \in 1 .. Len(t) |-> IF p - w \in 1 .. Len(data) THEN data[p - w] ELSE t[p]]
  <2>1. Fill(b, data) = [b EXCEPT !._storage = g(@)]
    BY <1>1 DEF Fill
  <2>. HIDE DEF g
  <2>2. Fill(b, data) = [_wpos |-> w, _rpos |-> r, _storage |-> g(s)]
    BY <1>1, <2>1
  <2>. QED BY <2>2 DEF g
<1>. HIDE DEF filled
<1>5. Write(b, data) = [_wpos |-> w + Len(data), _rpos |-> r, _storage |-> filled]
  BY <1>4 DEF Write, WriteCompleted
<1>6. Write(b, data) \in Buffers
  BY <1>2, <1>3, <1>5 DEF Buffers, WellFormed
<1>. QED BY <1>1, <1>3, <1>5, <1>6

\* A message is a full block that nothing has been read of.
LEMMA MessageIsWhole ==
  ASSUME NEW k \in Nat, NEW size \in Nat
  PROVE  /\ Message(k, size) \in Buffers /\ Message(k, size)._rpos = 0
         /\ Active(Message(k, size)) \in Seq(Nat) /\ Len(Active(Message(k, size))) = size
<1>. DEFINE bytes == [p \in 1 .. size |-> k]
<1>1. bytes \in Seq(Nat) /\ Len(bytes) = size
  OBVIOUS
<1>. HIDE DEF bytes
<1>2. Len(bytes) <= GetRemainingSpace(MessageBufferOf(size))
  BY <1>1, FreshBuffer DEF GetRemainingSpace
<1>3. /\ Message(k, size) \in Buffers /\ Message(k, size)._rpos = 0
      /\ Message(k, size)._wpos = size /\ Len(Message(k, size)._storage) = size
  BY <1>1, <1>2, FreshBuffer, WriteFits DEF Message, bytes
<1>. QED BY <1>3 DEF Active, Buffers

\* Sending a part of the active bytes leaves the rest of them.
LEMMA ReadRest ==
  ASSUME NEW b \in Buffers, NEW n \in 1 .. GetActiveSize(b)
  PROVE  /\ Unsent(b, n) \in Buffers /\ Unsent(b, n)._rpos = b._rpos + n
         /\ GetActiveSize(Unsent(b, n)) = GetActiveSize(b) - n
<1>1. PICK w \in Nat, r \in Nat, s \in Seq(Nat) : b = [_wpos |-> w, _rpos |-> r, _storage |-> s]
  BY BufferParts
<1>2. w <= Len(s) /\ n \in 1 .. (w - r)
  BY <1>1 DEF Buffers, WellFormed, GetActiveSize
<1>3. Unsent(b, n) = [_wpos |-> w, _rpos |-> r + n, _storage |-> s]
  BY <1>1 DEF Unsent, ReadCompleted
<1>. QED BY <1>1, <1>2, <1>3 DEF GetActiveSize, Buffers, WellFormed

\* Moving the active bytes to the front keeps them active.
LEMMA NormalizeKeeps ==
  ASSUME NEW b \in Buffers
  PROVE  /\ Normalize(b) \in Buffers /\ Active(Normalize(b)) = Active(b)
         /\ Normalize(b)._rpos = 0 /\ Normalize(b)._wpos = GetActiveSize(b)
         /\ Len(Normalize(b)._storage) = Len(b._storage)
         /\ GetActiveSize(Normalize(b)) = GetActiveSize(b)
<1>1. PICK w \in Nat, r \in Nat, s \in Seq(Nat) : b = [_wpos |-> w, _rpos |-> r, _storage |-> s]
  BY BufferParts
<1>2. r <= w /\ w <= Len(s) /\ Len(s) \in Nat
  BY <1>1 DEF Buffers, WellFormed
<1>. DEFINE moved == [p \in 1 .. Len(s) |-> IF p <= w - r THEN s[r + p] ELSE s[p]]
<1>3. moved \in Seq(Nat) /\ Len(moved) = Len(s)
  <2>1. \A p \in 1 .. Len(s) : s[p] \in Nat
    OBVIOUS
  <2>2. \A p \in 1 .. Len(s) : p <= w - r => r + p \in 1 .. Len(s)
    BY <1>2
  <2>3. \A p \in 1 .. Len(s) : moved[p] \in Nat
    BY <2>1, <2>2, Zenon
  <2>4. moved \in [1 .. Len(s) -> Nat]
    BY <2>3, Zenon
  <2>. HIDE DEF moved
  <2>. QED BY <1>2, <2>4, BytesInRow
<1>4. Normalize(b) = [_wpos |-> w - r, _rpos |-> 0, _storage |-> moved]
  <2>. DEFINE g(t) == [p \in 1 .. Len(t) |-> IF p <= w - r THEN t[r + p] ELSE t[p]]
  <2>1. Normalize(b) = [b EXCEPT !._storage = g(@), !._wpos = w - r, !._rpos = 0]
    BY <1>1 DEF Normalize, GetActiveSize
  <2>. HIDE DEF g
  <2>2. Normalize(b) = [_wpos |-> w - r, _rpos |-> 0, _storage |-> g(s)]
    BY <1>1, <2>1
  <2>. QED BY <2>2 DEF g
<1>5. Active(Normalize(b)) = Active(b)
  <2>1. Active(Normalize(b)) = SubSeq(moved, 1, w - r) /\ Active(b) = SubSeq(s, r + 1, w)
    <3>. HIDE DEF moved
    <3>. QED BY <1>1, <1>4 DEF Active
  <2>2. /\ Active(Normalize(b)) \in Seq(Nat) /\ Len(Active(Normalize(b))) = w - r
        /\ \A p \in 1 .. w - r : Active(Normalize(b))[p] = moved[p]
    <3>. HIDE DEF moved
    <3>. QED BY <1>2, <1>3, <2>1
  <2>3. /\ Active(b) \in Seq(Nat) /\ Len(Active(b)) = w - r
        /\ \A p \in 1 .. w - r : Active(b)[p] = s[r + p]
    BY <1>2, <2>1
  <2>4. \A p \in 1 .. w - r : p \in 1 .. Len(s) /\ p <= w - r
    BY <1>2
  <2>5. \A p \in 1 .. w - r : moved[p] = s[r + p]
    BY <2>4, Zenon
  <2>. HIDE DEF moved
  <2>. QED BY <2>2, <2>3, <2>5, SeqEqual
<1>. HIDE DEF moved
<1>. QED BY <1>1, <1>2, <1>3, <1>4, <1>5 DEF Buffers, WellFormed, GetActiveSize

LEMMA ResetEmpties ==
  ASSUME NEW b \in Buffers
  PROVE  /\ Reset(b) \in Buffers /\ GetActiveSize(Reset(b)) = 0
         /\ Reset(b)._wpos = 0 /\ Len(Reset(b)._storage) = Len(b._storage)
<1>1. PICK w \in Nat, r \in Nat, s \in Seq(Nat) : b = [_wpos |-> w, _rpos |-> r, _storage |-> s]
  BY BufferParts
<1>2. Reset(b) = [_wpos |-> 0, _rpos |-> 0, _storage |-> s]
  <2>1. [b EXCEPT !._wpos = 0] = [_wpos |-> 0, _rpos |-> r, _storage |-> s]
    BY <1>1
  <2>2. [[_wpos |-> 0, _rpos |-> r, _storage |-> s] EXCEPT !._rpos = 0]
          = [_wpos |-> 0, _rpos |-> 0, _storage |-> s]
    OBVIOUS
  <2>3. Reset(b) = [[b EXCEPT !._wpos = 0] EXCEPT !._rpos = 0]
    BY DEF Reset
  <2>. QED BY <2>1, <2>2, <2>3, Zenon
<1>. QED BY <1>1, <1>2 DEF GetActiveSize, Buffers, WellFormed

-----------------------------------------------------------------------------
(* The induction.                                                            *)

LEMMA InitInv == WriterInit => IInv
<1>. SUFFICES ASSUME WriterInit PROVE IInv
  OBVIOUS
<1>1. BlockSize \in Nat
  BY WriterAssumption
<1>2. MessageBufferOf(BlockSize) \in Buffers /\ MessageBufferOf(BlockSize)._rpos = 0
  BY <1>1, FreshBuffer
<1>3. TypeInv
  BY <1>2 DEF WriterInit, TypeInv
<1>4. LockInv /\ WaitInv
  BY DEF WriterInit, LockInv, WaitInv, OneWait
<1>5. BufferFirst
  BY <1>2 DEF WriterInit, BufferFirst, PartlySent
<1>. QED BY <1>3, <1>4, <1>5 DEF IInv

\* A wait ends with its wrapper, and begins with the flag that stands for it.
LEMMA WaitStep ==
  ASSUME WaitInv, [WriterNext]_writerVars
  PROVE  WaitInv'
<1>. USE DEF WaitInv, OneWait
<1>1. AsyncProcessQueue => WaitInv'
  BY DEF AsyncProcessQueue
<1>2. \A again \in BOOLEAN : Return(again) => WaitInv'
  BY DEF Return
<1>3. \A s \in {"buffer", "queue"} : Goto(s) => WaitInv'
  BY DEF Goto
<1>4. ASSUME CheckOpen PROVE WaitInv'
  BY <1>2, <1>3, <1>4 DEF CheckOpen, First
<1>5. ASSUME WriteBuffer PROVE WaitInv'
  BY <1>1, <1>2, <1>3, <1>5 DEF WriteBuffer
<1>6. ASSUME HandleQueue PROVE WaitInv'
  BY <1>1, <1>2, <1>6 DEF HandleQueue
<1>7. ASSUME WriteHandlerWrapper PROVE WaitInv'
  <2>1. waits = 1
    BY <1>7 DEF WriteHandlerWrapper
  <2>2. waits' = 0
    BY <1>7, <2>1 DEF WriteHandlerWrapper
  <2>3. _isWritingAsync' = FALSE
    BY <1>7 DEF WriteHandlerWrapper, ClearFlag
  <2>. QED BY <2>2, <2>3, Zenon
<1>8. ASSUME \/ \E size \in Sizes : SendPacket(size)
             \/ OwnerCloses \/ ClientReads \/ ClientGoes \/ EndIsRead \/ Update
      PROVE  WaitInv'
  BY <1>8 DEF SendPacket, OwnerCloses, ClientReads, ClientGoes, EndIsRead, Update
<1>9. CASE UNCHANGED writerVars
  BY <1>9 DEF writerVars, writerState
<1>. QED BY <1>4, <1>5, <1>6, <1>7, <1>8, <1>9 DEF WriterNext, WriteHandler

\* No message is put anywhere while somebody is writing, and a message that does
\* not follow the buffer's bytes waits behind them.
LEMMA SendStep ==
  ASSUME TypeInv, LockInv, BufferFirst, NEW size \in Sizes, SendPacket(size)
  PROVE  TypeInv' /\ LockInv' /\ BufferFirst'
<1>. DEFINE m == Message(sent + 1, size)
<1>1. size \in Nat /\ sent + 1 \in Nat
  BY WriterAssumption DEF TypeInv
<1>2. m \in Buffers /\ m._rpos = 0 /\ Active(m) \in Seq(Nat) /\ Len(Active(m)) = size
  BY <1>1, MessageIsWhole
<1>. HIDE DEF m
<1>3. lock = "free" /\ writing = "check" /\ UNCHANGED <<lock, writing>> /\ sent' = sent + 1
  BY DEF SendPacket, LockInv
<1>4. CASE /\ _writeQueue = <<>> /\ Fits(size)
           /\ _writeBuffer' = Write(_writeBuffer, Active(m)) /\ UNCHANGED _writeQueue
  <2>1. _writeBuffer' \in Buffers
    BY <1>2, <1>4, WriteFits DEF Fits, TypeInv
  <2>. QED BY <1>1, <1>3, <1>4, <2>1 DEF TypeInv, LockInv, BufferFirst, PartlySent
<1>5. CASE QueuePacket(m) /\ UNCHANGED _writeBuffer
  <2>1. _writeQueue' = Append(_writeQueue, m)
    BY <1>5 DEF QueuePacket
  <2>2. _writeQueue' \in Seq(Buffers)
    BY <1>2, <2>1 DEF TypeInv
  <2>3. \A q \in 1 .. Len(_writeQueue') : PartlySent(_writeQueue'[q]) =>
          q \in 1 .. Len(_writeQueue) /\ PartlySent(_writeQueue[q])
    BY <1>2, <2>1 DEF TypeInv, PartlySent
  <2>. QED BY <1>1, <1>3, <1>5, <2>2, <2>3 DEF TypeInv, LockInv, BufferFirst
<1>. QED BY <1>4, <1>5 DEF SendPacket, m

\* The buffer is left for the queue when it is empty.
LEMMA BufferStep ==
  ASSUME TypeInv, LockInv, BufferFirst, WriteBuffer
  PROVE  TypeInv' /\ LockInv' /\ BufferFirst'
<1>1. /\ writing = "buffer" /\ GetActiveSize(_writeBuffer) > 0
      /\ UNCHANGED <<sent, _writeQueue>>
  BY DEF WriteBuffer, LockInv
<1>2. \A q \in 1 .. Len(_writeQueue) : ~PartlySent(_writeQueue[q])
  BY <1>1 DEF BufferFirst
<1>3. CASE (AsyncProcessQueue \/ Return(FALSE)) /\ _writeBuffer' \in Buffers
  BY <1>1, <1>2, <1>3 DEF AsyncProcessQueue, Return, TypeInv, LockInv, BufferFirst
<1>4. CASE Goto("queue") /\ _writeBuffer' = Reset(_writeBuffer)
  BY <1>1, <1>2, <1>4, ResetEmpties DEF Goto, TypeInv, LockInv, BufferFirst
<1>5. \A n \in 1 .. GetActiveSize(_writeBuffer) : Normalize(Unsent(_writeBuffer, n)) \in Buffers
  BY ReadRest, NormalizeKeeps DEF TypeInv
<1>. QED BY <1>3, <1>4, <1>5 DEF WriteBuffer, TypeInv

\* Only the message at the head of the queue is ever sent in part.
LEMMA QueueStep ==
  ASSUME TypeInv, LockInv, BufferFirst, HandleQueue
  PROVE  TypeInv' /\ LockInv' /\ BufferFirst'
<1>1. /\ writing = "queue" /\ GetActiveSize(_writeBuffer) = 0
      /\ UNCHANGED <<sent, _writeBuffer>>
  BY DEF HandleQueue, BufferFirst
<1>2. /\ writing' = "check" /\ lock' \in {"free", "network", "io"}
  BY DEF HandleQueue, AsyncProcessQueue, Return, TypeInv
<1>3. CASE UNCHANGED _writeQueue
  BY <1>1, <1>2, <1>3 DEF TypeInv, LockInv, BufferFirst
<1>4. CASE _writeQueue # <<>> /\ _writeQueue' = Tail(_writeQueue)
  <2>1. /\ Tail(_writeQueue) \in Seq(Buffers) /\ Len(Tail(_writeQueue)) = Len(_writeQueue) - 1
        /\ \A q \in 1 .. Len(Tail(_writeQueue)) : Tail(_writeQueue)[q] = _writeQueue[q + 1]
    BY <1>4 DEF TypeInv
  <2>2. \A q \in 1 .. Len(Tail(_writeQueue)) : q + 1 \in 1 .. Len(_writeQueue) /\ q + 1 # 1
    BY <2>1 DEF TypeInv
  <2>3. \A q \in 1 .. Len(_writeQueue') : ~PartlySent(_writeQueue'[q])
    BY <1>4, <2>1, <2>2 DEF BufferFirst
  <2>. QED BY <1>1, <1>2, <1>4, <2>1, <2>3 DEF TypeInv, LockInv, BufferFirst
<1>5. CASE /\ _writeQueue # <<>>
           /\ \E n \in 1 .. GetActiveSize(Head(_writeQueue)) :
                _writeQueue' = [_writeQueue EXCEPT ![1] = Unsent(Head(_writeQueue), n)]
  <2>1. Head(_writeQueue) \in Buffers
    BY <1>5 DEF TypeInv
  <2>2. PICK m \in Buffers : _writeQueue' = [_writeQueue EXCEPT ![1] = m]
    BY <1>5, <2>1, ReadRest
  <2>3. /\ _writeQueue' \in Seq(Buffers) /\ Len(_writeQueue') = Len(_writeQueue)
        /\ \A q \in 1 .. Len(_writeQueue) : q # 1 => _writeQueue'[q] = _writeQueue[q]
    BY <1>5, <2>2 DEF TypeInv
  <2>. QED BY <1>1, <1>2, <2>3 DEF TypeInv, LockInv, BufferFirst
<1>. QED BY <1>3, <1>4, <1>5 DEF HandleQueue

\* The steps that touch neither buffer nor queue.
LEMMA OtherStep ==
  ASSUME TypeInv, LockInv, BufferFirst,
         \/ OwnerCloses \/ ClientReads \/ ClientGoes \/ EndIsRead
         \/ Update \/ WriteHandlerWrapper \/ CheckOpen \/ UNCHANGED writerVars
  PROVE  TypeInv' /\ LockInv' /\ BufferFirst'
<1>. USE DEF TypeInv, LockInv, BufferFirst
<1>1. CASE OwnerCloses \/ ClientReads \/ ClientGoes \/ EndIsRead \/ UNCHANGED writerVars
  BY <1>1 DEF OwnerCloses, ClientReads, ClientGoes, EndIsRead, writerVars, writerState, queues
<1>2. CASE Update \/ WriteHandlerWrapper
  BY <1>2 DEF Update, WriteHandlerWrapper, queues
<1>3. CASE CheckOpen
  <2>1. GetActiveSize(_writeBuffer) \in Nat
    BY DEF Buffers, WellFormed, GetActiveSize
  <2>. QED BY <1>3, <2>1 DEF CheckOpen, First, Goto, Return, queues
<1>. QED BY <1>1, <1>2, <1>3

LEMMA NextInv == IInv /\ [WriterNext]_writerVars => IInv'
<1>. SUFFICES ASSUME IInv, [WriterNext]_writerVars PROVE IInv'
  OBVIOUS
<1>1. WaitInv'
  BY WaitStep DEF IInv
<1>2. TypeInv' /\ LockInv' /\ BufferFirst'
  BY SendStep, BufferStep, QueueStep, OtherStep DEF IInv, WriterNext, WriteHandler
<1>. QED BY <1>1, <1>2 DEF IInv

LEMMA WriterInv == WriterSpec => []IInv
BY InitInv, NextInv, PTL DEF WriterSpec

-----------------------------------------------------------------------------
\* While _isWritingAsync is set exactly one async_write_some is under way, and
\* none while it is not, however Update and WriteHandlerWrapper alternate.
THEOREM WaitsOnce == WriterSpec => []OneWait
BY WriterInv, PTL DEF IInv, WaitInv

\* No queued message overtakes the bytes in the write buffer, and none is sent
\* in part but the head of the queue: AsyncProcessQueue continues where the
\* write before has stopped.
THEOREM BufferGoesFirst == WriterSpec => []BufferFirst
BY WriterInv, PTL DEF IInv

\* No message is written behind the end of a MessageBuffer, and no more is sent
\* from one than it holds: the positions that no member function tests.
THEOREM BuffersStayWhole ==
  WriterSpec => [](/\ WellFormed(_writeBuffer)
                   /\ \A q \in 1 .. Len(_writeQueue) : WellFormed(_writeQueue[q]))
<1>1. IInv => /\ WellFormed(_writeBuffer)
              /\ \A q \in 1 .. Len(_writeQueue) : WellFormed(_writeQueue[q])
  BY DEF IInv, TypeInv, Buffers
<1>. QED BY <1>1, WriterInv, PTL

-----------------------------------------------------------------------------
(***************************************************************************)
(* The receiving half.                                                     *)
(***************************************************************************)
\* What is inductive, with the reader's own properties.  A payload buffer is as
\* large as a payload whenever the header is complete, and is never reset.
BytesInv ==
  /\ arrived \in Nat /\ unread \in Seq(Nat) /\ taken \in Seq(Nat)
  /\ _readBuffer \in Buffers /\ GetBufferSize(_readBuffer) > 0
KindInv ==
  /\ kind \in {"none", "fiesta", "inter"}
  /\ kind = "none" <=> reading = "start"
  /\ kind = "none" => GetActiveSize(_readBuffer) = 0
  /\ kind # "fiesta" => GetBufferSize(_readBuffer) = ReadBlock
  /\ kind = "fiesta" => reading \notin {"ask", "payload"}
  /\ kind # "inter" => taken = <<>>
PacketInv ==
  /\ _headerBuffer \in Buffers /\ GetBufferSize(_headerBuffer) = HeaderSize
  /\ _packetBuffer \in Buffers /\ _packetBuffer._wpos <= PayloadSize
  /\ \/ reading = "payload"
     \/ reading # "crashed" /\ GetRemainingSpace(_headerBuffer) = 0
     => GetBufferSize(_packetBuffer) = PayloadSize
ReaderInv ==
  BytesInv /\ KindInv /\ PacketInv /\ ReadsHaveRoom /\ NoByteLost /\ BuffersBounded

-----------------------------------------------------------------------------
(* Streams.                                                                  *)

LEMMA InRow == \A a, b, c \in Seq(Nat) : (a \o b) \o c = a \o (b \o c)
BY ConcatAssociative

LEMMA ThreeInRow ==
  ASSUME NEW a \in Seq(Nat), NEW b \in Seq(Nat), NEW c \in Seq(Nat)
  PROVE  /\ a \o b \o c \in Seq(Nat) /\ a \o b \in Seq(Nat)
         /\ Len(a \o b \o c) = Len(a) + Len(b) + Len(c)
         /\ a \o b \o c = a \o (b \o c)
<1>1. a \o b \in Seq(Nat) /\ Len(a \o b) = Len(a) + Len(b)
  BY ConcatProperties
<1>2. (a \o b) \o c \in Seq(Nat) /\ Len((a \o b) \o c) = Len(a \o b) + Len(c)
  BY <1>1, ConcatProperties
<1>. QED BY <1>1, <1>2, InRow

LEMMA OneMore ==
  ASSUME NEW a \in Seq(Nat), NEW b \in Seq(Nat), NEW x \in Nat
  PROVE  a \o Append(b, x) = Append(a \o b, x)
<1>1. a \o b \in Seq(Nat) /\ Len(a \o b) = Len(a) + Len(b)
      /\ \A p \in 1 .. Len(a) + Len(b) : (a \o b)[p] = IF p <= Len(a) THEN a[p] ELSE b[p - Len(a)]
  BY ConcatProperties
<1>2. Append(b, x) \in Seq(Nat) /\ Len(Append(b, x)) = Len(b) + 1
  OBVIOUS
<1>3. a \o Append(b, x) \in Seq(Nat) /\ Len(a \o Append(b, x)) = Len(a) + (Len(b) + 1)
      /\ \A p \in 1 .. Len(a) + (Len(b) + 1) :
           (a \o Append(b, x))[p] = IF p <= Len(a) THEN a[p] ELSE Append(b, x)[p - Len(a)]
  <2>. DEFINE c == Append(b, x)
  <2>. HIDE DEF c
  <2>1. c \in Seq(Nat) /\ Len(c) = Len(b) + 1
    BY <1>2 DEF c
  <2>2. a \o c \in Seq(Nat) /\ Len(a \o c) = Len(a) + Len(c)
        /\ \A p \in 1 .. Len(a) + Len(c) : (a \o c)[p] = IF p <= Len(a) THEN a[p] ELSE c[p - Len(a)]
    BY <2>1, ConcatProperties
  <2>. QED BY <2>1, <2>2 DEF c
<1>4. Append(a \o b, x) \in Seq(Nat) /\ Len(Append(a \o b, x)) = Len(a) + Len(b) + 1
  BY <1>1
<1>5. ASSUME NEW p \in 1 .. Len(a) + Len(b) + 1
      PROVE  (a \o Append(b, x))[p] = Append(a \o b, x)[p]
  <2>1. Len(a) \in Nat /\ Len(b) \in Nat
    OBVIOUS
  <2>2. p \in 1 .. Len(a) + (Len(b) + 1)
    BY <2>1
  <2>3. (a \o Append(b, x))[p] = IF p <= Len(a) THEN a[p] ELSE Append(b, x)[p - Len(a)]
    BY <1>3, <2>2
  <2>4. Append(a \o b, x)[p] = IF p <= Len(a) + Len(b) THEN (a \o b)[p] ELSE x
    <3>. DEFINE ab == a \o b
    <3>1. ab \in Seq(Nat) /\ Len(ab) = Len(a) + Len(b)
      BY <1>1
    <3>. HIDE DEF ab
    <3>2. Append(ab, x)[p] = IF p <= Len(ab) THEN ab[p] ELSE x
      BY <2>1, <3>1
    <3>. QED BY <3>1, <3>2 DEF ab
  <2>5. CASE p <= Len(a)
    BY <1>1, <2>1, <2>3, <2>4, <2>5
  <2>6. CASE ~(p <= Len(a)) /\ p <= Len(a) + Len(b)
    <3>1. p - Len(a) \in 1 .. Len(b)
      BY <2>1, <2>6
    <3>2. Append(b, x)[p - Len(a)] = b[p - Len(a)]
      BY <2>1, <3>1
    <3>. QED BY <1>1, <2>1, <2>3, <2>4, <2>6, <3>2
  <2>7. CASE p = Len(a) + Len(b) + 1
    <3>1. p - Len(a) = Len(b) + 1
      BY <2>1, <2>7
    <3>2. Append(b, x)[Len(b) + 1] = x
      OBVIOUS
    <3>. QED BY <2>1, <2>3, <2>4, <2>7, <3>1, <3>2
  <2>. QED BY <2>1, <2>5, <2>6, <2>7
<1>. QED BY <1>3, <1>4, <1>5, SeqEqual

\* A sequence cut in two.
LEMMA CutInTwo ==
  ASSUME NEW s \in Seq(Nat), NEW n \in 0 .. Len(s)
  PROVE  /\ SubSeq(s, 1, n) \in Seq(Nat) /\ Len(SubSeq(s, 1, n)) = n
         /\ SubSeq(s, n + 1, Len(s)) \in Seq(Nat)
         /\ SubSeq(s, 1, n) \o SubSeq(s, n + 1, Len(s)) = s
<1>. DEFINE front == SubSeq(s, 1, n)
            rest == SubSeq(s, n + 1, Len(s))
<1>1. front \in Seq(Nat) /\ Len(front) = n /\ \A p \in 1 .. n : front[p] = s[p]
  OBVIOUS
<1>2. rest \in Seq(Nat) /\ Len(rest) = Len(s) - n /\ \A p \in 1 .. Len(s) - n : rest[p] = s[n + p]
  OBVIOUS
<1>. HIDE DEF front, rest
<1>3. front \o rest \in Seq(Nat) /\ Len(front \o rest) = Len(front) + Len(rest)
      /\ \A p \in 1 .. Len(front) + Len(rest) :
           (front \o rest)[p] = IF p <= Len(front) THEN front[p] ELSE rest[p - Len(front)]
  BY <1>1, <1>2, ConcatProperties
<1>4. Len(front) + Len(rest) = Len(s)
  BY <1>1, <1>2
<1>5. ASSUME NEW p \in 1 .. Len(s)
      PROVE  (front \o rest)[p] = s[p]
  <2>1. CASE p <= n
    BY <1>1, <1>3, <1>4, <2>1
  <2>2. CASE ~(p <= n)
    <3>1. p - n \in 1 .. Len(s) - n /\ n + (p - n) = p
      BY <2>2
    <3>. QED BY <1>1, <1>2, <1>3, <1>4, <2>2, <3>1
  <2>. QED BY <2>1, <2>2
<1>6. front \o rest = s
  BY <1>3, <1>4, <1>5, SeqEqual
<1>. QED BY <1>1, <1>2, <1>6 DEF front, rest

-----------------------------------------------------------------------------
(* The operations on a buffer, and the bytes that are active in it.          *)

LEMMA ActiveBytes ==
  ASSUME NEW b \in Buffers
  PROVE  /\ Active(b) \in Seq(Nat) /\ Len(Active(b)) = GetActiveSize(b)
         /\ GetActiveSize(b) \in Nat /\ GetRemainingSpace(b) \in Nat
         /\ \A p \in 1 .. GetActiveSize(b) : Active(b)[p] = b._storage[b._rpos + p]
<1>1. PICK w \in Nat, r \in Nat, s \in Seq(Nat) : b = [_wpos |-> w, _rpos |-> r, _storage |-> s]
  BY BufferParts
<1>2. r <= w /\ w <= Len(s) /\ Len(s) \in Nat
  BY <1>1 DEF Buffers, WellFormed
<1>3. Active(b) = SubSeq(s, r + 1, w)
  BY <1>1 DEF Active
<1>4. /\ Active(b) \in Seq(Nat) /\ Len(Active(b)) = w - r
      /\ \A p \in 1 .. w - r : Active(b)[p] = s[r + p]
  BY <1>2, <1>3
<1>. QED BY <1>1, <1>2, <1>4, SMTT(30) DEF GetActiveSize, GetRemainingSpace

\* What is written comes behind what is active.
LEMMA WriteAppends ==
  ASSUME NEW b \in Buffers, NEW data \in Seq(Nat), Len(data) <= GetRemainingSpace(b)
  PROVE  Active(Write(b, data)) = Active(b) \o data
<1>1. PICK w \in Nat, r \in Nat, s \in Seq(Nat) : b = [_wpos |-> w, _rpos |-> r, _storage |-> s]
  BY BufferParts
<1>2. r <= w /\ w + Len(data) <= Len(s) /\ Len(s) \in Nat /\ Len(data) \in Nat
  BY <1>1 DEF Buffers, WellFormed, GetRemainingSpace
<1>3. /\ Write(b, data) \in Buffers /\ Write(b, data)._rpos = r /\ Write(b, data)._wpos = w + Len(data)
  BY <1>1, WriteFits
<1>4. \A p \in 1 .. Len(s) : Write(b, data)._storage[p] = IF p - w \in 1 .. Len(data) THEN data[p - w] ELSE s[p]
  <2>. DEFINE g(t) == [p \in 1 .. Len(t) |-> IF p - w \in 1 .. Len(data) THEN data[p - w] ELSE t[p]]
  <2>1. Fill(b, data) = [b EXCEPT !._storage = g(@)]
    BY <1>1 DEF Fill
  <2>. HIDE DEF g
  <2>2. Fill(b, data) = [_wpos |-> w, _rpos |-> r, _storage |-> g(s)]
    BY <1>1, <2>1
  <2>3. Write(b, data)._storage = g(s)
    BY <2>2 DEF Write, WriteCompleted
  <2>. QED BY <2>3 DEF g
<1>5. /\ Active(Write(b, data)) \in Seq(Nat) /\ Len(Active(Write(b, data))) = w - r + Len(data)
      /\ \A p \in 1 .. w - r + Len(data) : Active(Write(b, data))[p] = Write(b, data)._storage[r + p]
  <2>1. GetActiveSize(Write(b, data)) = w - r + Len(data)
    BY <1>2, <1>3 DEF GetActiveSize
  <2>. QED BY <1>3, <2>1, ActiveBytes
<1>6. /\ Active(b) \in Seq(Nat) /\ Len(Active(b)) = w - r
      /\ \A p \in 1 .. w - r : Active(b)[p] = s[r + p]
  BY <1>1, ActiveBytes DEF GetActiveSize
<1>7. /\ Active(b) \o data \in Seq(Nat) /\ Len(Active(b) \o data) = w - r + Len(data)
      /\ \A p \in 1 .. w - r + Len(data) :
           (Active(b) \o data)[p] = IF p <= w - r THEN Active(b)[p] ELSE data[p - (w - r)]
  <2>1. PICK t \in Seq(Nat) : t = Active(b)
    BY <1>6
  <2>2. /\ t \o data \in Seq(Nat) /\ Len(t \o data) = Len(t) + Len(data)
        /\ \A p \in 1 .. Len(t) + Len(data) : (t \o data)[p] = IF p <= Len(t) THEN t[p] ELSE data[p - Len(t)]
    BY ConcatProperties
  <2>. QED BY <1>6, <2>1, <2>2
<1>8. ASSUME NEW p \in 1 .. w - r + Len(data)
      PROVE  Active(Write(b, data))[p] = (Active(b) \o data)[p]
  <2>1. r + p \in 1 .. Len(s) /\ r + p - w = p - (w - r)
    BY <1>2
  <2>2. Active(Write(b, data))[p] = IF r + p - w \in 1 .. Len(data) THEN data[r + p - w] ELSE s[r + p]
    BY <1>4, <1>5, <2>1
  <2>3. CASE p <= w - r
    <3>1. p \in 1 .. w - r /\ r + p - w \notin 1 .. Len(data)
      BY <1>2, <2>3
    <3>. QED BY <1>6, <1>7, <2>2, <2>3, <3>1
  <2>4. CASE ~(p <= w - r)
    <3>1. r + p - w \in 1 .. Len(data)
      BY <1>2, <2>4
    <3>. QED BY <1>7, <2>1, <2>2, <2>4, <3>1
  <2>. QED BY <2>3, <2>4
<1>. QED BY <1>5, <1>7, <1>8, SeqEqual

\* A block that stays large enough for what was written keeps it.
LEMMA ResizeKeeps ==
  ASSUME NEW b \in Buffers, NEW bytes \in Nat, b._wpos <= bytes
  PROVE  /\ Resize(b, bytes) \in Buffers /\ Active(Resize(b, bytes)) = Active(b)
         /\ Resize(b, bytes)._rpos = b._rpos /\ Resize(b, bytes)._wpos = b._wpos
         /\ Len(Resize(b, bytes)._storage) = bytes
<1>1. PICK w \in Nat, r \in Nat, s \in Seq(Nat) : b = [_wpos |-> w, _rpos |-> r, _storage |-> s]
  BY BufferParts
<1>2. r <= w /\ w <= Len(s) /\ Len(s) \in Nat /\ w <= bytes
  BY <1>1 DEF Buffers, WellFormed
<1>. DEFINE g(t) == [p \in 1 .. bytes |-> IF p <= Len(t) THEN t[p] ELSE Zero]
<1>3. g(s) \in [1 .. bytes -> Nat]
  <2>1. \A p \in 1 .. Len(s) : s[p] \in Nat
    OBVIOUS
  <2>. QED BY <1>2, <2>1 DEF Zero
<1>4. Resize(b, bytes) = [b EXCEPT !._storage = g(@)]
  BY <1>1 DEF Resize
<1>5. \A p \in 1 .. bytes : p <= Len(s) => g(s)[p] = s[p]
  OBVIOUS
<1>. HIDE DEF g
<1>6. g(s) \in Seq(Nat) /\ Len(g(s)) = bytes
  BY <1>3, BytesInRow
<1>7. Resize(b, bytes) = [_wpos |-> w, _rpos |-> r, _storage |-> g(s)]
  BY <1>1, <1>4
<1>8. Resize(b, bytes) \in Buffers
  BY <1>2, <1>6, <1>7 DEF Buffers, WellFormed
<1>9. Active(Resize(b, bytes)) = Active(b)
  <2>1. /\ Active(Resize(b, bytes)) \in Seq(Nat) /\ Len(Active(Resize(b, bytes))) = w - r
        /\ \A p \in 1 .. w - r : Active(Resize(b, bytes))[p] = g(s)[r + p]
    BY <1>7, <1>8, ActiveBytes DEF GetActiveSize
  <2>2. /\ Active(b) \in Seq(Nat) /\ Len(Active(b)) = w - r
        /\ \A p \in 1 .. w - r : Active(b)[p] = s[r + p]
    BY <1>1, ActiveBytes DEF GetActiveSize
  <2>3. \A p \in 1 .. w - r : r + p \in 1 .. bytes /\ r + p <= Len(s)
    BY <1>2
  <2>. QED BY <1>5, <2>1, <2>2, <2>3, SeqEqual
<1>. QED BY <1>1, <1>6, <1>7, <1>8, <1>9

\* Before a read, the active bytes are at the front and there is room behind.
LEMMA PreparedHasRoom ==
  ASSUME NEW b \in Buffers, GetBufferSize(b) > 0
  PROVE  /\ Prepared(b) \in Buffers /\ Active(Prepared(b)) = Active(b)
         /\ GetRemainingSpace(Prepared(b)) > 0
         /\ GetBufferSize(Prepared(b)) =
              IF GetActiveSize(b) = GetBufferSize(b) THEN 2 * GetActiveSize(b) ELSE GetBufferSize(b)
<1>. DEFINE n == Normalize(b)
<1>1. /\ n \in Buffers /\ Active(n) = Active(b) /\ n._wpos = GetActiveSize(b)
      /\ Len(n._storage) = Len(b._storage)
  BY NormalizeKeeps
<1>2. GetActiveSize(b) \in Nat /\ Len(b._storage) \in Nat /\ GetActiveSize(b) <= Len(b._storage)
  BY DEF Buffers, WellFormed, GetActiveSize
<1>. HIDE DEF n
<1>3. CASE GetActiveSize(b) = GetBufferSize(b)
  <2>1. Prepared(b) = Resize(n, 2 * GetActiveSize(b))
    BY <1>1, <1>3 DEF Prepared, EnsureFreeSpace, GetRemainingSpace, GetBufferSize, n
  <2>2. 2 * GetActiveSize(b) \in Nat /\ n._wpos <= 2 * GetActiveSize(b)
    BY <1>1, <1>2
  <2>3. /\ Prepared(b) \in Buffers /\ Active(Prepared(b)) = Active(n)
        /\ Prepared(b)._wpos = GetActiveSize(b) /\ Len(Prepared(b)._storage) = 2 * GetActiveSize(b)
    BY <1>1, <2>1, <2>2, ResizeKeeps
  <2>. QED BY <1>1, <1>2, <1>3, <2>3 DEF GetBufferSize, GetRemainingSpace
<1>4. CASE GetActiveSize(b) # GetBufferSize(b)
  <2>1. Prepared(b) = n
    BY <1>1, <1>2, <1>4 DEF Prepared, EnsureFreeSpace, GetRemainingSpace, GetBufferSize, n
  <2>. QED BY <1>1, <1>2, <1>4, <2>1 DEF GetBufferSize, GetRemainingSpace
<1>. QED BY <1>3, <1>4

\* The bytes that are read first come off the active ones.
LEMMA ReadTakes ==
  ASSUME NEW b \in Buffers, NEW n \in Nat, n <= GetActiveSize(b)
  PROVE  /\ ReadCompleted(b, n) \in Buffers
         /\ ReadCompleted(b, n)._storage = b._storage
         /\ GetActiveSize(ReadCompleted(b, n)) = GetActiveSize(b) - n
         /\ SubSeq(Active(b), 1, n) \in Seq(Nat) /\ Len(SubSeq(Active(b), 1, n)) = n
         /\ SubSeq(Active(b), 1, n) \o Active(ReadCompleted(b, n)) = Active(b)
<1>1. PICK w \in Nat, r \in Nat, s \in Seq(Nat) : b = [_wpos |-> w, _rpos |-> r, _storage |-> s]
  BY BufferParts
<1>2. r + n <= w /\ w <= Len(s) /\ Len(s) \in Nat
  BY <1>1 DEF Buffers, WellFormed, GetActiveSize
<1>3. ReadCompleted(b, n) = [_wpos |-> w, _rpos |-> r + n, _storage |-> s]
  BY <1>1 DEF ReadCompleted
<1>4. ReadCompleted(b, n) \in Buffers
  BY <1>2, <1>3 DEF Buffers, WellFormed
<1>. DEFINE front == SubSeq(Active(b), 1, n)
            rest == Active(ReadCompleted(b, n))
<1>5. /\ Active(b) \in Seq(Nat) /\ Len(Active(b)) = w - r
      /\ \A p \in 1 .. w - r : Active(b)[p] = s[r + p]
  BY <1>1, ActiveBytes DEF GetActiveSize
<1>6. /\ rest \in Seq(Nat) /\ Len(rest) = w - (r + n)
      /\ \A p \in 1 .. w - (r + n) : rest[p] = s[r + n + p]
  BY <1>3, <1>4, ActiveBytes DEF GetActiveSize
<1>7. front \in Seq(Nat) /\ Len(front) = n /\ \A p \in 1 .. n : front[p] = Active(b)[p]
  BY <1>2, <1>5, SMTT(30)
<1>. HIDE DEF front, rest
<1>8. /\ front \o rest \in Seq(Nat) /\ Len(front \o rest) = w - r
      /\ \A p \in 1 .. w - r : (front \o rest)[p] = IF p <= n THEN front[p] ELSE rest[p - n]
  <2>1. Len(front) + Len(rest) = w - r
    BY <1>2, <1>6, <1>7
  <2>2. /\ front \o rest \in Seq(Nat) /\ Len(front \o rest) = Len(front) + Len(rest)
        /\ \A p \in 1 .. Len(front) + Len(rest) :
             (front \o rest)[p] = IF p <= Len(front) THEN front[p] ELSE rest[p - Len(front)]
    <3>1. front \in Seq(Nat) /\ rest \in Seq(Nat)
      BY <1>6, <1>7
    <3>. QED BY <3>1, ConcatProperties
  <2>. QED BY <1>7, <2>1, <2>2
<1>9. ASSUME NEW p \in 1 .. w - r
      PROVE  (front \o rest)[p] = Active(b)[p]
  <2>1. CASE p <= n
    BY <1>7, <1>8, <2>1
  <2>2. CASE ~(p <= n)
    <3>1. p - n \in 1 .. w - (r + n) /\ r + n + (p - n) = r + p
      BY <1>2, <2>2
    <3>. QED BY <1>5, <1>6, <1>8, <2>2, <3>1
  <2>. QED BY <2>1, <2>2
<1>10. front \o rest = Active(b)
  BY <1>5, <1>8, <1>9, SeqEqual
<1>11. /\ ReadCompleted(b, n)._storage = b._storage
       /\ GetActiveSize(ReadCompleted(b, n)) = GetActiveSize(b) - n
  BY <1>1, <1>3 DEF GetActiveSize
<1>12. /\ SubSeq(Active(b), 1, n) \in Seq(Nat) /\ Len(SubSeq(Active(b), 1, n)) = n
  BY <1>7 DEF front
<1>13. SubSeq(Active(b), 1, n) \o Active(ReadCompleted(b, n)) = Active(b)
  BY <1>10 DEF front, rest
<1>. QED BY <1>4, <1>11, <1>12, <1>13

-----------------------------------------------------------------------------
(* The induction.                                                            *)

\* The sizes of the three buffers.
LEMMA ConstantSizes ==
  /\ ReadBlock \in Nat \ {0} /\ HeaderSize \in Nat \ {0} /\ PayloadSize \in Nat
BY ReaderAssumption DEF PayloadSize

\* The bytes that have arrived, counted.
LEMMA Counted ==
  ASSUME BytesInv, NoByteLost
  PROVE  arrived = Len(taken) + GetActiveSize(_readBuffer) + Len(unread)
<1>1. /\ Active(_readBuffer) \in Seq(Nat) /\ Len(Active(_readBuffer)) = GetActiveSize(_readBuffer)
      /\ taken \in Seq(Nat) /\ unread \in Seq(Nat)
  BY ActiveBytes DEF BytesInv
<1>2. Len([p \in 1 .. arrived |-> p]) = arrived
  BY DEF BytesInv
<1>3. Len(taken \o Active(_readBuffer) \o unread) = Len(taken) + Len(Active(_readBuffer)) + Len(unread)
  BY <1>1, ThreeInRow, ZenonT(60)
<1>. QED BY <1>1, <1>2, <1>3 DEF NoByteLost

LEMMA ReaderInitInv ==
  ASSUME ReaderInit
  PROVE  ReaderInv
<1>1. /\ _readBuffer \in Buffers /\ GetBufferSize(_readBuffer) = ReadBlock
      /\ GetActiveSize(_readBuffer) = 0
  BY ConstantSizes, FreshBuffer DEF ReaderInit, GetBufferSize, GetActiveSize
<1>2. Active(_readBuffer) = <<>>
  BY <1>1, ActiveBytes
<1>3. /\ _headerBuffer \in Buffers /\ GetBufferSize(_headerBuffer) = HeaderSize
      /\ GetRemainingSpace(_headerBuffer) > 0
  BY ConstantSizes, FreshBuffer, ResizeKeeps DEF ReaderInit, GetBufferSize, GetRemainingSpace
<1>4. _packetBuffer \in Buffers /\ _packetBuffer._wpos <= PayloadSize
  BY ConstantSizes, FreshBuffer DEF ReaderInit
<1>5. NoByteLost
  BY <1>2 DEF ReaderInit, NoByteLost
<1>6. BytesInv /\ KindInv
  BY <1>1, ConstantSizes DEF ReaderInit, BytesInv, KindInv
<1>7. PacketInv /\ ReadsHaveRoom /\ BuffersBounded
  BY <1>3, <1>4 DEF ReaderInit, PacketInv, ReadsHaveRoom, BuffersBounded
<1>. QED BY <1>5, <1>6, <1>7 DEF ReaderInv

\* The next read has room to go to, and the bytes that wait stay where they are.
LEMMA AsyncReadKeeps ==
  ASSUME BytesInv, AsyncRead
  PROVE  /\ _readBuffer' \in Buffers /\ Active(_readBuffer') = Active(_readBuffer)
         /\ GetActiveSize(_readBuffer') = GetActiveSize(_readBuffer)
         /\ GetBufferSize(_readBuffer') > 0
         /\ \/ GetBufferSize(_readBuffer') = GetBufferSize(_readBuffer)
            \/ /\ GetActiveSize(_readBuffer) = GetBufferSize(_readBuffer)
               /\ GetBufferSize(_readBuffer') = 2 * GetActiveSize(_readBuffer)
         /\ reading' \in {"reading", "ended"}
         /\ reading' = "reading" => GetRemainingSpace(_readBuffer') > 0
<1>1. \/ _readBuffer' = Prepared(_readBuffer) /\ reading' = "reading"
      \/ _readBuffer' = _readBuffer /\ reading' = "ended"
  BY DEF AsyncRead
<1>2. CASE _readBuffer' = Prepared(_readBuffer) /\ reading' = "reading"
  <2>1. /\ _readBuffer' \in Buffers /\ Active(_readBuffer') = Active(_readBuffer)
        /\ GetRemainingSpace(_readBuffer') > 0
        /\ GetBufferSize(_readBuffer') =
             IF GetActiveSize(_readBuffer) = GetBufferSize(_readBuffer)
             THEN 2 * GetActiveSize(_readBuffer) ELSE GetBufferSize(_readBuffer)
    BY <1>2, PreparedHasRoom DEF BytesInv
  <2>2. GetActiveSize(_readBuffer') = GetActiveSize(_readBuffer) /\ GetActiveSize(_readBuffer) \in Nat
        /\ GetBufferSize(_readBuffer) \in Nat
    BY <2>1, ActiveBytes DEF BytesInv, Buffers, GetBufferSize
  <2>. QED BY <1>2, <2>1, <2>2 DEF BytesInv
<1>3. CASE _readBuffer' = _readBuffer /\ reading' = "ended"
  BY <1>3 DEF BytesInv
<1>. QED BY <1>1, <1>2, <1>3

\* So the stream is as it was.
LEMMA StreamKept ==
  ASSUME NoByteLost, UNCHANGED <<arrived, unread, taken>>,
         Active(_readBuffer') = Active(_readBuffer)
  PROVE  NoByteLost'
BY DEF NoByteLost

LEMMA StartStep ==
  ASSUME ReaderInv, NEW k \in {"fiesta", "inter"}, Start(k)
  PROVE  ReaderInv'
<1>1. /\ reading = "start" /\ kind = "none" /\ reading' = "opened" /\ kind' = k
      /\ UNCHANGED <<arrived, unread, taken, _headerBuffer, _packetBuffer>>
      /\ _readBuffer' = Prepared(_readBuffer)
  BY DEF Start, ReaderInv, KindInv
<1>2. /\ GetActiveSize(_readBuffer) = 0 /\ GetBufferSize(_readBuffer) = ReadBlock
      /\ _readBuffer \in Buffers /\ GetBufferSize(_readBuffer) > 0
  BY <1>1 DEF ReaderInv, KindInv, BytesInv
<1>3. /\ _readBuffer' \in Buffers /\ Active(_readBuffer') = Active(_readBuffer)
      /\ GetRemainingSpace(_readBuffer') > 0 /\ GetBufferSize(_readBuffer') = ReadBlock
  BY <1>1, <1>2, PreparedHasRoom, ConstantSizes
<1>4. NoByteLost'
  BY <1>1, <1>3, StreamKept DEF ReaderInv
<1>5. taken = <<>>
  BY <1>1 DEF ReaderInv, KindInv
<1>6. BytesInv' /\ KindInv'
  BY <1>1, <1>3, <1>5, ConstantSizes DEF ReaderInv, BytesInv, KindInv
<1>7. PacketInv' /\ ReadsHaveRoom' /\ BuffersBounded'
  BY <1>1, <1>3, ConstantSizes DEF ReaderInv, PacketInv, ReadsHaveRoom, BuffersBounded
<1>. QED BY <1>4, <1>6, <1>7 DEF ReaderInv

\* A byte more is unread.
LEMMA SendsStep ==
  ASSUME ReaderInv, ClientSends
  PROVE  ReaderInv'
<1>1. /\ arrived' = arrived + 1 /\ unread' = Append(unread, arrived + 1)
      /\ UNCHANGED <<kind, reading, taken, _readBuffer, _headerBuffer, _packetBuffer>>
  BY DEF ClientSends, buffers
<1>2. arrived \in Nat /\ unread \in Seq(Nat) /\ taken \in Seq(Nat)
      /\ Active(_readBuffer) \in Seq(Nat)
  BY ActiveBytes DEF ReaderInv, BytesInv
<1>3. NoByteLost'
  <2>. DEFINE before == taken \o Active(_readBuffer)
              ident(n) == [p \in 1 .. n |-> p]
  <2>1. before \in Seq(Nat) /\ before \o unread = ident(arrived)
    BY <1>2 DEF ReaderInv, NoByteLost
  <2>2. ident(arrived + 1) = Append(ident(arrived), arrived + 1)
    <3>1. /\ ident(arrived) \in Seq(Nat) /\ Len(ident(arrived)) = arrived
          /\ ident(arrived + 1) \in Seq(Nat) /\ Len(ident(arrived + 1)) = arrived + 1
          /\ \A p \in 1 .. arrived : ident(arrived)[p] = p
          /\ \A p \in 1 .. arrived + 1 : ident(arrived + 1)[p] = p
      BY <1>2
    <3>. HIDE DEF ident
    <3>2. /\ Append(ident(arrived), arrived + 1) \in Seq(Nat)
          /\ Len(Append(ident(arrived), arrived + 1)) = arrived + 1
          /\ \A p \in 1 .. arrived + 1 : Append(ident(arrived), arrived + 1)[p] = p
      BY <1>2, <3>1
    <3>. QED BY <3>1, <3>2, SeqEqual
  <2>. HIDE DEF before, ident
  <2>3. before \o Append(unread, arrived + 1) = Append(before \o unread, arrived + 1)
    BY <1>2, <2>1, OneMore, SMTT(30)
  <2>. QED BY <1>1, <2>1, <2>2, <2>3 DEF NoByteLost, before, ident
<1>4. BytesInv' /\ KindInv' /\ PacketInv' /\ ReadsHaveRoom'
  BY <1>1, <1>2 DEF ReaderInv, BytesInv, KindInv, PacketInv, ReadsHaveRoom
<1>5. BuffersBounded'
  BY <1>1, <1>2 DEF ReaderInv, BytesInv, BuffersBounded, Buffers, GetBufferSize
<1>. QED BY <1>3, <1>4, <1>5 DEF ReaderInv

\* Bytes that the kernel has put into the read buffer are unread no more.
LEMMA ReadStep ==
  ASSUME ReaderInv, ReadCompletes
  PROVE  ReaderInv'
<1>1. /\ reading = "reading" /\ reading' \in {"handler", "ended"}
      /\ UNCHANGED <<kind, arrived, taken, _headerBuffer, _packetBuffer>>
  BY DEF ReadCompletes
<1>2. PICK n \in 0 .. GetRemainingSpace(_readBuffer) :
        /\ n <= Len(unread)
        /\ _readBuffer' = WriteCompleted(Fill(_readBuffer, Read(n)), n)
        /\ unread' = SubSeq(unread, n + 1, Len(unread))
  BY DEF ReadCompletes
<1>3. /\ _readBuffer \in Buffers /\ unread \in Seq(Nat) /\ taken \in Seq(Nat)
      /\ Active(_readBuffer) \in Seq(Nat) /\ GetRemainingSpace(_readBuffer) \in Nat
  BY ActiveBytes DEF ReaderInv, BytesInv
<1>4. /\ Read(n) \in Seq(Nat) /\ Len(Read(n)) = n /\ unread' \in Seq(Nat)
      /\ Read(n) \o unread' = unread
  <2>1. n \in 0 .. Len(unread)
    BY <1>2
  <2>. QED BY <1>2, <1>3, <2>1, CutInTwo DEF Read
<1>5. _readBuffer' = Write(_readBuffer, Read(n))
  BY <1>2, <1>4 DEF Write
<1>6. /\ _readBuffer' \in Buffers /\ Active(_readBuffer') = Active(_readBuffer) \o Read(n)
      /\ GetBufferSize(_readBuffer') = GetBufferSize(_readBuffer)
  <2>1. Len(Read(n)) <= GetRemainingSpace(_readBuffer)
    BY <1>2, <1>3, <1>4
  <2>. QED BY <1>3, <1>4, <1>5, <2>1, WriteFits, WriteAppends DEF GetBufferSize
<1>7. NoByteLost'
  <2>. DEFINE active == Active(_readBuffer)
              bytes == Read(n)
              rest == unread'
  <2>1. active \in Seq(Nat) /\ bytes \in Seq(Nat) /\ rest \in Seq(Nat) /\ bytes \o rest = unread
    BY <1>3, <1>4
  <2>. HIDE DEF active, bytes, rest
  <2>2. active \o bytes \in Seq(Nat) /\ (active \o bytes) \o rest = active \o unread
    BY <2>1, InRow, ConcatProperties
  <2>. DEFINE both == active \o bytes
              before == taken
              after == unread
  <2>3. /\ both \in Seq(Nat) /\ before \in Seq(Nat) /\ after \in Seq(Nat)
        /\ both \o rest = active \o after
    BY <1>3, <2>2
  <2>. HIDE DEF both, before, after
  <2>4. (before \o both) \o rest = (before \o active) \o after
    <3>1. (before \o both) \o rest = before \o (both \o rest)
      BY <2>1, <2>3, InRow, ZenonT(60)
    <3>2. (before \o active) \o after = before \o (active \o after)
      BY <2>1, <2>3, InRow, ZenonT(60)
    <3>. QED BY <2>3, <3>1, <3>2
  <2>5. taken \o (active \o bytes) \o rest = taken \o active \o unread
    BY <2>4 DEF both, before, after
  <2>. QED BY <1>1, <1>6, <2>5 DEF ReaderInv, NoByteLost, active, bytes, rest
<1>8. BytesInv' /\ KindInv'
  BY <1>1, <1>4, <1>6 DEF ReaderInv, BytesInv, KindInv
<1>9. PacketInv' /\ ReadsHaveRoom' /\ BuffersBounded'
  BY <1>1, <1>6 DEF ReaderInv, PacketInv, ReadsHaveRoom, BuffersBounded
<1>. QED BY <1>7, <1>8, <1>9 DEF ReaderInv

\* Bytes that go from the read buffer to another one.
LEMMA MoveKeeps ==
  ASSUME BytesInv, NoByteLost, NEW b \in Buffers, MoveTo(b), UNCHANGED <<arrived, unread>>
  PROVE  /\ BytesInv' /\ NoByteLost'
         /\ GetBufferSize(_readBuffer') = GetBufferSize(_readBuffer)
         /\ Moved(b) \in Nat
         /\ GetActiveSize(_readBuffer') = GetActiveSize(_readBuffer) - Moved(b)
         /\ Write(b, SubSeq(Active(_readBuffer), 1, Moved(b))) \in Buffers
         /\ Write(b, SubSeq(Active(_readBuffer), 1, Moved(b)))._wpos = b._wpos + Moved(b)
         /\ GetBufferSize(Write(b, SubSeq(Active(_readBuffer), 1, Moved(b)))) = GetBufferSize(b)
         /\ GetRemainingSpace(Write(b, SubSeq(Active(_readBuffer), 1, Moved(b))))
              = GetRemainingSpace(b) - Moved(b)
         /\ GetRemainingSpace(Write(b, SubSeq(Active(_readBuffer), 1, Moved(b)))) > 0
              => GetActiveSize(_readBuffer') = 0
<1>. DEFINE n == Moved(b)
            bytes == SubSeq(Active(_readBuffer), 1, n)
            rest == Active(ReadCompleted(_readBuffer, n))
<1>1. /\ _readBuffer' = ReadCompleted(_readBuffer, n) /\ taken' = taken \o bytes
  BY DEF MoveTo
<1>2. /\ GetActiveSize(_readBuffer) \in Nat /\ GetRemainingSpace(b) \in Nat
      /\ _readBuffer \in Buffers /\ taken \in Seq(Nat) /\ unread \in Seq(Nat)
  BY ActiveBytes DEF BytesInv
<1>3. /\ n \in Nat /\ n <= GetActiveSize(_readBuffer) /\ n <= GetRemainingSpace(b)
      /\ n = GetActiveSize(_readBuffer) \/ n = GetRemainingSpace(b)
  BY <1>2 DEF Moved, Least
<1>. HIDE DEF n
<1>4. /\ _readBuffer' \in Buffers /\ _readBuffer'._storage = _readBuffer._storage
      /\ GetActiveSize(_readBuffer') = GetActiveSize(_readBuffer) - n
      /\ bytes \in Seq(Nat) /\ Len(bytes) = n /\ bytes \o rest = Active(_readBuffer)
  BY <1>1, <1>2, <1>3, ReadTakes
<1>5. rest \in Seq(Nat) /\ rest = Active(_readBuffer')
  BY <1>1, <1>4, ActiveBytes
<1>. HIDE DEF bytes, rest
<1>6. taken \o bytes \in Seq(Nat)
  BY <1>2, <1>4, ConcatProperties
<1>7. NoByteLost'
  <2>. DEFINE both == bytes \o rest
              before == taken
              after == unread
  <2>1. /\ both \in Seq(Nat) /\ before \in Seq(Nat) /\ after \in Seq(Nat)
        /\ both = bytes \o rest /\ bytes \in Seq(Nat) /\ rest \in Seq(Nat)
    BY <1>2, <1>4, <1>5, ConcatProperties
  <2>. HIDE DEF both, before, after
  <2>2. (before \o both) \o after = ((before \o bytes) \o rest) \o after
    <3>1. before \in Seq(Nat) /\ bytes \in Seq(Nat) /\ rest \in Seq(Nat)
      BY <2>1
    <3>2. (before \o bytes) \o rest = before \o (bytes \o rest)
      BY <3>1, InRow
    <3>. QED BY <2>1, <3>2
  <2>3. taken \o (bytes \o rest) \o unread = taken \o bytes \o rest \o unread
    BY <2>2 DEF both, before, after
  <2>. QED BY <1>1, <1>4, <1>5, <2>3 DEF NoByteLost
<1>8. BytesInv'
  BY <1>1, <1>4, <1>6 DEF BytesInv, GetBufferSize
<1>9. /\ Write(b, bytes) \in Buffers /\ Write(b, bytes)._wpos = b._wpos + n
      /\ Len(Write(b, bytes)._storage) = Len(b._storage)
  BY <1>3, <1>4, WriteFits
<1>10. b._wpos \in Nat /\ Len(b._storage) \in Nat
  BY DEF Buffers
<1>11. GetRemainingSpace(Write(b, bytes)) = GetRemainingSpace(b) - n
  BY <1>3, <1>9, <1>10 DEF GetRemainingSpace
<1>12. GetRemainingSpace(Write(b, bytes)) > 0 => GetActiveSize(_readBuffer') = 0
  BY <1>2, <1>3, <1>4, <1>11
<1>. QED BY <1>3, <1>4, <1>7, <1>8, <1>9, <1>11, <1>12 DEF GetBufferSize, n, bytes

LEMMA HeaderStep ==
  ASSUME ReaderInv, ReadHeader
  PROVE  ReaderInv'
<1>1. kind = "inter" /\ reading = "handler" /\ UNCHANGED <<kind, arrived, unread>>
  BY DEF ReadHeader
<1>2. CASE GetRemainingSpace(_headerBuffer) = 0
  <2>1. reading' = "payload" /\ UNCHANGED <<_readBuffer, _headerBuffer, _packetBuffer, taken>>
    BY <1>2 DEF ReadHeader, buffers
  <2>. QED BY <1>1, <1>2, <2>1 DEF ReaderInv, BytesInv, KindInv, PacketInv, ReadsHaveRoom, NoByteLost, BuffersBounded
<1>3. CASE GetRemainingSpace(_headerBuffer) # 0
  <2>1. /\ MoveTo(_headerBuffer)
        /\ _headerBuffer' = Write(_headerBuffer, SubSeq(Active(_readBuffer), 1, Moved(_headerBuffer)))
        /\ \/ /\ GetRemainingSpace(_headerBuffer') > 0 /\ reading' = "ask" /\ UNCHANGED _packetBuffer
           \/ /\ GetRemainingSpace(_headerBuffer') = 0 /\ reading' = "payload"
              /\ _packetBuffer' = Resize(_packetBuffer, PayloadSize)
           \/ /\ GetRemainingSpace(_headerBuffer') = 0 /\ reading' = "crashed" /\ UNCHANGED _packetBuffer
    BY <1>3 DEF ReadHeader
  <2>2. _headerBuffer \in Buffers /\ BytesInv /\ NoByteLost
    BY DEF ReaderInv, PacketInv
  <2>3. /\ BytesInv' /\ NoByteLost'
        /\ GetBufferSize(_readBuffer') = GetBufferSize(_readBuffer)
        /\ _headerBuffer' \in Buffers /\ GetBufferSize(_headerBuffer') = GetBufferSize(_headerBuffer)
        /\ GetRemainingSpace(_headerBuffer') > 0 => GetActiveSize(_readBuffer') = 0
    BY <1>1, <2>1, <2>2, MoveKeeps
  <2>4. /\ _packetBuffer' \in Buffers /\ _packetBuffer'._wpos <= PayloadSize
        /\ reading' = "payload" => GetBufferSize(_packetBuffer') = PayloadSize
    BY <2>1, ConstantSizes, ResizeKeeps DEF ReaderInv, PacketInv, GetBufferSize
  <2>5. PacketInv'
    BY <2>1, <2>3, <2>4 DEF ReaderInv, PacketInv
  <2>6. KindInv' /\ ReadsHaveRoom'
    BY <1>1, <2>1, <2>3 DEF ReaderInv, KindInv, ReadsHaveRoom
  <2>7. BuffersBounded'
    BY <1>1, <2>1, <2>3 DEF ReaderInv, BuffersBounded
  <2>. QED BY <2>3, <2>5, <2>6, <2>7 DEF ReaderInv
<1>. QED BY <1>2, <1>3

LEMMA PayloadStep ==
  ASSUME ReaderInv, ReadPayload
  PROVE  ReaderInv'
<1>1. /\ kind = "inter" /\ reading = "payload" /\ UNCHANGED <<kind, arrived, unread>>
      /\ MoveTo(_packetBuffer)
      /\ _packetBuffer' = Write(_packetBuffer, SubSeq(Active(_readBuffer), 1, Moved(_packetBuffer)))
      /\ \/ /\ GetRemainingSpace(_packetBuffer') > 0 /\ reading' = "ask" /\ UNCHANGED _headerBuffer
         \/ /\ reading' = "handler" /\ _headerBuffer' = Reset(_headerBuffer)
  BY DEF ReadPayload, ReaderInv, KindInv
<1>2. /\ _packetBuffer \in Buffers /\ GetBufferSize(_packetBuffer) = PayloadSize
      /\ BytesInv /\ NoByteLost
  BY <1>1 DEF ReaderInv, PacketInv
<1>3. /\ BytesInv' /\ NoByteLost'
      /\ GetBufferSize(_readBuffer') = GetBufferSize(_readBuffer)
      /\ _packetBuffer' \in Buffers /\ GetBufferSize(_packetBuffer') = GetBufferSize(_packetBuffer)
      /\ GetRemainingSpace(_packetBuffer') > 0 => GetActiveSize(_readBuffer') = 0
  BY <1>1, <1>2, MoveKeeps
<1>4. _packetBuffer'._wpos <= PayloadSize
  BY <1>2, <1>3 DEF Buffers, WellFormed, GetBufferSize
<1>5. _headerBuffer' \in Buffers /\ GetBufferSize(_headerBuffer') = HeaderSize
  BY <1>1, ResetEmpties DEF ReaderInv, PacketInv, GetBufferSize
<1>6. PacketInv'
  BY <1>2, <1>3, <1>4, <1>5 DEF PacketInv
<1>7. KindInv' /\ ReadsHaveRoom' /\ BuffersBounded'
  BY <1>1, <1>3 DEF ReaderInv, KindInv, ReadsHaveRoom, BuffersBounded
<1>. QED BY <1>3, <1>6, <1>7 DEF ReaderInv

\* The handler has done with the read buffer, and the next read is asked for.
LEMMA AskStep ==
  ASSUME ReaderInv, FiestaReadHandler \/ AskForMore
  PROVE  ReaderInv'
<1>1. /\ AsyncRead /\ UNCHANGED <<kind, arrived, unread, taken, _headerBuffer, _packetBuffer>>
      /\ reading \in {"handler", "ask"}
      /\ kind = "fiesta" \/ GetActiveSize(_readBuffer) = 0
  BY DEF FiestaReadHandler, AskForMore, ReaderInv, BuffersBounded
<1>2. /\ _readBuffer' \in Buffers /\ Active(_readBuffer') = Active(_readBuffer)
      /\ GetActiveSize(_readBuffer') = GetActiveSize(_readBuffer)
      /\ GetBufferSize(_readBuffer') > 0
      /\ \/ GetBufferSize(_readBuffer') = GetBufferSize(_readBuffer)
         \/ /\ GetActiveSize(_readBuffer) = GetBufferSize(_readBuffer)
            /\ GetBufferSize(_readBuffer') = 2 * GetActiveSize(_readBuffer)
      /\ reading' \in {"reading", "ended"}
      /\ reading' = "reading" => GetRemainingSpace(_readBuffer') > 0
  BY <1>1, AsyncReadKeeps DEF ReaderInv
<1>3. NoByteLost'
  BY <1>1, <1>2, StreamKept DEF ReaderInv
<1>4. GetActiveSize(_readBuffer) <= arrived
  <2>1. Len(taken) \in Nat /\ Len(unread) \in Nat /\ GetActiveSize(_readBuffer) \in Nat
    BY ActiveBytes DEF ReaderInv, BytesInv
  <2>. QED BY <2>1, Counted DEF ReaderInv
<1>5. kind # "fiesta" => GetBufferSize(_readBuffer') = GetBufferSize(_readBuffer)
  BY <1>1, <1>2 DEF ReaderInv, BytesInv
<1>6. BytesInv' /\ KindInv' /\ PacketInv' /\ ReadsHaveRoom'
  BY <1>1, <1>2, <1>5 DEF ReaderInv, BytesInv, KindInv, PacketInv, ReadsHaveRoom
<1>7. BuffersBounded'
  <2>1. GetActiveSize(_readBuffer) \in Nat /\ arrived \in Nat
    BY ActiveBytes DEF ReaderInv, BytesInv
  <2>2. 2 * GetActiveSize(_readBuffer) <= 2 * arrived
    BY <1>4, <2>1
  <2>. QED BY <1>1, <1>2, <1>5, <2>2 DEF ReaderInv, BuffersBounded
<1>. QED BY <1>3, <1>6, <1>7 DEF ReaderInv

LEMMA RestStep ==
  ASSUME ReaderInv, OwnerClosesReader \/ OnOpen \/ ReadFails \/ UNCHANGED readerVars
  PROVE  ReaderInv'
<1>1. /\ UNCHANGED <<kind, arrived, unread, taken, _readBuffer, _headerBuffer, _packetBuffer>>
      /\ \/ reading' = reading
         \/ reading = "opened" /\ reading' = "reading"
         \/ reading = "reading" /\ reading' = "ended"
  BY DEF OwnerClosesReader, OnOpen, ReadFails, readerVars, readerState, buffers
<1>. QED BY <1>1 DEF ReaderInv, BytesInv, KindInv, PacketInv, ReadsHaveRoom, NoByteLost, BuffersBounded

LEMMA ReaderHolds == ReaderSpec => []ReaderInv
<1>1. ReaderInv /\ [ReaderNext]_readerVars => ReaderInv'
  BY StartStep, SendsStep, ReadStep, HeaderStep, PayloadStep, AskStep, RestStep DEF ReaderNext
<1>. QED BY <1>1, ReaderInitInv, PTL DEF ReaderSpec

-----------------------------------------------------------------------------
\* No read is ever asked for without room for what it brings: EnsureFreeSpace
\* comes after Normalize, and doubles a block that is full all the same.
THEOREM ReadsAlwaysHaveRoom == ReaderSpec => []ReadsHaveRoom
BY ReaderHolds, PTL DEF ReaderInv

\* The bytes a client sends come out of the read buffer in their order, each
\* once, however reads cut them and the buffer is moved and enlarged.
THEOREM StreamIsKept == ReaderSpec => []NoByteLost
BY ReaderHolds, PTL DEF ReaderInv

\* A FiestaSocket's buffer grows to twice what has arrived and no further, and an
\* InterSocket's not at all.
THEOREM BuffersStayBounded == ReaderSpec => []BuffersBounded
BY ReaderHolds, PTL DEF ReaderInv

-----------------------------------------------------------------------------
(***************************************************************************)
(* The sending half keeps a stream.                                        *)
(*                                                                         *)
(* What is pending is the write buffer's bytes and behind them, one piece  *)
(* behind the other, those of the queued messages.  Queued messages are    *)
(* told apart by their bytes, so the rest of one that is popped is all     *)
(* that is pending of it.                                                  *)
(***************************************************************************)
Pieces == Seq(Seq(Nat))

\* FlattenSeq puts one piece behind the other.
LEMMA FlattenIs ==
  ASSUME NEW s \in Pieces
  PROVE  \E flat :
           /\ flat[0] = <<>> /\ \A i \in 1 .. Len(s) : flat[i] = flat[i - 1] \o s[i]
           /\ \A i \in 0 .. Len(s) : flat[i] \in Seq(Nat)
           /\ FlattenSeq(s) = flat[Len(s)]
<1>. DEFINE Step(f, i) == IF i = 1 THEN s[i] ELSE f[i - 1] \o s[i]
            flatten == CHOOSE f : f = [i \in 1 .. Len(s) |-> Step(f, i)]
            T == {n \in Nat : \E f : f = [i \in 1 .. n |-> Step(f, i)]}
<1>1. Len(s) \in Nat /\ \A i \in 1 .. Len(s) : s[i] \in Seq(Nat)
  BY DEF Pieces
<1>2. 0 \in T
  <2>. DEFINE f == [i \in 1 .. 0 |-> 0]
  <2>1. f = [i \in 1 .. 0 |-> Step(f, i)]
    OBVIOUS
  <2>. QED BY <2>1
<1>3. ASSUME NEW n \in T PROVE n + 1 \in T
  <2>1. PICK f : f = [i \in 1 .. n |-> Step(f, i)]
    OBVIOUS
  <2>. DEFINE g == [i \in 1 .. n + 1 |-> IF i \in 1 .. n THEN f[i] ELSE Step(f, n + 1)]
  <2>2. \A i \in 1 .. n : g[i] = f[i]
    OBVIOUS
  <2>3. \A i \in 1 .. n + 1 : g[i] = Step(f, i)
    <3>1. \A i \in 1 .. n : f[i] = Step(f, i)
      <4>. HIDE DEF Step
      <4>. QED BY <2>1
    <3>2. g[n + 1] = Step(f, n + 1)
      OBVIOUS
    <3>. HIDE DEF g, Step
    <3>. QED BY <2>2, <3>1, <3>2
  <2>4. \A i \in 1 .. n + 1 : Step(g, i) = Step(f, i)
    <3>. SUFFICES ASSUME NEW i \in 1 .. n + 1 PROVE Step(g, i) = Step(f, i)
      OBVIOUS
    <3>1. i # 1 => i - 1 \in 1 .. n /\ g[i - 1] = f[i - 1]
      BY <2>2
    <3>. HIDE DEF g
    <3>. QED BY <3>1
  <2>5. g = [i \in 1 .. n + 1 |-> Step(g, i)]
    <3>1. g = [i \in 1 .. n + 1 |-> g[i]]
      OBVIOUS
    <3>. HIDE DEF g, Step
    <3>. QED BY <2>3, <2>4, <3>1
  <2>. HIDE DEF g, Step
  <2>. QED BY <2>5
<1>4. T = Nat
  <2>. HIDE DEF T
  <2>1. T \in SUBSET Nat
    BY DEF T
  <2>. QED BY <1>2, <1>3, <2>1, Induction
<1>5. flatten = [i \in 1 .. Len(s) |-> Step(flatten, i)]
  <2>1. Len(s) \in T
    BY <1>1, <1>4
  <2>. HIDE DEF Step
  <2>2. \E f : f = [i \in 1 .. Len(s) |-> Step(f, i)]
    BY <2>1
  <2>. QED BY <2>2, Zenon
<1>6. FlattenSeq(s) = IF Len(s) = 0 THEN s ELSE flatten[Len(s)]
  BY Zenon DEF FlattenSeq
<1>7. \A i \in 1 .. Len(s) : flatten[i] = Step(flatten, i)
  <2>. HIDE DEF flatten, Step
  <2>. QED BY <1>5
<1>. HIDE DEF flatten
<1>. DEFINE flat == [i \in 0 .. Len(s) |-> IF i = 0 THEN <<>> ELSE flatten[i]]
<1>8. \A i \in 1 .. Len(s) : flat[i] = flat[i - 1] \o s[i]
  <2>. SUFFICES ASSUME NEW i \in 1 .. Len(s) PROVE flat[i] = flat[i - 1] \o s[i]
    OBVIOUS
  <2>1. flat[i] = flatten[i] /\ flat[i - 1] = IF i = 1 THEN <<>> ELSE flatten[i - 1]
    BY <1>1
  <2>2. s[i] = <<>> \o s[i]
    BY <1>1, ConcatEmptySeq
  <2>. HIDE DEF flat
  <2>. QED BY <1>7, <2>1, <2>2
<1>9. flat[0] = <<>> /\ FlattenSeq(s) = flat[Len(s)]
  <2>1. Len(s) = 0 => s = <<>>
    BY DEF Pieces
  <2>. QED BY <1>1, <1>6, <2>1
<1>. HIDE DEF flat
<1>10. \A i \in 0 .. Len(s) : flat[i] \in Seq(Nat)
  <2>. DEFINE K == {i \in Nat : i <= Len(s) => flat[i] \in Seq(Nat)}
  <2>1. 0 \in K
    <3>1. flat[0] \in Seq(Nat)
      BY <1>9
    <3>. QED BY <3>1
  <2>2. ASSUME NEW i \in K PROVE i + 1 \in K
    <3>. SUFFICES ASSUME i + 1 <= Len(s) PROVE flat[i + 1] \in Seq(Nat)
      OBVIOUS
    <3>1. i + 1 \in 1 .. Len(s) /\ (i + 1) - 1 = i /\ i <= Len(s)
      BY <1>1
    <3>2. flat[i + 1] = flat[i] \o s[i + 1] /\ flat[i] \in Seq(Nat) /\ s[i + 1] \in Seq(Nat)
      BY <1>1, <1>8, <3>1
    <3>. QED BY <3>2, ConcatProperties
  <2>. HIDE DEF K
  <2>3. K = Nat
    <3>1. K \in SUBSET Nat
      BY DEF K
    <3>. QED BY <2>1, <2>2, <3>1, Induction
  <2>. QED BY <1>1, <2>3 DEF K
<1>. QED BY <1>8, <1>9, <1>10

LEMMA FlattenNone == FlattenSeq(<<>>) = <<>>
BY DEF FlattenSeq

LEMMA FlattenType ==
  ASSUME NEW s \in Pieces
  PROVE  FlattenSeq(s) \in Seq(Nat)
<1>1. Len(s) \in 0 .. Len(s)
  BY DEF Pieces
<1>. QED BY <1>1, FlattenIs

LEMMA FlattenAppend ==
  ASSUME NEW s \in Pieces, NEW x \in Seq(Nat)
  PROVE  Append(s, x) \in Pieces /\ FlattenSeq(Append(s, x)) = FlattenSeq(s) \o x
<1>. DEFINE t == Append(s, x)
<1>1. /\ Len(s) \in Nat /\ t \in Pieces /\ Len(t) = Len(s) + 1
      /\ \A i \in 1 .. Len(s) : t[i] = s[i]
      /\ t[Len(s) + 1] = x
  BY DEF Pieces
<1>. HIDE DEF t
<1>2. PICK f : /\ f[0] = <<>> /\ \A i \in 1 .. Len(s) : f[i] = f[i - 1] \o s[i]
               /\ FlattenSeq(s) = f[Len(s)]
  BY FlattenIs
<1>3. PICK g : /\ g[0] = <<>> /\ \A i \in 1 .. Len(t) : g[i] = g[i - 1] \o t[i]
               /\ FlattenSeq(t) = g[Len(t)]
  BY <1>1, FlattenIs
<1>. DEFINE K == {i \in Nat : i <= Len(s) => f[i] = g[i]}
<1>4. 0 \in K
  BY <1>2, <1>3
<1>5. ASSUME NEW i \in K PROVE i + 1 \in K
  <2>. SUFFICES ASSUME i + 1 <= Len(s) PROVE f[i + 1] = g[i + 1]
    OBVIOUS
  <2>1. /\ i + 1 \in 1 .. Len(s) /\ i + 1 \in 1 .. Len(t) /\ (i + 1) - 1 = i /\ f[i] = g[i]
        /\ t[i + 1] = s[i + 1]
    BY <1>1
  <2>. QED BY <1>2, <1>3, <2>1
<1>. HIDE DEF K
<1>6. K = Nat
  <2>1. K \in SUBSET Nat
    BY DEF K
  <2>. QED BY <1>4, <1>5, <2>1, Induction
<1>7. f[Len(s)] = g[Len(s)]
  BY <1>1, <1>6 DEF K
<1>8. g[Len(t)] = g[Len(s)] \o x
  <2>1. Len(t) \in 1 .. Len(t) /\ Len(t) - 1 = Len(s) /\ t[Len(t)] = x
    BY <1>1
  <2>. QED BY <1>3, <2>1
<1>. QED BY <1>1, <1>2, <1>3, <1>7, <1>8 DEF t

LEMMA FlattenHead ==
  ASSUME NEW s \in Pieces, s # <<>>
  PROVE  /\ s[1] \in Seq(Nat) /\ Tail(s) \in Pieces /\ FlattenSeq(Tail(s)) \in Seq(Nat)
         /\ FlattenSeq(s) = s[1] \o FlattenSeq(Tail(s))
<1>. DEFINE t == Tail(s)
<1>1. /\ Len(s) \in Nat \ {0} /\ t \in Pieces /\ Len(t) = Len(s) - 1
      /\ \A i \in 1 .. Len(t) : t[i] = s[i + 1]
      /\ \A i \in 1 .. Len(s) : s[i] \in Seq(Nat)
  BY DEF Pieces
<1>. HIDE DEF t
<1>2. PICK f : /\ f[0] = <<>> /\ \A i \in 1 .. Len(s) : f[i] = f[i - 1] \o s[i]
               /\ FlattenSeq(s) = f[Len(s)]
  BY FlattenIs
<1>3. PICK g : /\ g[0] = <<>> /\ \A i \in 1 .. Len(t) : g[i] = g[i - 1] \o t[i]
               /\ \A i \in 0 .. Len(t) : g[i] \in Seq(Nat)
               /\ FlattenSeq(t) = g[Len(t)]
  BY <1>1, FlattenIs
<1>4. 1 \in 1 .. Len(s) /\ s[1] \in Seq(Nat) /\ <<>> \o s[1] = s[1] /\ s[1] \o <<>> = s[1]
  BY <1>1, ConcatEmptySeq
<1>. DEFINE first == s[1]
            K == {i \in Nat : i <= Len(t) => f[i + 1] = first \o g[i]}
<1>5. 0 \in K
  <2>1. f[1] = f[0] \o s[1]
    <3>1. 1 - 1 = 0
      OBVIOUS
    <3>2. f[1] = f[1 - 1] \o s[1]
      BY <1>2, <1>4
    <3>. QED BY <3>1, <3>2
  <2>2. f[1] = first \o g[0]
    BY <1>2, <1>3, <1>4, <2>1
  <2>. HIDE DEF first
  <2>. QED BY <2>2
<1>6. ASSUME NEW i \in K PROVE i + 1 \in K
  <2>. HIDE DEF first
  <2>. SUFFICES ASSUME i + 1 <= Len(t) PROVE f[(i + 1) + 1] = first \o g[i + 1]
    OBVIOUS
  <2>1. /\ i + 2 \in 1 .. Len(s) /\ i + 1 \in 1 .. Len(t) /\ (i + 1) - 1 = i /\ (i + 2) - 1 = i + 1
        /\ (i + 1) + 1 = i + 2 /\ i \in 0 .. Len(t)
    BY <1>1
  <2>2. f[i + 1] = first \o g[i]
    <3>1. i <= Len(t) /\ i \in Nat
      BY <1>1
    <3>. QED BY <3>1
  <2>3. f[i + 2] = f[i + 1] \o s[i + 2] /\ g[i + 1] = g[i] \o t[i + 1] /\ t[i + 1] = s[i + 2]
    BY <1>1, <1>2, <1>3, <2>1
  <2>. DEFINE a == g[i]
              b == t[i + 1]
  <2>4. first \in Seq(Nat)
    BY <1>4 DEF first
  <2>5. first \in Seq(Nat) /\ a \in Seq(Nat) /\ b \in Seq(Nat)
    BY <1>1, <1>3, <2>1, <2>3, <2>4
  <2>. HIDE DEF a, b
  <2>6. (first \o a) \o b = first \o (a \o b)
    BY <2>5, InRow
  <2>. QED BY <2>1, <2>2, <2>3, <2>6 DEF a, b
<1>. HIDE DEF K
<1>7. K = Nat
  <2>1. K \in SUBSET Nat
    BY DEF K
  <2>. QED BY <1>5, <1>6, <2>1, Induction
<1>8. f[Len(s)] = first \o g[Len(t)]
  <2>1. Len(t) \in Nat /\ Len(t) + 1 = Len(s)
    BY <1>1
  <2>2. Len(t) \in K
    BY <1>7, <2>1
  <2>3. f[Len(t) + 1] = first \o g[Len(t)]
    <3>. HIDE DEF first
    <3>. QED BY <2>1, <2>2 DEF K
  <2>. QED BY <2>1, <2>3
<1>9. FlattenSeq(t) \in Seq(Nat)
  BY <1>1, FlattenType
<1>. QED BY <1>1, <1>2, <1>3, <1>4, <1>8, <1>9 DEF t

\* Nothing is in the whole that is in none of the pieces.
LEMMA FlattenFrom ==
  ASSUME NEW s \in Pieces
  PROVE  \A p \in 1 .. Len(FlattenSeq(s)) :
           \E q \in 1 .. Len(s) : \E i \in 1 .. Len(s[q]) : FlattenSeq(s)[p] = s[q][i]
<1>1. Len(s) \in Nat /\ \A i \in 1 .. Len(s) : s[i] \in Seq(Nat)
  BY DEF Pieces
<1>2. PICK f : /\ f[0] = <<>> /\ \A i \in 1 .. Len(s) : f[i] = f[i - 1] \o s[i]
               /\ \A i \in 0 .. Len(s) : f[i] \in Seq(Nat)
               /\ FlattenSeq(s) = f[Len(s)]
  BY FlattenIs
<1>. DEFINE From(x) == \E q \in 1 .. Len(s) : \E i \in 1 .. Len(s[q]) : x = s[q][i]
            K == {n \in Nat : n <= Len(s) => \A p \in 1 .. Len(f[n]) : From(f[n][p])}
<1>3. 0 \in K
  BY <1>2
<1>4. ASSUME NEW n \in K PROVE n + 1 \in K
  <2>. SUFFICES ASSUME n + 1 <= Len(s), NEW p \in 1 .. Len(f[n + 1]) PROVE From(f[n + 1][p])
    OBVIOUS
  <2>1. n + 1 \in 1 .. Len(s) /\ (n + 1) - 1 = n /\ n \in 0 .. Len(s)
    BY <1>1
  <2>. DEFINE a == f[n]
              b == s[n + 1]
  <2>2. a \in Seq(Nat) /\ b \in Seq(Nat) /\ f[n + 1] = a \o b
    BY <1>1, <1>2, <2>1
  <2>3. \A r \in 1 .. Len(a) : From(a[r])
    <3>. HIDE DEF From
    <3>. QED BY <1>1, <2>1
  <2>4. \A i \in 1 .. Len(b) : From(b[i])
    BY <2>1
  <2>. HIDE DEF a, b, From
  <2>5. /\ Len(f[n + 1]) = Len(a) + Len(b)
        /\ f[n + 1][p] = IF p <= Len(a) THEN a[p] ELSE b[p - Len(a)]
    BY <2>2, ConcatProperties
  <2>6. CASE p <= Len(a)
    BY <2>2, <2>5, <2>6, <2>3
  <2>7. CASE ~(p <= Len(a))
    <3>1. p - Len(a) \in 1 .. Len(b)
      BY <2>2, <2>5, <2>7
    <3>. QED BY <2>4, <2>5, <2>7, <3>1
  <2>. QED BY <2>6, <2>7
<1>. HIDE DEF K
<1>5. K = Nat
  <2>1. K \in SUBSET Nat
    BY DEF K
  <2>. QED BY <1>3, <1>4, <2>1, Induction
<1>6. \A p \in 1 .. Len(f[Len(s)]) : From(f[Len(s)][p])
  <2>. HIDE DEF From
  <2>. QED BY <1>1, <1>5 DEF K
<1>7. \A p \in 1 .. Len(FlattenSeq(s)) : From(FlattenSeq(s)[p])
  <2>. HIDE DEF From
  <2>. QED BY <1>2, <1>6
<1>. QED BY <1>7

-----------------------------------------------------------------------------
(* The queue as pieces of the stream.                                        *)

ChunksOf(queue) == [q \in 1 .. Len(queue) |-> Active(queue[q])]

LEMMA ChunksAre ==
  ASSUME NEW queue \in Seq(Buffers)
  PROVE  /\ ChunksOf(queue) \in Pieces /\ Len(ChunksOf(queue)) = Len(queue)
         /\ \A q \in 1 .. Len(queue) : ChunksOf(queue)[q] = Active(queue[q])
<1>1. \A q \in 1 .. Len(queue) : Active(queue[q]) \in Seq(Nat)
  BY ActiveBytes
<1>2. ChunksOf(queue) \in [1 .. Len(queue) -> Seq(Nat)]
  BY <1>1 DEF ChunksOf
<1>3. \A q \in 1 .. Len(queue) : ChunksOf(queue)[q] = Active(queue[q])
  BY DEF ChunksOf
<1>4. Len(queue) \in Nat
  OBVIOUS
<1>. QED BY <1>2, <1>3, <1>4 DEF Pieces

\* Two sequences of pieces that agree piece by piece are equal.
LEMMA SamePieces ==
  ASSUME NEW s \in Pieces, NEW t \in Pieces, Len(s) = Len(t),
         \A q \in 1 .. Len(s) : s[q] = t[q]
  PROVE  s = t
BY SeqEqual DEF Pieces

LEMMA ChunksAppend ==
  ASSUME NEW queue \in Seq(Buffers), NEW m \in Buffers
  PROVE  ChunksOf(Append(queue, m)) = Append(ChunksOf(queue), Active(m))
<1>. DEFINE c == ChunksOf(queue)
            d == ChunksOf(Append(queue, m))
            x == Active(m)
<1>1. /\ Append(queue, m) \in Seq(Buffers) /\ Len(Append(queue, m)) = Len(queue) + 1
      /\ \A q \in 1 .. Len(queue) : Append(queue, m)[q] = queue[q]
      /\ Append(queue, m)[Len(queue) + 1] = m
      /\ Len(queue) \in Nat
  OBVIOUS
<1>2. /\ c \in Pieces /\ Len(c) = Len(queue) /\ \A q \in 1 .. Len(queue) : c[q] = Active(queue[q])
  BY ChunksAre
<1>3. /\ d \in Pieces /\ Len(d) = Len(queue) + 1
      /\ \A q \in 1 .. Len(queue) + 1 : d[q] = Active(Append(queue, m)[q])
  BY <1>1, ChunksAre
<1>4. x \in Seq(Nat)
  BY ActiveBytes
<1>5. \A q \in 1 .. Len(queue) : d[q] = c[q]
  BY <1>1, <1>2, <1>3
<1>6. d[Len(queue) + 1] = x
  BY <1>1, <1>3
<1>. HIDE DEF c, d, x
<1>7. /\ Append(c, x) \in Pieces /\ Len(Append(c, x)) = Len(queue) + 1
      /\ \A q \in 1 .. Len(queue) : Append(c, x)[q] = c[q]
      /\ Append(c, x)[Len(queue) + 1] = x
  BY <1>1, <1>2, <1>4 DEF Pieces
<1>8. \A q \in 1 .. Len(d) : d[q] = Append(c, x)[q]
  BY <1>1, <1>3, <1>5, <1>6, <1>7
<1>9. d = Append(c, x)
  BY <1>3, <1>7, <1>8, SamePieces
<1>. QED BY <1>9 DEF c, d, x

LEMMA ChunksTail ==
  ASSUME NEW queue \in Seq(Buffers), queue # <<>>
  PROVE  /\ ChunksOf(queue) # <<>> /\ ChunksOf(queue)[1] = Active(Head(queue))
         /\ ChunksOf(Tail(queue)) = Tail(ChunksOf(queue))
<1>. DEFINE c == ChunksOf(queue)
            d == ChunksOf(Tail(queue))
<1>1. /\ Tail(queue) \in Seq(Buffers) /\ Len(Tail(queue)) = Len(queue) - 1
      /\ \A q \in 1 .. Len(queue) - 1 : Tail(queue)[q] = queue[q + 1]
      /\ Len(queue) \in Nat \ {0} /\ Head(queue) = queue[1]
  OBVIOUS
<1>2. /\ c \in Pieces /\ Len(c) = Len(queue) /\ \A q \in 1 .. Len(queue) : c[q] = Active(queue[q])
  BY ChunksAre
<1>3. /\ d \in Pieces /\ Len(d) = Len(queue) - 1
      /\ \A q \in 1 .. Len(queue) - 1 : d[q] = Active(Tail(queue)[q])
  BY <1>1, ChunksAre
<1>4. \A q \in 1 .. Len(queue) - 1 : d[q] = c[q + 1]
  BY <1>1, <1>2, <1>3
<1>5. c[1] = Active(Head(queue))
  BY <1>1, <1>2
<1>. HIDE DEF c, d
<1>6. c # <<>> /\ Tail(c) \in Pieces /\ Len(Tail(c)) = Len(queue) - 1
      /\ \A q \in 1 .. Len(queue) - 1 : Tail(c)[q] = c[q + 1]
  BY <1>1, <1>2 DEF Pieces
<1>7. d = Tail(c)
  BY <1>3, <1>4, <1>6, SamePieces
<1>. QED BY <1>5, <1>6, <1>7 DEF c, d

\* Another head leaves what follows it.
LEMMA ChunksHead ==
  ASSUME NEW queue \in Seq(Buffers), queue # <<>>, NEW m \in Buffers
  PROVE  /\ [queue EXCEPT ![1] = m] \in Seq(Buffers) /\ [queue EXCEPT ![1] = m] # <<>>
         /\ Head([queue EXCEPT ![1] = m]) = m
         /\ Tail([queue EXCEPT ![1] = m]) = Tail(queue)
<1>. DEFINE r == [queue EXCEPT ![1] = m]
<1>1. Len(queue) \in Nat \ {0}
  OBVIOUS
<1>2. /\ r \in Seq(Buffers) /\ Len(r) = Len(queue) /\ r[1] = m
      /\ \A q \in 1 .. Len(queue) : q # 1 => r[q] = queue[q]
  BY <1>1
<1>. HIDE DEF r
<1>3. r # <<>> /\ Head(r) = m
  BY <1>1, <1>2
<1>4. /\ Tail(r) \in Seq(Buffers) /\ Len(Tail(r)) = Len(queue) - 1
      /\ \A q \in 1 .. Len(queue) - 1 : Tail(r)[q] = r[q + 1]
  BY <1>1, <1>2, <1>3
<1>5. /\ Tail(queue) \in Seq(Buffers) /\ Len(Tail(queue)) = Len(queue) - 1
      /\ \A q \in 1 .. Len(queue) - 1 : Tail(queue)[q] = queue[q + 1]
  OBVIOUS
<1>6. \A q \in 1 .. Len(queue) - 1 : q + 1 \in 1 .. Len(queue) /\ q + 1 # 1
  BY <1>1
<1>7. \A q \in 1 .. Len(queue) - 1 : Tail(r)[q] = Tail(queue)[q]
  BY <1>2, <1>4, <1>5, <1>6
<1>8. Tail(r) = Tail(queue)
  BY <1>4, <1>5, <1>7, SeqEqual
<1>. QED BY <1>2, <1>3, <1>8 DEF r

-----------------------------------------------------------------------------
(* The bytes of a message, and what each of them tells.                      *)

LEMMA MessageBytes ==
  ASSUME NEW k \in Nat, NEW size \in Nat
  PROVE  Active(Message(k, size)) = [p \in 1 .. size |-> k]
<1>. DEFINE bytes == [p \in 1 .. size |-> k]
            block == MessageBufferOf(size)
<1>1. bytes \in Seq(Nat) /\ Len(bytes) = size
  OBVIOUS
<1>2. block \in Buffers /\ block._rpos = 0 /\ block._wpos = 0 /\ Len(block._storage) = size
  BY FreshBuffer
<1>3. Message(k, size) = Write(block, bytes)
  BY DEF Message
<1>. HIDE DEF bytes, block
<1>4. Len(bytes) <= GetRemainingSpace(block) /\ GetActiveSize(block) = 0
  BY <1>1, <1>2 DEF GetRemainingSpace, GetActiveSize
<1>5. Active(Write(block, bytes)) = Active(block) \o bytes
  BY <1>1, <1>2, <1>4, WriteAppends
<1>6. Active(block) = <<>>
  <2>1. Active(block) \in Seq(Nat) /\ Len(Active(block)) = 0
    BY <1>2, <1>4, ActiveBytes
  <2>. QED BY <2>1
<1>7. <<>> \o bytes = bytes
  BY <1>1, ConcatEmptySeq
<1>. QED BY <1>3, <1>5, <1>6, <1>7 DEF bytes

\* Each queued message is one byte over and over, and no two the same.
Apart(c) ==
  \A q, r \in 1 .. Len(c) : \A i \in 1 .. Len(c[q]), j \in 1 .. Len(c[r]) :
    c[q][i] = c[r][j] <=> q = r
UpTo(c, n) == \A q \in 1 .. Len(c) : \A i \in 1 .. Len(c[q]) : c[q][i] <= n

OrderInv ==
  /\ outgoing \in Seq(Nat) /\ received \in Seq(Nat)
  /\ Apart(ChunksOf(_writeQueue)) /\ UpTo(ChunksOf(_writeQueue), sent)

LEMMA ApartAppend ==
  ASSUME NEW c \in Pieces, NEW n \in Nat, Apart(c), UpTo(c, n),
         NEW x \in Seq(Nat), \A i \in 1 .. Len(x) : x[i] = n + 1
  PROVE  Apart(Append(c, x)) /\ UpTo(Append(c, x), n + 1)
<1>. DEFINE d == Append(c, x)
<1>1. /\ Len(c) \in Nat /\ Len(d) = Len(c) + 1
      /\ \A q \in 1 .. Len(c) : d[q] = c[q]
      /\ d[Len(c) + 1] = x
      /\ \A q \in 1 .. Len(c) : c[q] \in Seq(Nat)
  BY DEF Pieces
<1>. HIDE DEF d
<1>2. \A q \in 1 .. Len(d) : q \in 1 .. Len(c) \/ q = Len(c) + 1
  BY <1>1
<1>3. \A q \in 1 .. Len(c) : \A i \in 1 .. Len(d[q]) : d[q][i] \in Nat /\ d[q][i] <= n
  BY <1>1 DEF UpTo
<1>4. \A i \in 1 .. Len(d[Len(c) + 1]) : d[Len(c) + 1][i] = n + 1
  BY <1>1
<1>5. UpTo(d, n + 1)
  <2>. SUFFICES ASSUME NEW q \in 1 .. Len(d), NEW i \in 1 .. Len(d[q]) PROVE d[q][i] <= n + 1
    BY DEF UpTo
  <2>1. CASE q \in 1 .. Len(c)
    BY <1>3, <2>1
  <2>2. CASE q = Len(c) + 1
    BY <1>4, <2>2
  <2>. QED BY <1>2, <2>1, <2>2
<1>6. Apart(d)
  <2>. SUFFICES ASSUME NEW q \in 1 .. Len(d), NEW r \in 1 .. Len(d),
                       NEW i \in 1 .. Len(d[q]), NEW j \in 1 .. Len(d[r])
                PROVE  d[q][i] = d[r][j] <=> q = r
    BY DEF Apart
  <2>1. CASE q \in 1 .. Len(c) /\ r \in 1 .. Len(c)
    <3>1. d[q] = c[q] /\ d[r] = c[r]
      BY <1>1, <2>1
    <3>. QED BY <2>1, <3>1 DEF Apart
  <2>2. CASE q \in 1 .. Len(c) /\ r = Len(c) + 1
    <3>1. q # r /\ d[q][i] \in Nat /\ d[q][i] <= n /\ d[r][j] = n + 1
      BY <1>1, <1>3, <1>4, <2>2
    <3>. QED BY <3>1
  <2>3. CASE q = Len(c) + 1 /\ r \in 1 .. Len(c)
    <3>1. q # r /\ d[r][j] \in Nat /\ d[r][j] <= n /\ d[q][i] = n + 1
      BY <1>1, <1>3, <1>4, <2>3
    <3>. QED BY <3>1
  <2>4. CASE q = Len(c) + 1 /\ r = Len(c) + 1
    BY <1>4, <2>4
  <2>. QED BY <1>2, <2>1, <2>2, <2>3, <2>4
<1>. QED BY <1>5, <1>6 DEF d

LEMMA ApartTail ==
  ASSUME NEW c \in Pieces, c # <<>>, NEW n \in Nat, Apart(c), UpTo(c, n)
  PROVE  Apart(Tail(c)) /\ UpTo(Tail(c), n)
<1>. DEFINE d == Tail(c)
<1>1. /\ Len(c) \in Nat \ {0} /\ Len(d) = Len(c) - 1
      /\ \A q \in 1 .. Len(d) : d[q] = c[q + 1]
  BY DEF Pieces
<1>. HIDE DEF d
<1>2. \A q \in 1 .. Len(d) : q + 1 \in 1 .. Len(c)
  BY <1>1
<1>3. UpTo(d, n)
  BY <1>1, <1>2 DEF UpTo
<1>4. Apart(d)
  <2>. SUFFICES ASSUME NEW q \in 1 .. Len(d), NEW r \in 1 .. Len(d),
                       NEW i \in 1 .. Len(d[q]), NEW j \in 1 .. Len(d[r])
                PROVE  d[q][i] = d[r][j] <=> q = r
    BY DEF Apart
  <2>1. d[q] = c[q + 1] /\ d[r] = c[r + 1] /\ q + 1 \in 1 .. Len(c) /\ r + 1 \in 1 .. Len(c)
    BY <1>1, <1>2
  <2>2. c[q + 1][i] = c[r + 1][j] <=> q + 1 = r + 1
    BY <2>1 DEF Apart
  <2>3. q + 1 = r + 1 <=> q = r
    BY <1>1
  <2>. QED BY <2>1, <2>2, <2>3
<1>. QED BY <1>3, <1>4 DEF d

\* A head of which less is left.
LEMMA ApartRest ==
  ASSUME NEW c \in Pieces, c # <<>>, NEW n \in Nat, Apart(c), UpTo(c, n),
         NEW d \in Pieces, Len(d) = Len(c), \A q \in 1 .. Len(c) : q # 1 => d[q] = c[q],
         NEW k \in Nat, Len(c[1]) = Len(d[1]) + k, \A i \in 1 .. Len(d[1]) : d[1][i] = c[1][i + k]
  PROVE  Apart(d) /\ UpTo(d, n)
<1>1. Len(c) \in Nat \ {0} /\ Len(d[1]) \in Nat /\ Len(c[1]) \in Nat
  BY DEF Pieces
<1>2. ASSUME NEW q \in 1 .. Len(c), NEW i \in 1 .. Len(d[q])
      PROVE  \E j \in 1 .. Len(c[q]) : d[q][i] = c[q][j]
  <2>1. CASE q = 1
    <3>1. i + k \in 1 .. Len(c[1]) /\ d[1][i] = c[1][i + k]
      BY <1>1, <2>1
    <3>. QED BY <2>1, <3>1
  <2>2. CASE q # 1
    BY <2>2
  <2>. QED BY <2>1, <2>2
<1>3. UpTo(d, n)
  BY <1>2, ZenonT(60) DEF UpTo
<1>4. Apart(d)
  <2>. SUFFICES ASSUME NEW q \in 1 .. Len(d), NEW r \in 1 .. Len(d),
                       NEW i \in 1 .. Len(d[q]), NEW j \in 1 .. Len(d[r])
                PROVE  d[q][i] = d[r][j] <=> q = r
    BY DEF Apart
  <2>1. PICK a \in 1 .. Len(c[q]) : d[q][i] = c[q][a]
    BY <1>2
  <2>2. PICK b \in 1 .. Len(c[r]) : d[r][j] = c[r][b]
    BY <1>2
  <2>3. c[q][a] = c[r][b] <=> q = r
    BY DEF Apart
  <2>. QED BY <2>1, <2>2, <2>3
<1>. QED BY <1>3, <1>4

-----------------------------------------------------------------------------
(* The steps.                                                                *)

LEMMA TwoParts ==
  ASSUME NEW t \in Seq(Nat), NEW u \in Seq(Nat)
  PROVE  /\ t \o u \in Seq(Nat) /\ Len(t \o u) = Len(t) + Len(u)
         /\ \A p \in 1 .. Len(t) : (t \o u)[p] = t[p]
         /\ \A p \in 1 .. Len(u) : (t \o u)[Len(t) + p] = u[p]
         /\ SubSeq(t \o u, 1, Len(t)) = t
         /\ SubSeq(t \o u, Len(t) + 1, Len(t \o u)) = u
<1>. DEFINE s == t \o u
<1>1. /\ s \in Seq(Nat) /\ Len(s) = Len(t) + Len(u)
      /\ \A p \in 1 .. Len(t) + Len(u) : s[p] = IF p <= Len(t) THEN t[p] ELSE u[p - Len(t)]
  BY ConcatProperties
<1>2. Len(t) \in Nat /\ Len(u) \in Nat
  OBVIOUS
<1>. HIDE DEF s
<1>3. \A p \in 1 .. Len(t) : s[p] = t[p]
  BY <1>1, <1>2
<1>4. \A p \in 1 .. Len(u) : s[Len(t) + p] = u[p]
  <2>. SUFFICES ASSUME NEW p \in 1 .. Len(u) PROVE s[Len(t) + p] = u[p]
    OBVIOUS
  <2>1. Len(t) + p \in 1 .. Len(t) + Len(u) /\ ~(Len(t) + p <= Len(t)) /\ (Len(t) + p) - Len(t) = p
    BY <1>2
  <2>. QED BY <1>1, <2>1
<1>5. SubSeq(s, 1, Len(t)) = t
  <2>1. /\ SubSeq(s, 1, Len(t)) \in Seq(Nat) /\ Len(SubSeq(s, 1, Len(t))) = Len(t)
        /\ \A p \in 1 .. Len(t) : SubSeq(s, 1, Len(t))[p] = s[p]
    BY <1>1, <1>2
  <2>. QED BY <1>3, <2>1, SeqEqual
<1>6. SubSeq(s, Len(t) + 1, Len(s)) = u
  <2>. DEFINE r == SubSeq(s, Len(t) + 1, Len(s))
  <2>1. /\ r \in Seq(Nat) /\ Len(r) = Len(u)
        /\ \A p \in 1 .. Len(u) : r[p] = s[Len(t) + p]
    BY <1>1, <1>2, SMTT(30)
  <2>. HIDE DEF r
  <2>2. r = u
    BY <1>4, <2>1, SeqEqual
  <2>. QED BY <2>2 DEF r
<1>. QED BY <1>1, <1>3, <1>4, <1>5, <1>6 DEF s

LEMMA PendingIs ==
  ASSUME NEW b \in Buffers, NEW queue \in Seq(Buffers)
  PROVE  /\ Active(b) \in Seq(Nat) /\ FlattenSeq(ChunksOf(queue)) \in Seq(Nat)
         /\ Active(b) \o FlattenSeq(ChunksOf(queue)) \in Seq(Nat)
<1>1. Active(b) \in Seq(Nat)
  BY ActiveBytes
<1>2. ChunksOf(queue) \in Pieces
  BY ChunksAre
<1>3. FlattenSeq(ChunksOf(queue)) \in Seq(Nat)
  BY <1>2, FlattenType
<1>. QED BY <1>1, <1>3, ConcatProperties

LEMMA PendingParts ==
  /\ Pending = Active(_writeBuffer) \o FlattenSeq(ChunksOf(_writeQueue))
  /\ Pending' = Active(_writeBuffer') \o FlattenSeq(ChunksOf(_writeQueue'))
BY DEF Pending, ChunksOf

\* An empty buffer contributes nothing.
LEMMA NothingActive ==
  ASSUME NEW b \in Buffers, GetActiveSize(b) = 0
  PROVE  Active(b) = <<>>
BY ActiveBytes

\* The first part of what is pending comes out.
LEMMA EmitStep ==
  ASSUME NEW t \in Seq(Nat), NEW u \in Seq(Nat), Len(t) > 0,
         Pending = t \o u, Pending' = u, sent' = sent,
         (received \o outgoing)' = (received \o outgoing) \o t
  PROVE  Stream!Next
<1>1. Len(t) \in 1 .. Len(t \o u)
  <2>1. Len(t \o u) = Len(t) + Len(u)
    BY TwoParts, Zenon
  <2>2. Len(t) \in Nat /\ Len(u) \in Nat
    OBVIOUS
  <2>. QED BY <2>1, <2>2
<1>2. SubSeq(t \o u, 1, Len(t)) = t /\ SubSeq(t \o u, Len(t) + 1, Len(t \o u)) = u
  BY TwoParts, Zenon
<1>3. /\ Len(t) \in 1 .. Len(Pending)
      /\ (received \o outgoing)' = (received \o outgoing) \o SubSeq(Pending, 1, Len(t))
      /\ Pending' = SubSeq(Pending, Len(t) + 1, Len(Pending))
  BY <1>1, <1>2
<1>4. Stream!Emit
  BY <1>3 DEF Stream!Emit
<1>. QED BY <1>4 DEF Stream!Next

\* The kernel takes n bytes of a buffer that what is pending begins with.
LEMMA TakenStep ==
  ASSUME OrderInv, NEW b \in Buffers, NEW n \in 1 .. GetActiveSize(b), NEW u \in Seq(Nat),
         Takes(b, n), Pending = Active(b) \o u, Pending' = Active(ReadCompleted(b, n)) \o u,
         sent' = sent, received' = received
  PROVE  Stream!Next /\ outgoing' \in Seq(Nat)
<1>. DEFINE t == SubSeq(Active(b), 1, n)
            rest == Active(ReadCompleted(b, n))
<1>1. n \in Nat /\ n <= GetActiveSize(b) /\ n > 0
  BY ActiveBytes
<1>2. /\ t \in Seq(Nat) /\ Len(t) = n /\ t \o rest = Active(b) /\ rest \in Seq(Nat)
  BY <1>1, ReadTakes, ActiveBytes
<1>3. outgoing' = outgoing \o t
  BY DEF Takes
<1>. HIDE DEF t
<1>4. (received \o outgoing)' = (received \o outgoing) \o t /\ outgoing' \in Seq(Nat)
  <2>1. outgoing \in Seq(Nat) /\ received \in Seq(Nat)
    BY DEF OrderInv
  <2>2. (received \o outgoing) \o t = received \o (outgoing \o t)
    BY <1>2, <2>1, InRow, ZenonT(60)
  <2>3. outgoing \o t \in Seq(Nat)
    BY <1>2, <2>1, ConcatProperties
  <2>. QED BY <1>3, <2>2, <2>3
<1>. HIDE DEF rest
<1>5. Pending = t \o (rest \o u) /\ Pending' = rest \o u /\ rest \o u \in Seq(Nat)
  <2>1. (t \o rest) \o u = t \o (rest \o u)
    BY <1>2, InRow, Zenon
  <2>2. rest \o u \in Seq(Nat)
    BY <1>2, ConcatProperties
  <2>3. Pending' = rest \o u
    BY DEF rest
  <2>. QED BY <1>2, <2>1, <2>2, <2>3
<1>6. Stream!Next
  BY <1>1, <1>2, <1>4, <1>5, EmitStep
<1>. QED BY <1>4, <1>6

\* What the stream sees.
seen == <<sent, Pending, received \o outgoing>>

LEMMA NothingMoves ==
  ASSUME OrderInv, UNCHANGED <<sent, _writeBuffer, _writeQueue, outgoing, received>>
  PROVE  UNCHANGED seen /\ OrderInv'
<1>1. Pending' = Pending
  BY PendingParts
<1>. QED BY <1>1 DEF seen, OrderInv

LEMMA SendMoves ==
  ASSUME TypeInv, OrderInv, NEW size \in Sizes, SendPacket(size)
  PROVE  Stream!Next /\ OrderInv'
<1>. DEFINE m == Message(sent + 1, size)
            x == Active(m)
            c == ChunksOf(_writeQueue)
            flat == FlattenSeq(c)
            ready == Active(_writeBuffer)
<1>1. size \in Nat /\ sent \in Nat /\ sent + 1 \in Nat
  BY WriterAssumption DEF TypeInv
<1>2. /\ m \in Buffers /\ x \in Seq(Nat) /\ Len(x) = size /\ x = [p \in 1 .. size |-> sent + 1]
  BY <1>1, MessageIsWhole, MessageBytes
<1>3. sent' = sent + 1 /\ UNCHANGED <<outgoing, received>>
  BY DEF SendPacket
<1>4. c \in Pieces /\ flat \in Seq(Nat) /\ ready \in Seq(Nat) /\ Len(c) = Len(_writeQueue)
  BY ChunksAre, PendingIs DEF TypeInv
<1>5. \/ /\ _writeQueue = <<>> /\ Len(x) <= GetRemainingSpace(_writeBuffer)
         /\ _writeBuffer' = Write(_writeBuffer, x) /\ UNCHANGED _writeQueue
      \/ _writeQueue' = Append(_writeQueue, m) /\ UNCHANGED _writeBuffer
  BY <1>2, <1>3 DEF SendPacket, QueuePacket, Fits
<1>6. Pending = ready \o flat
  BY PendingParts
<1>7. \A i \in 1 .. Len(x) : x[i] = sent + 1
  BY <1>2
<1>. HIDE DEF m, x, c, flat, ready
<1>8. Pending' = Pending \o x /\ Apart(ChunksOf(_writeQueue')) /\ UpTo(ChunksOf(_writeQueue'), sent + 1)
  <2>1. CASE /\ _writeQueue = <<>> /\ Len(x) <= GetRemainingSpace(_writeBuffer)
             /\ _writeBuffer' = Write(_writeBuffer, x) /\ UNCHANGED _writeQueue
    <3>1. c = <<>>
      BY <1>4, <2>1 DEF Pieces
    <3>2. flat = <<>>
      BY <3>1, FlattenNone DEF flat
    <3>3. Active(_writeBuffer') = ready \o x
      BY <1>2, <2>1, WriteAppends DEF TypeInv, ready
    <3>4. ready \o x \in Seq(Nat)
      BY <1>2, <1>4, ConcatProperties
    <3>5. ready \o flat = ready /\ (ready \o x) \o flat = ready \o x
      BY <1>4, <3>2, <3>4, ConcatEmptySeq
    <3>6. Pending' = Active(_writeBuffer') \o FlattenSeq(ChunksOf(_writeQueue'))
      BY PendingParts
    <3>7. FlattenSeq(ChunksOf(_writeQueue')) = flat
      BY <2>1 DEF flat, c
    <3>8. Pending' = Pending \o x
      BY <1>6, <3>3, <3>5, <3>6, <3>7
    <3>9. c = ChunksOf(_writeQueue')
      BY <2>1 DEF c
    <3>10. Apart(c) /\ UpTo(c, sent + 1)
      <4>1. Len(c) = 0
        BY <3>1
      <4>. QED BY <4>1 DEF Apart, UpTo
    <3>. QED BY <3>8, <3>9, <3>10
  <2>2. CASE _writeQueue' = Append(_writeQueue, m) /\ UNCHANGED _writeBuffer
    <3>1. ChunksOf(_writeQueue') = Append(c, x)
      <4>1. ChunksOf(Append(_writeQueue, m)) = Append(c, x)
        BY <1>2, ChunksAppend DEF TypeInv, c, x
      <4>. QED BY <2>2, <4>1
    <3>2. FlattenSeq(Append(c, x)) = flat \o x
      BY <1>2, <1>4, FlattenAppend DEF flat
    <3>3. Pending' = ready \o (flat \o x)
      <4>1. Pending' = Active(_writeBuffer') \o FlattenSeq(ChunksOf(_writeQueue'))
        BY PendingParts
      <4>2. Active(_writeBuffer') = ready
        BY <2>2 DEF ready
      <4>. QED BY <3>1, <3>2, <4>1, <4>2
    <3>4. (ready \o flat) \o x = ready \o (flat \o x)
      BY <1>2, <1>4, InRow, Zenon
    <3>5. Apart(c) /\ UpTo(c, sent)
      BY DEF OrderInv, c
    <3>6. Apart(Append(c, x)) /\ UpTo(Append(c, x), sent + 1)
      BY <1>1, <1>2, <1>4, <1>7, <3>5, ApartAppend
    <3>. QED BY <1>6, <3>1, <3>3, <3>4, <3>6
  <2>. QED BY <1>5, <2>1, <2>2
<1>9. Stream!Next
  <2>1. x = [i \in 1 .. size |-> sent']
    BY <1>2, <1>3
  <2>2. x = Stream!Bytes(sent', size)
    BY <2>1 DEF Stream!Bytes
  <2>3. (received \o outgoing)' = received \o outgoing
    BY <1>3
  <2>4. Stream!Put
    BY <1>3, <1>8, <2>2, <2>3 DEF Stream!Put
  <2>. QED BY <2>4 DEF Stream!Next
<1>. QED BY <1>3, <1>8, <1>9 DEF OrderInv

LEMMA BufferMoves ==
  ASSUME TypeInv, OrderInv, WriteBuffer
  PROVE  [Stream!Next]_seen /\ OrderInv'
<1>. DEFINE flat == FlattenSeq(ChunksOf(_writeQueue))
<1>1. UNCHANGED <<sent, _writeQueue, received>>
  BY DEF WriteBuffer
<1>2. _writeBuffer \in Buffers /\ _writeQueue \in Seq(Buffers)
  BY DEF TypeInv
<1>3. CASE UNCHANGED <<_writeBuffer, outgoing>>
  BY <1>1, <1>3, NothingMoves
<1>4. ASSUME NEW n \in 1 .. GetActiveSize(_writeBuffer), Takes(_writeBuffer, n),
             Active(_writeBuffer') = Active(ReadCompleted(_writeBuffer, n))
      PROVE  Stream!Next /\ OrderInv'
  <2>1. Pending = Active(_writeBuffer) \o flat
    BY PendingParts
  <2>2. Pending' = Active(ReadCompleted(_writeBuffer, n)) \o flat
    BY <1>1, <1>4, PendingParts
  <2>3. flat \in Seq(Nat)
    BY <1>2, PendingIs
  <2>. HIDE DEF flat
  <2>4. Stream!Next /\ outgoing' \in Seq(Nat)
    BY <1>1, <1>2, <1>4, <2>1, <2>2, <2>3, TakenStep
  <2>. QED BY <1>1, <2>4 DEF OrderInv
<1>5. ASSUME NEW n \in 1 .. GetActiveSize(_writeBuffer)
      PROVE  /\ Active(Normalize(Unsent(_writeBuffer, n))) = Active(ReadCompleted(_writeBuffer, n))
             /\ n = GetActiveSize(_writeBuffer) =>
                  Active(Reset(_writeBuffer)) = Active(ReadCompleted(_writeBuffer, n))
  <2>1. /\ Unsent(_writeBuffer, n) = ReadCompleted(_writeBuffer, n) /\ Unsent(_writeBuffer, n) \in Buffers
        /\ GetActiveSize(Unsent(_writeBuffer, n)) = GetActiveSize(_writeBuffer) - n
    BY <1>2, ReadRest DEF Unsent
  <2>2. Active(Normalize(Unsent(_writeBuffer, n))) = Active(Unsent(_writeBuffer, n))
    BY <2>1, NormalizeKeeps
  <2>3. ASSUME n = GetActiveSize(_writeBuffer)
        PROVE  Active(Reset(_writeBuffer)) = Active(ReadCompleted(_writeBuffer, n))
    <3>1. GetActiveSize(ReadCompleted(_writeBuffer, n)) = 0
      BY <2>1, <2>3
    <3>2. Active(ReadCompleted(_writeBuffer, n)) = <<>>
      BY <2>1, <3>1, NothingActive
    <3>3. Active(Reset(_writeBuffer)) = <<>>
      BY <1>2, ResetEmpties, NothingActive
    <3>. QED BY <3>2, <3>3
  <2>. QED BY <2>1, <2>2, <2>3
<1>6. \/ UNCHANGED <<_writeBuffer, outgoing>>
      \/ \E n \in 1 .. GetActiveSize(_writeBuffer) :
           /\ Takes(_writeBuffer, n)
           /\ \/ _writeBuffer' = Normalize(Unsent(_writeBuffer, n))
              \/ n = GetActiveSize(_writeBuffer) /\ _writeBuffer' = Reset(_writeBuffer)
  BY DEF WriteBuffer, WouldBlock, Fails
<1>. QED BY <1>3, <1>4, <1>5, <1>6

\* What begins with one message, and has no byte of it behind, can be rid of it.
LEMMA GiveUpStep ==
  ASSUME NEW c \in Pieces, c # <<>>, Len(c[1]) > 0, Apart(c),
         Pending = FlattenSeq(c), Pending' = FlattenSeq(Tail(c)),
         UNCHANGED <<sent, received \o outgoing>>
  PROVE  Stream!Next
<1>. DEFINE t == c[1]
            u == FlattenSeq(Tail(c))
            s == t \o u
<1>1. t \in Seq(Nat) /\ u \in Seq(Nat) /\ Tail(c) \in Pieces /\ FlattenSeq(c) = s
  BY FlattenHead
<1>2. /\ Len(c) \in Nat \ {0} /\ Len(Tail(c)) = Len(c) - 1
      /\ \A q \in 1 .. Len(Tail(c)) : Tail(c)[q] = c[q + 1]
  BY DEF Pieces
<1>3. \A p \in 1 .. Len(u) :
        \E q \in 1 .. Len(Tail(c)) : \E i \in 1 .. Len(Tail(c)[q]) : u[p] = Tail(c)[q][i]
  BY <1>1, FlattenFrom
<1>4. \A p \in 1 .. Len(u) : \E q \in 2 .. Len(c) : \E i \in 1 .. Len(c[q]) : u[p] = c[q][i]
  <2>. HIDE DEF u
  <2>. SUFFICES ASSUME NEW p \in 1 .. Len(u)
                PROVE  \E q \in 2 .. Len(c) : \E i \in 1 .. Len(c[q]) : u[p] = c[q][i]
    OBVIOUS
  <2>1. PICK q \in 1 .. Len(Tail(c)) : \E i \in 1 .. Len(Tail(c)[q]) : u[p] = Tail(c)[q][i]
    BY <1>3
  <2>2. q + 1 \in 2 .. Len(c) /\ Tail(c)[q] = c[q + 1]
    BY <1>2
  <2>. QED BY <2>1, <2>2
<1>5. 1 \in 1 .. Len(c) /\ Len(t) \in Nat /\ Len(u) \in Nat /\ 1 \in 1 .. Len(t)
  BY <1>1, <1>2
<1>6. \A i \in 1 .. Len(t) : t[i] = t[1]
  BY <1>5 DEF Apart
<1>7. \A p \in 1 .. Len(u) : u[p] # t[1]
  <2>. HIDE DEF u
  <2>. SUFFICES ASSUME NEW p \in 1 .. Len(u) PROVE u[p] # t[1]
    OBVIOUS
  <2>1. PICK q \in 2 .. Len(c) : \E i \in 1 .. Len(c[q]) : u[p] = c[q][i]
    BY <1>4
  <2>2. PICK i \in 1 .. Len(c[q]) : u[p] = c[q][i]
    BY <2>1
  <2>3. q \in 1 .. Len(c) /\ q # 1
    BY <1>2
  <2>4. c[q][i] = c[1][1] <=> q = 1
    BY <1>5, <2>3 DEF Apart
  <2>. QED BY <2>3, <2>4, <2>2
<1>. HIDE DEF t, u
<1>8. /\ s \in Seq(Nat) /\ Len(s) = Len(t) + Len(u)
      /\ \A p \in 1 .. Len(t) : s[p] = t[p]
      /\ \A p \in 1 .. Len(u) : s[Len(t) + p] = u[p]
      /\ SubSeq(s, Len(t) + 1, Len(s)) = u
  BY <1>1, TwoParts, Zenon
<1>. HIDE DEF s
<1>9. Head(s) = t[1] /\ Len(t) \in 1 .. Len(s)
  <2>1. Len(s) \in Nat \ {0}
    BY <1>5, <1>8
  <2>2. Head(s) = s[1]
    BY <1>8, <2>1
  <2>. QED BY <1>5, <1>8, <2>2
<1>10. ASSUME NEW i \in 1 .. Len(s) PROVE s[i] = Head(s) <=> i <= Len(t)
  <2>1. CASE i <= Len(t)
    <3>1. i \in 1 .. Len(t)
      BY <1>5, <2>1
    <3>. QED BY <1>6, <1>8, <1>9, <2>1, <3>1
  <2>2. CASE ~(i <= Len(t))
    <3>1. i - Len(t) \in 1 .. Len(u) /\ Len(t) + (i - Len(t)) = i
      BY <1>5, <1>8, <2>2
    <3>2. s[i] = u[i - Len(t)]
      BY <1>8, <3>1
    <3>. QED BY <1>7, <1>9, <2>2, <3>1, <3>2
  <2>. QED BY <2>1, <2>2
<1>11. Pending = s /\ Pending' = u
  BY <1>1 DEF u
<1>12. Stream!Oldest(Len(t))
  BY <1>10, <1>11 DEF Stream!Oldest
<1>13. Stream!GiveUp
  <2>1. Pending' = SubSeq(Pending, Len(t) + 1, Len(Pending)) /\ Len(t) \in 1 .. Len(Pending)
    BY <1>8, <1>9, <1>11
  <2>. QED BY <1>12, <2>1 DEF Stream!GiveUp
<1>. QED BY <1>13 DEF Stream!Next

LEMMA QueueMoves ==
  ASSUME TypeInv, BufferFirst, OrderInv, HandleQueue
  PROVE  [Stream!Next]_seen /\ OrderInv'
<1>. DEFINE c == ChunksOf(_writeQueue)
            m == Head(_writeQueue)
            u == FlattenSeq(Tail(c))
<1>1. UNCHANGED <<sent, _writeBuffer, received>> /\ GetActiveSize(_writeBuffer) = 0
  BY DEF HandleQueue, BufferFirst
<1>2. _writeBuffer \in Buffers /\ _writeQueue \in Seq(Buffers) /\ sent \in Nat
  BY DEF TypeInv
<1>3. Active(_writeBuffer) = <<>> /\ Active(_writeBuffer') = <<>>
  BY <1>1, <1>2, NothingActive
<1>4. CASE UNCHANGED <<_writeQueue, outgoing>>
  BY <1>1, <1>4, NothingMoves
<1>5. CASE _writeQueue # <<>>
  <2>1. /\ c \in Pieces /\ c # <<>> /\ c[1] = Active(m) /\ Tail(c) = ChunksOf(Tail(_writeQueue))
        /\ m \in Buffers /\ Tail(_writeQueue) \in Seq(Buffers)
    BY <1>2, <1>5, ChunksAre, ChunksTail
  <2>2. Apart(c) /\ UpTo(c, sent)
    BY DEF OrderInv
  <2>3. Pending = FlattenSeq(c)
    <3>1. FlattenSeq(c) \in Seq(Nat)
      BY <2>1, FlattenType
    <3>2. Pending = <<>> \o FlattenSeq(c)
      BY <1>3, PendingParts
    <3>. HIDE DEF c
    <3>. QED BY <3>1, <3>2, ConcatEmptySeq
  <2>4. u \in Seq(Nat) /\ FlattenSeq(c) = Active(m) \o u /\ Active(m) \in Seq(Nat)
    <3>. HIDE DEF c, m
    <3>. QED BY <2>1, FlattenHead
  <2>5. ASSUME _writeQueue' = Tail(_writeQueue)
        PROVE  /\ Pending' = u /\ Apart(ChunksOf(_writeQueue')) /\ UpTo(ChunksOf(_writeQueue'), sent)
    <3>1. ChunksOf(_writeQueue') = Tail(c)
      BY <2>1, <2>5
    <3>2. Pending' = <<>> \o u
      BY <1>3, <3>1, PendingParts
    <3>3. Apart(Tail(c)) /\ UpTo(Tail(c), sent)
      <4>. HIDE DEF c
      <4>. QED BY <1>2, <2>1, <2>2, ApartTail
    <3>. HIDE DEF u, c
    <3>. QED BY <2>4, <3>1, <3>2, <3>3, ConcatEmptySeq
  <2>6. CASE GetActiveSize(m) = 0 /\ _writeQueue' = Tail(_writeQueue) /\ UNCHANGED outgoing
    <3>1. Active(m) = <<>>
      BY <2>1, <2>6, NothingActive
    <3>2. Pending' = Pending
      <4>. HIDE DEF c, m, u
      <4>. QED BY <2>3, <2>4, <2>5, <2>6, <3>1, ConcatEmptySeq
    <3>. QED BY <1>1, <2>5, <2>6, <3>2 DEF seen, OrderInv
  <2>7. CASE GetActiveSize(m) > 0 /\ _writeQueue' = Tail(_writeQueue) /\ UNCHANGED outgoing
    <3>1. Len(c[1]) > 0
      BY <2>1, <2>7, ActiveBytes
    <3>2. UNCHANGED <<sent, received \o outgoing>>
      BY <1>1, <2>7
    <3>3. Pending' = FlattenSeq(Tail(c))
      BY <2>5, <2>7
    <3>4. Stream!Next
      <4>. HIDE DEF c
      <4>. QED BY <2>1, <2>2, <2>3, <3>1, <3>2, <3>3, GiveUpStep
    <3>. QED BY <1>1, <2>5, <2>7, <3>4 DEF OrderInv
  <2>8. ASSUME NEW n \in 1 .. GetActiveSize(m), Takes(m, n),
               Pending' = Active(ReadCompleted(m, n)) \o u,
               Apart(ChunksOf(_writeQueue')) /\ UpTo(ChunksOf(_writeQueue'), sent)
        PROVE  Stream!Next /\ OrderInv'
    <3>. HIDE DEF c, m, u
    <3>1. Pending = Active(m) \o u
      BY <2>3, <2>4
    <3>2. Stream!Next /\ outgoing' \in Seq(Nat)
      BY <1>1, <2>1, <2>4, <2>8, <3>1, TakenStep
    <3>. QED BY <1>1, <2>8, <3>2 DEF OrderInv
  <2>9. ASSUME NEW n \in 1 .. GetActiveSize(m), Takes(m, n), n = GetActiveSize(m),
               _writeQueue' = Tail(_writeQueue)
        PROVE  Stream!Next /\ OrderInv'
    <3>1. /\ Unsent(m, n) = ReadCompleted(m, n) /\ Unsent(m, n) \in Buffers
          /\ GetActiveSize(Unsent(m, n)) = GetActiveSize(m) - n
      BY <2>1, <2>9, ReadRest DEF Unsent
    <3>2. GetActiveSize(Unsent(m, n)) = 0
      BY <2>1, <2>9, <3>1, ActiveBytes
    <3>3. Active(ReadCompleted(m, n)) = <<>>
      BY <3>1, <3>2, NothingActive
    <3>4. Pending' = Active(ReadCompleted(m, n)) \o u
      <4>. HIDE DEF u, m
      <4>. QED BY <2>4, <2>5, <2>9, <3>3, ConcatEmptySeq
    <3>. QED BY <2>5, <2>8, <2>9, <3>4
  <2>10. ASSUME NEW n \in 1 .. GetActiveSize(m), Takes(m, n),
                _writeQueue' = [_writeQueue EXCEPT ![1] = Unsent(m, n)]
         PROVE  Stream!Next /\ OrderInv'
    <3>. DEFINE rest == ReadCompleted(m, n)
                d == ChunksOf(_writeQueue')
    <3>1. Unsent(m, n) = rest /\ rest \in Buffers
      BY <2>1, <2>10, ReadRest DEF Unsent
    <3>2. n \in Nat /\ n <= GetActiveSize(m)
      BY <2>1, <2>10, ActiveBytes
    <3>3. /\ GetActiveSize(rest) = GetActiveSize(m) - n
          /\ SubSeq(Active(m), 1, n) \o Active(rest) = Active(m)
          /\ SubSeq(Active(m), 1, n) \in Seq(Nat) /\ Len(SubSeq(Active(m), 1, n)) = n
      BY <2>1, <3>2, ReadTakes
    <3>. HIDE DEF rest, m
    <3>4. /\ _writeQueue' \in Seq(Buffers) /\ _writeQueue' # <<>>
          /\ Head(_writeQueue') = rest /\ Tail(_writeQueue') = Tail(_writeQueue)
          /\ Len(_writeQueue') = Len(_writeQueue)
      BY <1>2, <1>5, <2>10, <3>1, ChunksHead
    <3>5. /\ d \in Pieces /\ d # <<>> /\ d[1] = Active(rest) /\ Tail(d) = Tail(c)
          /\ Len(d) = Len(c)
      BY <1>2, <2>1, <3>4, ChunksAre, ChunksTail
    <3>6. Pending' = Active(rest) \o u
      <4>1. Pending' = <<>> \o FlattenSeq(d)
        BY <1>3, PendingParts
      <4>. HIDE DEF c, d
      <4>2. FlattenSeq(d) = Active(rest) \o u /\ FlattenSeq(d) \in Seq(Nat)
        BY <3>5, FlattenHead, FlattenType
      <4>. QED BY <4>1, <4>2, ConcatEmptySeq
    <3>7. Apart(d) /\ UpTo(d, sent)
      <4>1. \A q \in 1 .. Len(c) : q # 1 => d[q] = c[q]
        <5>. HIDE DEF c, d
        <5>. SUFFICES ASSUME NEW q \in 1 .. Len(c), q # 1 PROVE d[q] = c[q]
          OBVIOUS
        <5>1. Len(c) \in Nat /\ q - 1 \in 1 .. Len(c) - 1 /\ (q - 1) + 1 = q
          BY <2>1 DEF Pieces
        <5>2. Tail(c)[q - 1] = c[q] /\ Tail(d)[q - 1] = d[q]
          BY <2>1, <3>5, <5>1 DEF Pieces
        <5>. QED BY <3>5, <5>2
      <4>2. Len(c[1]) = Len(d[1]) + n /\ \A i \in 1 .. Len(d[1]) : d[1][i] = c[1][i + n]
        <5>. DEFINE front == SubSeq(Active(m), 1, n)
                    back == Active(rest)
        <5>1. back \in Seq(Nat) /\ front \in Seq(Nat) /\ Len(front) = n /\ Active(m) = front \o back
          BY <3>1, <3>3, ActiveBytes
        <5>. HIDE DEF front, back
        <5>2. /\ Len(Active(m)) = n + Len(back)
              /\ \A i \in 1 .. Len(back) : Active(m)[n + i] = back[i]
          <6>1. /\ Len(front \o back) = Len(front) + Len(back)
                /\ \A i \in 1 .. Len(back) : (front \o back)[Len(front) + i] = back[i]
            BY <5>1, TwoParts, Zenon
          <6>. QED BY <5>1, <6>1, Zenon
        <5>3. c[1] = Active(m) /\ d[1] = back /\ Len(back) \in Nat
          BY <2>1, <3>5, <5>1 DEF back
        <5>. HIDE DEF c, d
        <5>4. \A i \in 1 .. Len(back) : n + i = i + n
          BY <3>2, <5>3
        <5>. QED BY <3>2, <5>2, <5>3, <5>4
      <4>. HIDE DEF c, d
      <4>. QED BY <1>2, <2>1, <2>2, <3>2, <3>5, <4>1, <4>2, ApartRest
    <3>. QED BY <2>8, <2>10, <3>6, <3>7 DEF rest
  <2>11. \/ UNCHANGED <<_writeQueue, outgoing>>
         \/ GetActiveSize(m) = 0 /\ _writeQueue' = Tail(_writeQueue) /\ UNCHANGED outgoing
         \/ GetActiveSize(m) > 0 /\ _writeQueue' = Tail(_writeQueue) /\ UNCHANGED outgoing
         \/ \E n \in 1 .. GetActiveSize(m) :
              /\ Takes(m, n)
              /\ \/ _writeQueue' = [_writeQueue EXCEPT ![1] = Unsent(m, n)]
                 \/ n = GetActiveSize(m) /\ _writeQueue' = Tail(_writeQueue)
    BY <1>5 DEF HandleQueue, WouldBlock, Fails
  <2>. HIDE DEF c, m, u
  <2>. QED BY <1>4, <2>6, <2>7, <2>9, <2>10, <2>11
<1>6. CASE _writeQueue = <<>>
  <2>1. UNCHANGED <<_writeQueue, outgoing>>
    BY <1>6 DEF HandleQueue
  <2>. QED BY <1>4, <2>1
<1>. QED BY <1>5, <1>6

LEMMA OtherMoves ==
  ASSUME OrderInv,
         \/ OwnerCloses \/ ClientReads \/ ClientGoes \/ EndIsRead
         \/ Update \/ WriteHandlerWrapper \/ CheckOpen \/ UNCHANGED writerVars
  PROVE  UNCHANGED seen /\ OrderInv'
<1>1. CASE \/ OwnerCloses \/ ClientGoes \/ EndIsRead
           \/ Update \/ WriteHandlerWrapper \/ CheckOpen \/ UNCHANGED writerVars
  <2>1. UNCHANGED <<sent, _writeBuffer, _writeQueue, outgoing, received>>
    BY <1>1 DEF OwnerCloses, ClientGoes, EndIsRead, Update, WriteHandlerWrapper, CheckOpen,
                writerVars, writerState, queues
  <2>. QED BY <2>1, NothingMoves
<1>2. CASE ClientReads
  <2>1. /\ outgoing # <<>> /\ received' = Append(received, Head(outgoing)) /\ outgoing' = Tail(outgoing)
        /\ UNCHANGED <<sent, _writeBuffer, _writeQueue>>
    BY <1>2 DEF ClientReads, queues
  <2>. DEFINE x == Head(outgoing)
              rest == Tail(outgoing)
  <2>2. /\ received \in Seq(Nat) /\ outgoing \in Seq(Nat)
        /\ x \in Nat /\ rest \in Seq(Nat) /\ outgoing = <<x>> \o rest
    <3>1. outgoing \in Seq(Nat) /\ received \in Seq(Nat)
      BY DEF OrderInv
    <3>2. x \in Nat /\ rest \in Seq(Nat)
      BY <2>1, <3>1
    <3>3. outgoing = <<outgoing[1]>> \o SubSeq(outgoing, 1 + 1, Len(outgoing))
      <4>1. 1 \in 1 .. Len(outgoing) /\ Len(outgoing) \in 1 .. Len(outgoing)
        BY <2>1, <3>1
      <4>2. SubSeq(outgoing, 1, Len(outgoing)) = outgoing
        BY <3>1
      <4>. QED BY <3>1, <4>1, <4>2, SubSeqRecursiveFirst
    <3>4. outgoing[1] = x
      BY <2>1, <3>1
    <3>5. SubSeq(outgoing, 1 + 1, Len(outgoing)) = rest
      BY <2>1, <3>1, TailIsSubSeq
    <3>. HIDE DEF x, rest
    <3>. QED BY <3>1, <3>2, <3>3, <3>4, <3>5
  <2>3. Append(received, x) = received \o <<x>> /\ <<x>> \in Seq(Nat)
    <3>. HIDE DEF x
    <3>. QED BY <2>2, AppendIsConcat
  <2>4. Append(received, x) \in Seq(Nat)
    BY <2>2
  <2>. HIDE DEF x, rest
  <2>5. Append(received, x) \o rest = received \o outgoing
    BY <2>2, <2>3, InRow
  <2>6. (received \o outgoing)' = received \o outgoing
    BY <2>1, <2>5 DEF x, rest
  <2>7. Pending' = Pending
    BY <2>1, PendingParts
  <2>8. received' \in Seq(Nat) /\ outgoing' \in Seq(Nat)
    BY <2>1, <2>2, <2>4 DEF x, rest
  <2>. QED BY <2>1, <2>6, <2>7, <2>8 DEF seen, OrderInv
<1>. QED BY <1>1, <1>2

LEMMA StreamInit == WriterInit => Stream!Init /\ OrderInv
<1>. SUFFICES ASSUME WriterInit PROVE Stream!Init /\ OrderInv
  OBVIOUS
<1>. DEFINE b == MessageBufferOf(BlockSize)
            c == ChunksOf(_writeQueue)
<1>1. BlockSize \in Nat
  BY WriterAssumption
<1>2. b \in Buffers /\ GetActiveSize(b) = 0
  BY <1>1, FreshBuffer DEF GetActiveSize
<1>3. Active(b) = <<>>
  <2>. HIDE DEF b
  <2>. QED BY <1>2, NothingActive
<1>4. /\ _writeQueue = <<b>> /\ _writeBuffer = b /\ sent = 0
      /\ outgoing = <<>> /\ received = <<>>
  BY DEF WriterInit
<1>. HIDE DEF b
<1>5. _writeQueue \in Seq(Buffers) /\ _writeQueue # <<>> /\ Len(_writeQueue) = 1
      /\ Head(_writeQueue) = b /\ Tail(_writeQueue) = <<>>
  BY <1>2, <1>4
<1>6. /\ c \in Pieces /\ Len(c) = 1 /\ c # <<>> /\ c[1] = <<>> /\ Tail(c) = <<>>
  <2>1. c \in Pieces /\ Len(c) = 1
    BY <1>5, ChunksAre
  <2>2. c # <<>> /\ c[1] = <<>>
    BY <1>3, <1>5, ChunksTail
  <2>. HIDE DEF c
  <2>3. Tail(c) = <<>>
    <3>1. Tail(c) \in Seq(Seq(Nat)) /\ Len(Tail(c)) = 0
      BY <2>1, <2>2 DEF Pieces
    <3>. QED BY <3>1, EmptySeq
  <2>. QED BY <2>1, <2>2, <2>3
<1>7. Pending = <<>> \o FlattenSeq(c)
  BY <1>3, <1>4, PendingParts
<1>8. Apart(c) /\ UpTo(c, sent)
  <2>. HIDE DEF c
  <2>1. \A q \in 1 .. Len(c) : Len(c[q]) = 0
    BY <1>6
  <2>. QED BY <2>1 DEF Apart, UpTo
<1>9. Pending = <<>>
  <2>. HIDE DEF c
  <2>1. FlattenSeq(c) = c[1] \o FlattenSeq(Tail(c))
    BY <1>6, FlattenHead
  <2>2. FlattenSeq(c) = <<>> \o <<>>
    BY <1>6, <2>1, FlattenNone
  <2>. QED BY <1>7, <2>2
<1>10. received \o outgoing = <<>>
  BY <1>4
<1>. QED BY <1>4, <1>8, <1>9, <1>10 DEF Stream!Init, OrderInv

LEMMA StreamNext ==
  IInv /\ OrderInv /\ [WriterNext]_writerVars => [Stream!Next]_seen /\ OrderInv'
<1>. SUFFICES ASSUME IInv, OrderInv, [WriterNext]_writerVars PROVE [Stream!Next]_seen /\ OrderInv'
  OBVIOUS
<1>1. TypeInv /\ BufferFirst
  BY DEF IInv
<1>2. ASSUME NEW size \in Sizes, SendPacket(size) PROVE [Stream!Next]_seen /\ OrderInv'
  BY <1>1, <1>2, SendMoves
<1>3. CASE WriteBuffer
  BY <1>1, <1>3, BufferMoves
<1>4. CASE HandleQueue
  BY <1>1, <1>4, QueueMoves
<1>5. CASE \/ OwnerCloses \/ ClientReads \/ ClientGoes \/ EndIsRead
           \/ Update \/ WriteHandlerWrapper \/ CheckOpen \/ UNCHANGED writerVars
  BY <1>5, OtherMoves
<1>. QED BY <1>2, <1>3, <1>4, <1>5 DEF WriterNext, WriteHandler

-----------------------------------------------------------------------------
\* The write buffer, the queue and the two threads that send from them make one
\* stream: the bytes leave in the order of SendPacket, none of them twice, and
\* none is left out but the rest of a message that a hard error has hit.
THEOREM MessagesLeaveInOrder == WriterSpec => KeepsStream
<1>1. WriterSpec => []OrderInv
  BY WriterInv, StreamInit, StreamNext, PTL DEF WriterSpec
<1>. QED BY <1>1, WriterInv, StreamInit, StreamNext, PTL DEF WriterSpec, KeepsStream, Stream!Spec, seen
=============================================================================
