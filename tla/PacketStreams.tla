---------------------------- MODULE PacketStreams ----------------------------
(***************************************************************************)
(* A WriteStream that a packet is put into, and a ReadStream that it is    *)
(* taken from at the other end: a vector and a position in it, which       *)
(* nothing initialises.  The bytes written are numbered.                   *)
(***************************************************************************)
EXTENDS Integers, Sequences

CONSTANTS
  SizeLimit,    \* a size_t is less than this, 2^64 in the code
  MaxStorage,   \* the largest vector there is memory for
  AssertedSize, \* 10000000 in the code
  MaxWritten    \* bound on the bytes written

\* The largest vector of bytes has 2^63 - 1: twice its size does not wrap around.
ASSUME PacketStreamsAssumption ==
  /\ {SizeLimit, MaxStorage, AssertedSize, MaxWritten} \subseteq Nat
  /\ 2 * MaxStorage < SizeLimit /\ MaxStorage + 2 < SizeLimit

VARIABLES
  transfer,   \* "none", "writing", "reading", or how it ended
  StreamPos, _storage,
  began,      \* where the first byte since the last clear was put
  count,      \* bytes written, and how many of them before the last clear
  cleared,
  packet,     \* what arrived at the other end
  got,    \* the bytes read there, those skipped included, since a skip went
  since   \* back to this place: from the packet's beginning at first

stream == <<StreamPos, _storage>>
packetVars == <<transfer, stream, began, count, cleared, packet, got, since>>

Size(n) == n % SizeLimit
Zeros(n) == [p \in 1 .. n |-> 0]
Resized(s, n) == s \o Zeros(n - Len(s))
EndsIn(exception) == transfer' = exception /\ UNCHANGED <<stream, began, count, cleared, packet, got, since>>

PacketInit ==
  /\ transfer = "none" /\ StreamPos = 0 /\ _storage = <<>>
  /\ began = 0 /\ count = 0 /\ cleared = 0
  /\ packet = <<>> /\ got = <<>> /\ since = 0

\* A packet made on the heap: its position is what the memory held.
Construct ==
  /\ transfer = "none" /\ transfer' = "writing"
  /\ StreamPos' \in 0 .. SizeLimit - 1 /\ began' = StreamPos'
  /\ UNCHANGED <<_storage, count, cleared, packet, got, since>>

clear ==
  /\ transfer = "writing"
  /\ StreamPos' = 0 /\ _storage' = <<>>
  /\ began' = 0 /\ cleared' = count
  /\ UNCHANGED <<transfer, count, packet, got, since>>

-----------------------------------------------------------------------------
(* Writing.                                                                  *)

\* mutant: room is made for what is written, wherever it goes
GrownByCount(cnt) == IF Len(_storage) < cnt THEN Resized(_storage, cnt) ELSE _storage
\* The vector after its resize, if it is too short for cnt bytes at StreamPos.
Grown(cnt) ==
  IF Len(_storage) < Size(StreamPos + cnt) THEN Resized(_storage, Size(StreamPos + cnt)) ELSE _storage

\* The sum may wrap around, so that nothing grows and memcpy writes far behind
\* the vector's end.
Write(cnt) ==
  \/ cnt = 0 /\ EndsIn("PacketStreamSourceException")
  \/ cnt > 0 /\ Len(_storage) >= AssertedSize /\ EndsIn("assertion_failed")
  \/ cnt > 0 /\ Len(_storage) < AssertedSize /\ Size(StreamPos + cnt) > MaxStorage /\ EndsIn("length_error")
  \/ /\ cnt > 0 /\ Len(_storage) < AssertedSize /\ Size(StreamPos + cnt) <= MaxStorage
     /\ IF StreamPos + cnt > Len(Grown(cnt)) THEN EndsIn("overrun")
        ELSE /\ _storage' = [p \in 1 .. Len(Grown(cnt)) |->
                  IF p - StreamPos \in 1 .. cnt THEN count + p - StreamPos ELSE Grown(cnt)[p]]
             /\ StreamPos' = Size(StreamPos + cnt)
             /\ count' = count + cnt
             /\ UNCHANGED <<transfer, began, cleared, packet, got, since>>

Writes(cnt) == transfer = "writing" /\ count + cnt <= MaxWritten /\ Write(cnt)

\* A value or an array of them.
WriteNext == \E cnt \in 0 .. 2 : Writes(cnt)

\* A string of len characters: an empty one writes nothing.
WriteString == \E len \in 0 .. 1 : len > 0 /\ Writes(len)

\* Of another stream, which has been written up to pos.
WriteStream == \E pos \in 0 .. 1 : pos > 0 /\ Writes(pos)

\* A string cut or filled to length characters; filling reads what is behind
\* the string and its NUL.
WriteStringOf == \E len \in 0 .. 1, length \in 0 .. 2 :
  IF length > len + 1 THEN transfer = "writing" /\ EndsIn("overread") ELSE Writes(length)

\* operator[], which the vector's end is checked for.
Element(pos) == IF pos >= Len(_storage) THEN transfer = "writing" /\ EndsIn("PacketStreamPositionException")
           ELSE UNCHANGED packetVars
Index == transfer = "writing" /\ \E pos \in 0 .. MaxStorage : Element(pos)

\* The packet is sent: contents of an empty vector throws.  The other end makes
\* room for it with resize, which sets the position.
Arrives ==
  /\ transfer = "writing"
  /\ \/ _storage = <<>> /\ EndsIn("PacketStreamException")
     \/ /\ _storage # <<>>
        /\ transfer' = "reading" /\ packet' = _storage
        /\ StreamPos' = 0
        /\ UNCHANGED <<_storage, began, count, cleared, got, since>>

-----------------------------------------------------------------------------
(* Reading.                                                                  *)

InPacket(pos, cnt) == Size(pos + cnt) <= Len(_storage)
Taken(cnt) == [p \in 1 .. cnt |-> _storage[StreamPos + p]]

\* A sum that wraps around passes the check, and takes the position backwards.
Passes(cnt) ==
  /\ transfer = "reading"
  /\ IF ~InPacket(StreamPos, cnt) THEN EndsIn("PacketStreamPositionException")
     ELSE /\ StreamPos' = Size(StreamPos + cnt)
          /\ IF StreamPos + cnt < SizeLimit THEN got' = got \o Taken(cnt) /\ since' = since
             ELSE got' = <<>> /\ since' = StreamPos'
          /\ UNCHANGED <<transfer, _storage, began, count, cleared, packet>>

\* Read<T>, ReadString of length characters, and Read_skip of any size_t.
ReadNext == \E cnt \in 1 .. 2 : Passes(cnt)
ReadString == \E length \in 0 .. 2 : Passes(length)
Read_skip == \E skip \in 0 .. SizeLimit - 1 : Passes(skip)

\* Read<T>(pos), of any size_t: it leaves the stream alone, and with a sum that
\* wraps around it reads outside the vector.
ReadAt == transfer = "reading" /\ \E pos \in 0 .. SizeLimit - 1, cnt \in 1 .. 2 :
  \/ ~InPacket(pos, cnt) /\ EndsIn("PacketStreamPositionException")
  \/ InPacket(pos, cnt) /\ pos + cnt <= Len(_storage) /\ UNCHANGED packetVars
  \/ /\ InPacket(pos, cnt) /\ pos + cnt > Len(_storage)
     /\ transfer' = "outside" /\ since' = pos
     /\ UNCHANGED <<stream, began, count, cleared, packet, got>>

PacketNext ==
  \/ Construct \/ clear \/ WriteNext \/ WriteString \/ WriteStream \/ WriteStringOf \/ Index \/ Arrives
  \/ ReadNext \/ ReadString \/ Read_skip \/ ReadAt

PacketSpec == PacketInit /\ [][PacketNext]_packetVars

-----------------------------------------------------------------------------
(* Properties.                                                               *)

\* The values of a packet are read at the other end as they were written, in
\* order and none beyond its end, however they were put together and whatever
\* lay in the memory the stream was made in: that moves them behind as many
\* zeros, or makes the write fail.  Sums that wrap around are no exception but
\* these: a write then goes outside the vector, only from a position that no
\* vector is long enough for, a skip goes back in the packet, to be read again
\* from there, and a read at a place of its own goes outside the vector, only
\* from the last places a size_t names.
ReadsWhatWasWritten ==
  /\ transfer = "reading" =>
       /\ packet = Zeros(began) \o [p \in 1 .. count - cleared |-> cleared + p]
       /\ StreamPos <= Len(packet) /\ since <= StreamPos /\ got = SubSeq(packet, since + 1, StreamPos)
  /\ transfer = "overrun" => began > MaxStorage
  /\ transfer = "outside" => since + 2 >= SizeLimit
=============================================================================
