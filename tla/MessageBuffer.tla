--------------------------- MODULE MessageBuffer ----------------------------
(***************************************************************************)
(* MessageBuffer of DragonFiesta.Shared: a block of bytes with a position  *)
(* to read at and one to write at, both counted from 0 as in the code.     *)
(* The bytes from the one up to the other are the active ones.             *)
(***************************************************************************)
EXTENDS Integers, Sequences

\* What a fresh or enlarged block holds behind its old contents.
Zero == 0

MessageBufferOf(size) == [_wpos |-> 0, _rpos |-> 0, _storage |-> [p \in 1 .. size |-> Zero]]

GetBufferSize(b) == Len(b._storage)
GetActiveSize(b) == b._wpos - b._rpos
GetRemainingSpace(b) == Len(b._storage) - b._wpos
Active(b) == SubSeq(b._storage, b._rpos + 1, b._wpos)

Reset(b) == [b EXCEPT !._wpos = 0, !._rpos = 0]

\* The capacity is never given back: what lay behind a block that was made
\* smaller is zeroed again when it grows.
Resize(b, bytes) ==
  [b EXCEPT !._storage = [p \in 1 .. bytes |-> IF p <= Len(@) THEN @[p] ELSE Zero]]

EnsureFreeSpace(b) ==
  IF GetRemainingSpace(b) = 0 THEN Resize(b, 2 * GetBufferSize(b)) ELSE b

ReadCompleted(b, bytes) == [b EXCEPT !._rpos = @ + bytes]
WriteCompleted(b, bytes) == [b EXCEPT !._wpos = @ + bytes]

\* mutant: the end of what is active does not move
NormalizeStart(b) == [b EXCEPT !._rpos = 0]

\* memmove of the active bytes to the front.
Normalize(b) ==
  [b EXCEPT !._storage = [p \in 1 .. Len(@) |-> IF p <= GetActiveSize(b) THEN @[b._rpos + p] ELSE @[p]],
            !._wpos = GetActiveSize(b),
            !._rpos = 0]

\* Bytes put at the write pointer, by memcpy or by the kernel.
Fill(b, data) ==
  [b EXCEPT !._storage =
    [p \in 1 .. Len(@) |-> IF p - b._wpos \in 1 .. Len(data) THEN data[p - b._wpos] ELSE @[p]]]
Write(b, data) == WriteCompleted(Fill(b, data), Len(data))

\* What every member function relies on, and none tests.
WellFormed(b) ==
  /\ b._rpos \in Nat /\ b._wpos \in Nat
  /\ b._rpos <= b._wpos /\ b._wpos <= Len(b._storage)
=============================================================================
