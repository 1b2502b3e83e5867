----------------------------- MODULE ByteStream -----------------------------
(***************************************************************************)
(* What a socket promises to those who send through it: the bytes of the   *)
(* messages come out in the order in which the messages were put in, each  *)
(* byte once.  The rest of a message may be given up, before any of it has *)
(* come out or in its middle; the next message follows.  A byte stands for *)
(* its message: the k-th message put in consists of k's.                   *)
(***************************************************************************)
EXTENDS Naturals, Sequences

CONSTANT Sizes  \* how long a message can be

VARIABLES count,    \* messages put in so far
          pending,  \* the bytes put in that have not come out
          out       \* the bytes that have come out

Bytes(k, size) == [i \in 1 .. size |-> k]

Init == count = 0 /\ pending = <<>> /\ out = <<>>

Put ==
  /\ count' = count + 1
  /\ \E size \in Sizes : pending' = pending \o Bytes(count', size)
  /\ UNCHANGED out

\* Some of the oldest bytes come out.
Emit ==
  \E n \in 1 .. Len(pending) :
    /\ out' = out \o SubSeq(pending, 1, n)
    /\ pending' = SubSeq(pending, n + 1, Len(pending))
    /\ UNCHANGED count

\* The first n pending bytes are what is left of the oldest message.
Oldest(n) == \A i \in 1 .. Len(pending) : pending[i] = Head(pending) <=> i <= n

GiveUp ==
  \E n \in 1 .. Len(pending) :
    /\ Oldest(n)
    /\ pending' = SubSeq(pending, n + 1, Len(pending))
    /\ UNCHANGED <<count, out>>

Next == Put \/ Emit \/ GiveUp
Spec == Init /\ [][Next]_<<count, pending, out>>
=============================================================================
