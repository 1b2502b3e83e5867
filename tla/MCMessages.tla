----------------------------- MODULE MCMessages -----------------------------
(***************************************************************************)
(* What carries messages, each part on its own: the first one that moves   *)
(* is the only one that does.                                              *)
(***************************************************************************)
EXTENDS SocketWriter, SocketReader

VARIABLE part

vars == <<part, connection, writerState, readerState>>

Init == part = "none" /\ WriterInit /\ ReaderInit

Runs(p) == part \in {"none", p} /\ part' = p
Writer(A) == Runs("writer") /\ A /\ UNCHANGED readerState

Next ==
  \/ Writer(WriterNext)
  \/ Runs("reader") /\ ReaderNext /\ UNCHANGED writerState

\* Both threads of a writer go on; Update is called over and over, so that it
\* meets a free lock.  A client goes on reading as long as it is there, and an
\* end of what it sent is found.
Fairness ==
  /\ WF_vars(Writer(WriteHandler)) /\ WF_vars(Writer(WriteHandlerWrapper))
  /\ SF_vars(Writer(Update)) /\ SF_vars(Writer(EndIsRead)) /\ WF_vars(Writer(ClientReads))

Spec == Init /\ [][Next]_vars /\ Fairness
=============================================================================
