---------------------------- MODULE SocketState -----------------------------
(***************************************************************************)
(* What both halves of a Socket look at: whether it has been closed.       *)
(***************************************************************************)
VARIABLES _closed, _closing

connection == <<_closed, _closing>>

Connected == _closed = FALSE /\ _closing = FALSE
IsOpen == ~_closed /\ ~_closing

\* The sending side is shut down; closing twice does nothing.
CloseSocket == _closed' = TRUE /\ UNCHANGED _closing

\* Meant to wait for the write buffer; nothing does.
DelayedCloseSocket == _closing' = TRUE /\ UNCHANGED _closed
=============================================================================
