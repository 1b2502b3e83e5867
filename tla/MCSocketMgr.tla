---------------------------- MODULE MCSocketMgr -----------------------------
EXTENDS SocketMgr, TLC

\* Connections differ in nothing but their names; the threads do, by their order.
Interchangeable == Permutations(Connections)
=============================================================================
