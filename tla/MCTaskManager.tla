--------------------------- MODULE MCTaskManager ----------------------------
EXTENDS TaskManager

\* Keys of a periodic task, of a TimerTask, and of the ShutdownEvent; the task
\* in between the others makes the iterators cross erased entries.
MCTasks == 1 .. 3
MCInterVall == <<2, 1, 1>>
MCLifeTime == <<0, 2, 2>>
=============================================================================
