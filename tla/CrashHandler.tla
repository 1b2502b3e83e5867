---------------------------- MODULE CrashHandler ----------------------------
(***************************************************************************)
(* CrashHandler: a SIGSEGV is reported to a file and to the log, line by   *)
(* line, by the thread that it hits, which then exits.  The report is made *)
(* with the heap and the log, whose locks that very thread, or one that    *)
(* has crashed as well, may hold.  The heap's lock is not recursive, the   *)
(* one of the log's sink is.  The log shows its lines only when its main   *)
(* level lets errors through.  Nothing is modelled past exit.              *)
(***************************************************************************)
EXTENDS Integers, Sequences

CONSTANTS
  Workers,   \* threads of the server
  MaxFrames  \* of a backtrace, 50 in the code

NotHeld == "nobody"
SignalLine == 0

ASSUME CrashAssumption == MaxFrames \in Nat \ {0} /\ NotHeld \notin Workers

VARIABLES
  process,     \* "unprotected", "running", or how it has ended
  opened,      \* the file could be opened
  filtered,    \* the log's main level is above MSG_ERROR
  outsStream,  \* thread -> the lines of its report in the file: SignalLine, or a frame
  sLog,        \* the same for the log
  garbled,     \* two threads have written to the file at once
  doing,       \* thread -> [step, i, size]; the step is "works" until it crashes
  heap, sink   \* the thread that holds the lock

crashVars == <<process, opened, filtered, outsStream, sLog, garbled, doing, heap, sink>>
settings == <<opened, filtered>>
reports == <<outsStream, sLog, garbled>>
locks == <<heap, sink>>

CrashInit ==
  /\ process = "unprotected" /\ opened = FALSE /\ filtered = FALSE /\ garbled = FALSE
  /\ outsStream = [t \in Workers |-> <<>>] /\ sLog = outsStream
  /\ doing = [t \in Workers |-> [step |-> "works", i |-> 1, size |-> 1]]
  /\ heap = NotHeld /\ sink = NotHeld

Crashed == {t \in Workers : doing[t].step # "works"}

\* The directory may refuse to be made, and sigaction to take the handler.
StartCrashHandler ==
  /\ process = "unprotected"
  /\ opened' \in BOOLEAN
  /\ process' \in {"running", "not_started", "EXIT_FAILURE"}
  /\ UNCHANGED <<filtered, reports, doing, locks>>

-----------------------------------------------------------------------------
(* A thread at work.                                                         *)

Works(t) == process = "running" /\ t \notin Crashed /\ UNCHANGED <<process, opened, reports>>
Allocates(t) == Works(t) /\ heap = NotHeld /\ heap' = t /\ UNCHANGED <<filtered, doing, sink>>
Allocated(t) == Works(t) /\ heap = t /\ heap' = NotHeld /\ UNCHANGED <<filtered, doing, sink>>
Logs(t) == Works(t) /\ heap # t /\ sink = NotHeld /\ sink' = t /\ UNCHANGED <<filtered, doing, heap>>
Logged(t) == Works(t) /\ heap # t /\ sink = t /\ sink' = NotHeld /\ UNCHANGED <<filtered, doing, heap>>

\* The log is set up after the handler, and its main level may be above MSG_ERROR.
InitializesLog(t) == Works(t) /\ heap # t /\ ~filtered /\ filtered' = TRUE /\ UNCHANGED <<doing, locks>>

Crashes(t) ==
  Works(t) /\ doing' = [doing EXCEPT ![t].step = "signal"] /\ UNCHANGED <<filtered, locks>>
\* SIGSEGV is blocked while it is handled, and a second one kills.
CrashesAgain(t) ==
  process = "running" /\ t \in Crashed /\ process' = "killed" /\ UNCHANGED <<settings, reports, doing, locks>>

-----------------------------------------------------------------------------
(* crit_err_hdlr.                                                            *)

Step(t, from, to) ==
  /\ process = "running" /\ doing[t].step = from
  /\ doing' = [doing EXCEPT ![t].step = to]
  /\ UNCHANGED <<process, settings, locks>>

\* mutant: the heap's lock is recursive
MayAllocateHeld == heap = NotHeld \/ heap \in Crashed
MayAllocate == heap = NotHeld
\* mutant: the log's lock is not recursive
MayLogUnheld(t) == sink = NotHeld
MayLog(t) == sink \in {NotHeld, t}

WritesLine(t, line) ==
  /\ outsStream' = IF opened THEN [outsStream EXCEPT ![t] = Append(@, line)] ELSE outsStream
  /\ garbled' = (garbled \/ \E u \in Workers \ {t} : doing[u].step \in {"signal_line", "frame_line"})
  /\ UNCHANGED sLog
\* LogMSG: the line is formatted, and Log_Filter asked, before the sink is locked.
Formats(t, from, locking, to) ==
  Step(t, from, IF filtered THEN to ELSE locking) /\ MayAllocate /\ UNCHANGED reports
LogsLine(t, line) ==
  /\ MayLog(t)
  /\ sLog' = [sLog EXCEPT ![t] = Append(@, line)]
  /\ UNCHANGED <<outsStream, garbled>>

MakeString(t) == Step(t, "signal", "signal_line") /\ MayAllocate /\ UNCHANGED reports
WriteSignal(t) == Step(t, "signal_line", "signal_log") /\ WritesLine(t, SignalLine)
LogSignal(t) == Formats(t, "signal_log", "signal_sink", "backtrace")
SinkSignal(t) == Step(t, "signal_sink", "backtrace") /\ LogsLine(t, SignalLine)

\* The line for the console, and the symbols, without which there are no frames;
\* the handler's own frame is left out.
Backtrace(t) ==
  /\ process = "running" /\ doing[t].step = "backtrace" /\ MayAllocate
  /\ \E size \in 1 .. MaxFrames : doing' = [doing EXCEPT ![t] = [step |-> "frame_log", i |-> 1, size |-> size]]
  /\ UNCHANGED <<process, settings, reports, locks>>
\* mutant: the loop stops before the last frame
MoreFramesButOne(t) == doing[t].i + 1 < doing[t].size
MoreFrames(t) == doing[t].i < doing[t].size

LogFrame(t) == MoreFrames(t) /\ Formats(t, "frame_log", "frame_sink", "frame_line")
SinkFrame(t) == Step(t, "frame_sink", "frame_line") /\ LogsLine(t, doing[t].i)
WriteFrame(t) ==
  /\ process = "running" /\ doing[t].step = "frame_line" /\ WritesLine(t, doing[t].i)
  /\ doing' = [doing EXCEPT ![t].step = "frame_log", ![t].i = @ + 1]
  /\ UNCHANGED <<process, settings, locks>>
\* free, and exit.
Exits(t) ==
  /\ process = "running" /\ doing[t].step = "frame_log" /\ ~MoreFrames(t) /\ MayAllocate
  /\ process' = "EXIT_FAILURE" /\ doing' = [doing EXCEPT ![t].step = "exit"]
  /\ UNCHANGED <<settings, reports, locks>>

Reports(t) ==
  \/ MakeString(t) \/ WriteSignal(t) \/ LogSignal(t) \/ SinkSignal(t) \/ Backtrace(t)
  \/ LogFrame(t) \/ SinkFrame(t) \/ WriteFrame(t) \/ Exits(t)

CrashNext ==
  \/ StartCrashHandler
  \/ \E t \in Workers :
       \/ Allocates(t) \/ Allocated(t) \/ Logs(t) \/ Logged(t) \/ InitializesLog(t)
       \/ Crashes(t) \/ CrashesAgain(t) \/ Reports(t)

CrashSpec == CrashInit /\ [][CrashNext]_crashVars

\* A thread at work lets go of its locks, and one that waits for a lock gets it
\* if it is free time and again.
CrashFairness ==
  \A t \in Workers :
    /\ WF_crashVars(Allocated(t)) /\ SF_crashVars(Logged(t))
    /\ SF_crashVars(Reports(t))
CrashFairSpec == CrashSpec /\ CrashFairness

-----------------------------------------------------------------------------
(* Properties.                                                               *)

\* The process exits from a crash with the report of the thread that exits
\* complete: in the file, if that could be opened and no second thread has
\* crashed and garbled it, and in the log, as far as the log's level lets errors
\* through - when the level is raised meanwhile, what comes later is missing.
Report(t) == [n \in 1 .. doing[t].size |-> n - 1]
CrashReported ==
  \A t \in Workers : doing[t].step = "exit" =>
    /\ \E n \in 0 .. doing[t].size :
         sLog[t] = SubSeq(Report(t), 1, n) /\ (n = doing[t].size \/ filtered)
    /\ opened /\ ~garbled => outsStream[t] = Report(t)

\* After a crash with the heap's lock held, that lock stays held and no thread
\* gets to the end of its report: the process does not exit until it is killed.
HeapCrashHangs ==
  [][(heap \in Crashed) => heap' = heap /\ process' \in {process, "killed"}]_crashVars

\* Any other crash ends the process, whichever threads hold the log's lock,
\* crash while they do, or are at work with either lock.
CrashEnds == Crashed # {} ~> process # "running" \/ heap \in Crashed
=============================================================================
