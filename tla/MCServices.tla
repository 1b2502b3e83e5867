----------------------------- MODULE MCServices -----------------------------
(***************************************************************************)
(* What a server uses around its network and its pool, each part on its    *)
(* own: the first one that moves is the only one that does.                *)
(***************************************************************************)
EXTENDS Statement, IniFile, Startup, PacketStreams, Collections, Timers, DateTime, CrashHandler

VARIABLE part

files == <<iniVars, startupVars>>
data == <<packetVars, collectionVars>>
time == <<timerVars, dateVars>>
vars == <<part, statementVars, files, data, time, crashVars>>

ElementTypes ==
  [of : {"string", "parsed", "fixed"}, pointer : {TRUE}] \cup {[of |-> "string", pointer |-> FALSE]}
ValueCharacters == {"x", " ", "'", "\"", "\\"}
\* The last second of 1999 and the first of 2000, and a day of 2127.
TheCalendar ==
  0 :> [sec |-> 59, hour |-> 23, mday |-> 31, mon |-> 11, year |-> 99]
  @@ 1 :> [sec |-> 0, hour |-> 0, mday |-> 1, mon |-> 0, year |-> 100]
  @@ 2 :> [sec |-> 5, hour |-> 6, mday |-> 7, mon |-> 7, year |-> 227]

Init ==
  /\ part = "none"
  /\ StatementInit /\ IniInit /\ StartupInit /\ PacketInit /\ CollectionInit /\ TimersInit /\ DateTimeInit /\ CrashInit

Runs(p) == part \in {"none", p} /\ part' = p

Next ==
  \/ Runs("statement") /\ StatementNext /\ UNCHANGED <<files, data, time, crashVars>>
  \/ Runs("ini_file") /\ IniNext /\ UNCHANGED <<statementVars, startupVars, data, time, crashVars>>
  \/ Runs("start-up") /\ StartupNext /\ UNCHANGED <<statementVars, iniVars, data, time, crashVars>>
  \/ Runs("packet") /\ PacketNext /\ UNCHANGED <<statementVars, files, collectionVars, time, crashVars>>
  \/ Runs("collection") /\ CollectionNext /\ UNCHANGED <<statementVars, files, packetVars, time, crashVars>>
  \/ Runs("timer") /\ TimersNext /\ UNCHANGED <<statementVars, files, data, dateVars, crashVars>>
  \/ Runs("date") /\ DateTimeNext /\ UNCHANGED <<statementVars, files, data, timerVars, crashVars>>
  \/ Runs("crash") /\ CrashNext /\ UNCHANGED <<statementVars, files, data, time>>

\* Only the report of a crash has somebody waiting for it.
Spec == Init /\ [][Next]_vars /\ CrashFairness
=============================================================================
