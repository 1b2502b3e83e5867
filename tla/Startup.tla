------------------------------ MODULE Startup -------------------------------
(***************************************************************************)
(* Server::Start of the Login, the World and the Zone server: configuration*)
(* files are read and checked, then the log, the database's pool and, in   *)
(* the first two, a network are set up.  Every part checks the settings    *)
(* again in its own way, and none is undone when a later one fails.  The   *)
(* World server does not compile, for it passes an address to StartNetwork *)
(* of InterSocketMgr that takes none any more; it is modelled without it.  *)
(*                                                                         *)
(* A configuration file is a function from <<section, name>> to a text.    *)
(***************************************************************************)
EXTENDS Integers, Sequences

CONSTANTS
  MaxZones,   \* configuration files that there are for zones
  Ports,      \* values of a port: 2^16 in the code
  Integers32  \* values of the other numbers: 2^32 in the code

ASSUME StartupAssumption == MaxZones \in Nat /\ Ports \in Nat \ {0} /\ Integers32 \in Nat \ {0, 1}

\* SettingTexts: "ip" is an address, and what stoi takes for a number.
ValueOf == [text \in {"-1", "0", "1", "2", "4", "16", "255"} |->
  CASE text = "-1" -> -1 [] text = "0" -> 0 [] text = "1" -> 1 [] text = "2" -> 2 [] text = "4" -> 4
    [] text = "16" -> 16 [] text = "255" -> 255]
SettingTexts == {"", "ip", "x", "-1", "0", "1", "4", "16"}
IsAddress(text) == text = "ip"

Tags == {"DATABASE", "NETWORK", "INTERNETWORK", "MAIN"}
MSG_ERROR == 3
MSG_CRITICAL_ERROR == 4
DEFAULT_ZONEMAX == 3
Unset == <<>>
NoPort == -1

VARIABLES
  server,     \* "none", "login", "world" or "zone"
  step,       \* what Start does next, or how it ended
  config,     \* the configuration in use
  zones,      \* ZoneMaxCount of each of the ZoneConfigs
  LogLevels,
  shown,      \* the message that Start ended with has passed the log's filter
  tasks,      \* of the TaskManager
  pool,       \* the Database's sizes, or Unset
  clients,    \* the size of mClients
  threads,    \* network threads that run
  listening,  \* the acceptor's port, or NoPort
  console     \* the console's thread runs

startupVars ==
  <<server, step, config, zones, LogLevels, shown, tasks, pool, clients, threads, listening, console>>
network == <<threads, listening, console>>
database == <<tasks, pool, clients>>

StartupInit ==
  /\ server = "none" /\ step = "begin" /\ config = <<>> /\ zones = <<>>
  /\ LogLevels = [tag \in Tags |-> 0] /\ shown = FALSE
  /\ tasks = <<>> /\ pool = Unset /\ clients = 0
  /\ threads = 0 /\ listening = NoPort /\ console = FALSE

-----------------------------------------------------------------------------
(* Configuration files.                                                      *)

NetNames(ip, port) == {ip, port, "SendBufferSize", "SockOutUBuff", "Threads"}
DatabaseNames == {"DatabaseUser", "DatabaseName", "DatabaseHost", "DatabasePort", "MinPoolSize", "MaxPoolSize"}
LogNames == {"MainLogLevel", "NetworkLogLevel", "DatabaseLogLevel", "InterNetworkLogLevel"}
TextNames == {"ListenIP", "ConnectIP", "DatabaseUser", "DatabaseName", "DatabaseHost"}

LoginSettings ==
  ({"Network", "InterNetwork"} \X NetNames("ListenIP", "ListenPort"))
  \cup ({"Database"} \X DatabaseNames) \cup ({"Log"} \X LogNames)
ZoneSettings ==
  ({"Network"} \X NetNames("ListenIP", "ListenPort")) \cup ({"InterNetwork"} \X NetNames("ConnectIP", "ConnectPort"))
  \cup ({"WorldDatabase", "ZoneDatabase"} \X DatabaseNames) \cup ({"Log"} \X LogNames)
  \cup {<<"ZoneServer", "ZoneMaxCount">>}
WorldSettings ==
  ({"Network"} \X NetNames("ListenIP", "ListenPort"))
  \cup ({"InterNetwork"} \X (NetNames("ListenIP", "ListenPort") \cup NetNames("ConnectIP", "ConnectPort")))
  \cup ({"WorldDatabase", "ZoneDatabase"} \X DatabaseNames) \cup ({"Log"} \X LogNames)
  \cup ({"WorldServer"} \X {"WorldID", "MaxPlayer", "MaxZoneCount"})

Usual(settings) == [s \in settings |-> IF s[2] \in TextNames THEN "ip" ELSE "2"]
Deviating(f) == {[f EXCEPT ![s] = t] : s \in DOMAIN f, t \in SettingTexts}
\* One section is missing.
Shorter(settings) == {Usual({s \in settings : s[1] # section}) : section \in {s[1] : s \in settings}}
LoginFiles == Shorter(LoginSettings) \cup UNION {Deviating(f) : f \in Deviating(Usual(LoginSettings))}
ZoneFiles == Shorter(ZoneSettings) \cup Deviating(Usual(ZoneSettings))
WorldFiles == Shorter(WorldSettings) \cup Deviating(Usual(WorldSettings)) \cup {[Usual(WorldSettings) EXCEPT ![<<"WorldServer", "WorldID">>] = "255"]}

\* inimap[section][name]: what is not there is made, and empty.
Text(f, section, name) == IF <<section, name>> \in DOMAIN f THEN f[<<section, name>>] ELSE ""

IsNumber(f, section, name) == Text(f, section, name) \in DOMAIN ValueOf
NonZero(f, section, name) == IsNumber(f, section, name) /\ ValueOf[Text(f, section, name)] # 0

SettingsRead(f, section, ip, port) ==
  Text(f, section, ip) # "" /\ \A name \in NetNames(ip, port) \ {ip} : NonZero(f, section, name)
\* Read of NetConfig and of InterServerConfig.
ReadNet(f, section) == SettingsRead(f, section, "ListenIP", "ListenPort")
ReadConnectSettings(f) == SettingsRead(f, "InterNetwork", "ConnectIP", "ConnectPort")

\* Read of DatabaseConfig: negative sizes pass, and a maximum below the minimum.
ReadDatabase(f, section) ==
  /\ \A name \in DatabaseNames \cap TextNames : Text(f, section, name) # ""
  /\ \A name \in DatabaseNames \ TextNames : NonZero(f, section, name)

ReadLog(f) == \A name \in LogNames : IsNumber(f, "Log", name)

\* Read of LoginServerConfig, of WorldServerConfig and of ZoneServerConfig.
LoginServerConfig(f) ==
  ReadNet(f, "Network") /\ ReadNet(f, "InterNetwork") /\ ReadDatabase(f, "Database") /\ ReadLog(f)
\* The world's id is an int8, and -1 stands for none.
WorldServerConfig(f) ==
  /\ \A name \in {"WorldID", "MaxPlayer", "MaxZoneCount"} : IsNumber(f, "WorldServer", name)
  /\ ReadNet(f, "Network") /\ ReadNet(f, "InterNetwork") /\ ReadConnectSettings(f)
  /\ ReadDatabase(f, "WorldDatabase") /\ ReadDatabase(f, "ZoneDatabase") /\ ReadLog(f)
  /\ ValueOf[Text(f, "WorldServer", "WorldID")] % 256 # 255 /\ ValueOf[Text(f, "WorldServer", "MaxZoneCount")] > 0
HasZoneCount(f) ==
  IsNumber(f, "ZoneServer", "ZoneMaxCount") /\ ValueOf[Text(f, "ZoneServer", "ZoneMaxCount")] > 0
ZoneServerConfig(f) ==
  /\ HasZoneCount(f)
  /\ ReadNet(f, "Network") /\ ReadConnectSettings(f)
  /\ ReadDatabase(f, "WorldDatabase") /\ ReadDatabase(f, "ZoneDatabase") /\ ReadLog(f)

-----------------------------------------------------------------------------
(* The log.                                                                  *)

\* mutant: a message of the level itself is held back
FilterAbove(level, tag) == level > LogLevels[tag]
\* A message without a tag is measured by the main level.
Log_Filter(level, tag) == level >= LogLevels[tag]
LogMSG(level, tag) == shown' = Log_Filter(level, tag)

SetupLogLevel(levels, tag, level) == IF level > 4 THEN levels ELSE [levels EXCEPT ![tag] = level]

\* Initialize(LogConf).  It catches what its sink and its file throw, and Start
\* then returns false without a message.
InitializeLog ==
  /\ step = "log"
  /\ \/ /\ step' = "database"
        /\ LET Level(name) == ValueOf[config[<<"Log", name>>]]
               network1 == SetupLogLevel(LogLevels, "NETWORK", Level("NetworkLogLevel"))
               database1 == SetupLogLevel(network1, "DATABASE", Level("DatabaseLogLevel"))
               internetwork1 == SetupLogLevel(database1, "INTERNETWORK", Level("InterNetworkLogLevel"))
           IN  LogLevels' = SetupLogLevel(internetwork1, "MAIN", Level("MainLogLevel"))
     \/ step' = "failed" /\ UNCHANGED LogLevels
  /\ UNCHANGED <<server, config, zones, shown, database, network>>

-----------------------------------------------------------------------------
(* How Start ends.                                                           *)

\* return false, after a message.
ReturnFalse(level, tag) ==
  /\ step' = "failed" /\ LogMSG(level, tag)
  /\ UNCHANGED <<server, config, zones, LogLevels, database, network>>

\* An exception that nobody catches, or an address that cannot be read.
Terminates ==
  step' = "terminated" /\ UNCHANGED <<server, config, zones, LogLevels, shown, database, network>>

\* All parts have started; the demonstration of the collections leaves nothing.
Succeeds == step' = "started"

\* catch(std::exception), in which the message has no tag.
Catch == ReturnFalse(MSG_CRITICAL_ERROR, "MAIN")

-----------------------------------------------------------------------------
(* The Login and the World server.                                           *)

Begins(s) == server = "none" /\ server' = s /\ UNCHANGED <<config, zones, LogLevels, pool, clients, network>>

\* A console for the log, the CrashHandler, and a task for the TaskManager.
BeginLogin == Begins("login") /\ step' = "read" /\ tasks' = <<"TestTask">> /\ UNCHANGED shown
BeginWorld == Begins("world") /\ step' = "read" /\ UNCHANGED <<tasks, shown>>

\* The CrashHandler throws if it cannot make its directory, and exits if it
\* cannot set its handler.
NoCrashHandler ==
  /\ \E s \in {"login", "world", "zone"} : Begins(s)
  /\ \/ step' = "failed" /\ LogMSG(MSG_CRITICAL_ERROR, "MAIN")
     \/ step' = "terminated" /\ UNCHANGED shown
  /\ UNCHANGED tasks

Accepts(f) == IF server = "login" THEN LoginServerConfig(f) ELSE WorldServerConfig(f)
ReadsFile(f) ==
  IF Accepts(f)
  THEN config' = f /\ step' = "log" /\ UNCHANGED <<server, zones, LogLevels, shown, database, network>>
  ELSE ReturnFalse(MSG_ERROR, "MAIN")

\* There may be no file; the exceptions of ini_file are no std::exception, and
\* leave Start, main and the program, unless Read itself catches them.
NoFile == ReturnFalse(MSG_ERROR, "MAIN")
ReadLogin ==
  /\ server = "login" /\ step = "read"
  /\ \/ NoFile
     \/ Terminates
     \/ \E f \in LoginFiles : ReadsFile(f)
ReadWorld ==
  /\ server = "world" /\ step = "read"
  /\ \/ NoFile
     \/ \E f \in WorldFiles : ReadsFile(f)

-----------------------------------------------------------------------------
(* The Zone server.                                                          *)

BeginZone == Begins("zone") /\ step' = "read" /\ UNCHANGED <<tasks, shown>>

ZoneCount == IF zones = <<>> THEN DEFAULT_ZONEMAX ELSE zones[Len(zones)]

\* Two messages of ZoneServerConfig, for a file without a count and for one that
\* cannot be read, have the zone's id printed as a text: 0 is then no text, and
\* any other id an address that nobody has.
NamesZone(id) == IF id = 0 THEN ReturnFalse(MSG_ERROR, "MAIN") ELSE Terminates

\* One round of LoadConfigs; the count is that of the file read last.  The
\* first file is read once more when all are, and used.
LoadConfigs ==
  /\ server = "zone" /\ step = "read" /\ Len(zones) < ZoneCount
  /\ \/ NoFile
     \/ NamesZone(Len(zones))
     \/ /\ Len(zones) < MaxZones
        /\ \E f \in ZoneFiles :
             \/ /\ ZoneServerConfig(f)
                /\ zones' = Append(zones, ValueOf[Text(f, "ZoneServer", "ZoneMaxCount")])
                /\ config' = IF zones = <<>> THEN f ELSE config
                /\ UNCHANGED <<server, step, LogLevels, shown, database, network>>
             \/ ~ZoneServerConfig(f) /\ HasZoneCount(f) /\ ReturnFalse(MSG_ERROR, "MAIN")
             \/ ~HasZoneCount(f) /\ NamesZone(Len(zones))
ReadZone ==
  /\ server = "zone" /\ step = "read" /\ Len(zones) >= ZoneCount
  /\ \/ NoFile \/ NamesZone(0)
     \/ step' = "log" /\ UNCHANGED <<server, config, zones, LogLevels, shown, database, network>>

-----------------------------------------------------------------------------
(* The database.                                                             *)

Section == IF server = "login" THEN "Database" ELSE "ZoneDatabase"
Unsigned(n) == IF n < 0 THEN n + Integers32 ELSE n
Setting(section, name) == ValueOf[config[<<section, name>>]]
\* The sizes as they are configured.
MinPoolSize == Unsigned(Setting(Section, "MinPoolSize"))
MaxPoolSize == Unsigned(Setting(Section, "MaxPoolSize"))

\* mutant: only a minimum of 0 is refused
DatabaseMinimum == IF MinPoolSize = 0 THEN Unset ELSE <<MinPoolSize, MaxPoolSize>>
\* The constructor: with sizes that do not fit it leaves its members as they are.
Database == IF MinPoolSize = 0 \/ MaxPoolSize < MinPoolSize THEN Unset ELSE <<MinPoolSize, MaxPoolSize>>

\* The DatabaseManager makes room for as many clients as the Database says, which
\* may be too many, or whatever it finds there.
ReserveClients(sizes) ==
  \/ /\ clients' \in IF sizes = Unset THEN 0 .. 2 ELSE {sizes[2]}
     /\ tasks' = Append(tasks, "DatabaseManager")
     /\ step' = IF server = "zone" THEN "started" ELSE "network"
  \/ /\ IF sizes = Unset THEN TRUE ELSE sizes[2] > 16
     /\ step' = "out_of_memory" /\ UNCHANGED <<clients, tasks>>

\* InitializeLoginDatabase and InitializeZoneDatabase.  DatabaseServer would
\* throw a text without a user or host, which ReadDatabase has excluded.
InitializeDatabase ==
  /\ step = "database"
  /\ pool' = Database
  /\ ReserveClients(pool')
  /\ UNCHANGED <<server, config, zones, LogLevels, shown, network>>

OutOfMemory == step = "out_of_memory" /\ Catch

-----------------------------------------------------------------------------
(* The network and the console.                                              *)

\* The section and the log's tag of the server's network.
NetworkSection == IF server = "login" THEN "Network" ELSE "InterNetwork"
NetworkTag == IF server = "login" THEN "NETWORK" ELSE "INTERNETWORK"
ThreadCount == Setting(NetworkSection, "Threads")

NetworkRefused == Setting(NetworkSection, "SockOutUBuff") <= 0 \/ ThreadCount <= 0

\* StartNetwork of LoginSocketMgr, and Setup of InterSocketMgr.
StartNetwork ==
  /\ step = "network"
  /\ IF NetworkRefused THEN ReturnFalse(MSG_ERROR, NetworkTag)
     ELSE step' = "threads" /\ UNCHANGED <<server, config, zones, LogLevels, shown, database, network>>

\* StartNetwork of SocketMgr; a thread may be one too many for the system.
StartThread ==
  /\ step = "threads" /\ threads < ThreadCount
  /\ \/ threads' = threads + 1
        /\ UNCHANGED <<server, step, config, zones, LogLevels, shown, database, listening, console>>
     \/ Catch

\* The acceptor's address may be none, or its port taken by another.
Listen ==
  /\ server = "login" /\ step = "threads" /\ threads >= ThreadCount
  /\ \/ /\ IsAddress(config[<<"Network", "ListenIP">>])
        /\ listening' = Setting("Network", "ListenPort") % Ports
        /\ step' = "console"
        /\ UNCHANGED <<server, config, zones, LogLevels, shown, database, threads, console>>
     \/ Catch

\* StartNetwork of InterSocketMgr makes no acceptor.
StartInterNetwork ==
  /\ server = "world" /\ step = "threads" /\ threads >= ThreadCount
  /\ Succeeds
  /\ UNCHANGED <<server, config, zones, LogLevels, shown, database, network>>

\* The console's thread, too, may be one too many; the acceptor listens by then.
StartConsole ==
  /\ step = "console"
  /\ \/ /\ console' = TRUE /\ Succeeds
        /\ UNCHANGED <<server, config, zones, LogLevels, shown, database, threads, listening>>
     \/ Catch

-----------------------------------------------------------------------------
\* io_service.run has nothing to wait for in the World and the Zone server, and
\* returns.
Run ==
  /\ server \in {"world", "zone"} /\ step = "started"
  /\ step' = "ended"
  /\ UNCHANGED <<server, config, zones, LogLevels, shown, database, network>>

StartupNext ==
  \/ BeginLogin \/ NoCrashHandler \/ ReadLogin \/ BeginWorld \/ ReadWorld \/ BeginZone \/ LoadConfigs \/ ReadZone
  \/ InitializeLog \/ InitializeDatabase \/ OutOfMemory
  \/ StartNetwork \/ StartThread \/ Listen \/ StartInterNetwork \/ StartConsole \/ Run

StartupSpec == StartupInit /\ [][StartupNext]_startupVars

-----------------------------------------------------------------------------
(* Properties.                                                               *)

\* A server that has started works with what its files say, whichever settings
\* are unusual: the Login and the World server have as many network threads as
\* configured and at least one, the Login server listens, and each has a pool
\* of 1 to MaxPoolSize clients - unless the sizes contradict each other, which
\* the Database only logs.  Zone configurations that agree about their number
\* are all read, and no more.
StartedWhole ==
  step \in {"started", "ended"} =>
    /\ \/ pool = Unset /\ MaxPoolSize < MinPoolSize
       \/ pool = <<MinPoolSize, MaxPoolSize>> /\ 1 <= pool[1] /\ pool[1] <= pool[2] /\ clients = pool[2]
    /\ server # "zone" => threads = ThreadCount /\ threads > 0
    /\ server = "login" => console /\ listening # NoPort
    /\ server = "zone" =>
         \A n \in 1 .. 16 : (\A k \in 1 .. Len(zones) : zones[k] = n) => Len(zones) = n

\* The pool's manager has been made.
HasManager == "DatabaseManager" \in {tasks[k] : k \in 1 .. Len(tasks)}

\* A Start that fails leaves no console.  It leaves network threads only when
\* all settings were right and the system refused a thread or an address, and an
\* acceptor only when it was the Login server's console that was refused its
\* thread, with all network threads at work.  It has shown why - except when the
\* log is told to hold back that the network's settings are wrong, and when the
\* log itself could not be set up, after which nothing else was tried.
FailsClean ==
  step = "failed" =>
    /\ ~console
    /\ threads > 0 => ~NetworkRefused /\ threads <= ThreadCount /\ HasManager
    /\ listening # NoPort => server = "login" /\ threads = ThreadCount /\ threads > 0
    /\ ~shown => \/ HasManager /\ NetworkRefused /\ LogLevels[NetworkTag] > MSG_ERROR
                 \/ ReadLog(config) /\ tasks \in {<<>>, <<"TestTask">>} /\ pool = Unset /\ threads = 0
=============================================================================
