--------------------------- MODULE ServicesProofs ---------------------------
(***************************************************************************)
(* The life of a server's process, its timers, dates and collections, for  *)
(* settings, threads, fields, calendars and contents of any size: what has *)
(* started works with what its files say, what has failed leaves nothing   *)
(* listening, and a crash is reported in full.                             *)
(***************************************************************************)
EXTENDS Startup, CrashHandler, Timers, DateTime, Collections, NumberLemmas, FiniteSetTheorems,
        SequenceTheorems, TLAPS

(***************************************************************************)
(* Start-up.  What each step of Start has secured: the settings it goes by *)
(* are accepted, the zones are counted, the log can show an error, the     *)
(* pool has its sizes, no more threads run than configured, and nobody     *)
(* listens before the last of them.                                        *)
(***************************************************************************)
BeforePool == {"begin", "read", "log", "database"}
BeforeThreads == {"begin", "read", "log", "database", "out_of_memory", "network"}
WithThreads == {"threads", "console", "started", "ended"}
WithPool == {"network"} \cup WithThreads
Configured == {"log", "database", "out_of_memory"} \cup WithPool
Steps == BeforeThreads \cup WithThreads \cup {"failed", "terminated"}

Accepted == IF server = "zone" THEN ZoneServerConfig(config) ELSE Accepts(config)

PhaseInv ==
  /\ server \in {"none", "login", "world", "zone"} /\ step \in Steps
  /\ step = "begin" <=> server = "none"
  /\ server = "zone" => step \notin {"network", "threads", "console"}
  /\ step = "console" => server = "login"
  /\ step = "ended" => server # "login"
ConfigInv == step \in Configured => Accepted
AllAgree(counts, n) == \A k \in 1 .. Len(counts) : counts[k] = n
ZoneInv ==
  /\ zones \in Seq(Int)
  /\ zones # <<>> => server = "zone" /\ ZoneServerConfig(config)
  /\ \A n \in 1 .. 16 : AllAgree(zones, n) => Len(zones) <= n
  /\ server = "zone" /\ step \in Configured => \A n \in 1 .. 16 : AllAgree(zones, n) => Len(zones) = n
LevelInv ==
  /\ LogLevels \in [Tags -> {level \in Int : level <= 4}]
  /\ step \in {"begin", "read"} => \A tag \in Tags : LogLevels[tag] = 0
TaskInv == tasks \in Seq({"TestTask", "DatabaseManager"})
PoolRight ==
  \/ pool = Unset /\ MaxPoolSize < MinPoolSize
  \/ pool = <<MinPoolSize, MaxPoolSize>> /\ 1 <= MinPoolSize /\ MinPoolSize <= MaxPoolSize /\ clients = MaxPoolSize
NothingMade == pool = Unset /\ tasks \in {<<>>, <<"TestTask">>}
PoolInv ==
  /\ step \in BeforePool => NothingMade
  /\ step \in WithPool => PoolRight /\ HasManager
ThreadInv ==
  /\ threads \in Nat
  /\ step \in BeforeThreads => threads = 0
  /\ step \in WithThreads /\ server # "zone" => ~NetworkRefused /\ threads <= ThreadCount
  /\ step \in {"console", "started", "ended"} /\ server # "zone" => threads = ThreadCount
ListenInv ==
  /\ step \notin {"console", "started", "ended", "failed"} => listening = NoPort /\ ~console
  /\ step = "console" => listening # NoPort /\ ~console
  /\ step \in {"started", "ended"} /\ server = "login" => listening # NoPort /\ console
StartupIInv ==
  /\ PhaseInv /\ ConfigInv /\ ZoneInv /\ LevelInv /\ TaskInv
  /\ PoolInv /\ ThreadInv /\ ListenInv /\ FailsClean

LEMMA ValuesKnown ==
  /\ \A text \in DOMAIN ValueOf : ValueOf[text] \in Int /\ ValueOf[text] >= -1
  /\ "" \notin DOMAIN ValueOf
BY DEF ValueOf

\* A text that is a number is one that the file has.
LEMMA NumbersKnown ==
  ASSUME NEW f, NEW section, NEW name, IsNumber(f, section, name)
  PROVE  /\ ValueOf[Text(f, section, name)] = ValueOf[f[<<section, name>>]]
         /\ ValueOf[f[<<section, name>>]] \in Int /\ ValueOf[f[<<section, name>>]] >= -1
<1>1. Text(f, section, name) = f[<<section, name>>]
  BY ValuesKnown DEF IsNumber, Text
<1>. QED BY <1>1, ValuesKnown DEF IsNumber

LEMMA DatabaseKnown ==
  ASSUME NEW f, NEW section, ReadDatabase(f, section),
         NEW name \in {"MinPoolSize", "MaxPoolSize"}
  PROVE  /\ ValueOf[f[<<section, name>>]] \in Int /\ ValueOf[f[<<section, name>>]] >= -1
         /\ ValueOf[f[<<section, name>>]] # 0
<1>1. name \in DatabaseNames \ TextNames
  BY DEF DatabaseNames, TextNames
<1>2. NonZero(f, section, name)
  BY <1>1 DEF ReadDatabase
<1>. QED BY <1>2, NumbersKnown DEF NonZero

LEMMA NetworkKnown ==
  ASSUME NEW f, NEW section, ReadNet(f, section),
         NEW name \in {"ListenPort", "SockOutUBuff", "Threads"}
  PROVE  ValueOf[f[<<section, name>>]] \in Int
<1>1. name \in NetNames("ListenIP", "ListenPort") \ {"ListenIP"}
  BY DEF NetNames
<1>2. NonZero(f, section, name)
  BY <1>1 DEF ReadNet, SettingsRead
<1>. QED BY <1>2, NumbersKnown DEF NonZero

LEMMA LevelsKnown ==
  ASSUME NEW f, ReadLog(f), NEW name \in LogNames
  PROVE  ValueOf[f[<<"Log", name>>]] \in Int
BY NumbersKnown DEF ReadLog

LEMMA SettingsKnown ==
  ASSUME Accepted, server \in {"login", "world", "zone"}
  PROVE  /\ MinPoolSize \in Nat \ {0} /\ MaxPoolSize \in Nat \ {0}
         /\ ReadLog(config)
         /\ server # "zone" => ThreadCount \in Int /\ Setting(NetworkSection, "SockOutUBuff") \in Int
         /\ server = "login" => Setting("Network", "ListenPort") \in Int
<1>1. ReadDatabase(config, Section) /\ ReadLog(config)
  BY DEF Accepted, Accepts, LoginServerConfig, WorldServerConfig, ZoneServerConfig, Section
<1>2. /\ Setting(Section, "MinPoolSize") \in Int \ {0} /\ Setting(Section, "MinPoolSize") >= -1
      /\ Setting(Section, "MaxPoolSize") \in Int \ {0} /\ Setting(Section, "MaxPoolSize") >= -1
  BY <1>1, DatabaseKnown DEF Setting
<1>3. MinPoolSize \in Nat \ {0} /\ MaxPoolSize \in Nat \ {0}
  BY <1>2, StartupAssumption DEF StartupAssumption, MinPoolSize, MaxPoolSize, Unsigned
<1>4. server # "zone" => ReadNet(config, NetworkSection)
  BY DEF Accepted, Accepts, LoginServerConfig, WorldServerConfig, NetworkSection
<1>5. server # "zone" => ThreadCount \in Int /\ Setting(NetworkSection, "SockOutUBuff") \in Int
  BY <1>4, NetworkKnown DEF Setting, ThreadCount
<1>6. server = "login" => Setting("Network", "ListenPort") \in Int
  BY <1>4, NetworkKnown DEF Setting, NetworkSection
<1>. QED BY <1>1, <1>3, <1>5, <1>6

\* What only the settings decide stays as long as they do.
LEMMA SettingsKept ==
  ASSUME UNCHANGED <<server, config>>
  PROVE  /\ Accepted' <=> Accepted
         /\ ZoneServerConfig(config)' <=> ZoneServerConfig(config)
         /\ MinPoolSize' = MinPoolSize /\ MaxPoolSize' = MaxPoolSize
         /\ ThreadCount' = ThreadCount
         /\ NetworkRefused' <=> NetworkRefused
         /\ NetworkTag' = NetworkTag
<1>1. \A f : Accepts(f)' <=> Accepts(f)
  BY DEF Accepts
<1>2. \A section, name : Setting(section, name)' = Setting(section, name)
  BY DEF Setting
<1>3. NetworkSection' = NetworkSection /\ Section' = Section /\ NetworkTag' = NetworkTag
  BY DEF NetworkSection, Section, NetworkTag
<1>4. ZoneServerConfig(config)' <=> ZoneServerConfig(config)
  OBVIOUS
<1>5. Accepted' <=> Accepted
  BY <1>1, <1>4 DEF Accepted
<1>6. MinPoolSize' = MinPoolSize /\ MaxPoolSize' = MaxPoolSize
  BY <1>3 DEF MinPoolSize, MaxPoolSize, Setting
<1>7. ThreadCount' = ThreadCount /\ (NetworkRefused' <=> NetworkRefused)
  BY <1>3 DEF ThreadCount, NetworkRefused, Setting
<1>. QED BY <1>3, <1>4, <1>5, <1>6, <1>7

LEMMA StartupInitInv == StartupInit => StartupIInv
BY DEF StartupInit, StartupIInv, PhaseInv, ConfigInv, ZoneInv, LevelInv, TaskInv, PoolInv, ThreadInv, ListenInv,
       FailsClean, BeforePool, NothingMade, BeforeThreads, WithThreads, WithPool, Configured, Steps

\* A step that leaves the settings, the zones, the log and the tasks alone, and
\* goes on where the settings were accepted.
LEMMA GoesOn ==
  ASSUME StartupIInv, UNCHANGED <<server, config, zones, LogLevels, tasks>>,
         step' \in Configured => step \in Configured, step' \notin {"begin", "read"}
  PROVE  ConfigInv' /\ ZoneInv' /\ LevelInv' /\ TaskInv'
<1>1. ConfigInv'
  BY SettingsKept DEF StartupIInv, ConfigInv
<1>2. ZoneInv'
  BY SettingsKept DEF StartupIInv, ZoneInv
<1>3. LevelInv' /\ TaskInv'
  BY DEF StartupIInv, LevelInv, TaskInv
<1>. QED BY <1>1, <1>2, <1>3

LEMMA FailsStep ==
  ASSUME StartupIInv, NEW level, NEW tag, ReturnFalse(level, tag), server # "none", ~console,
         threads > 0 => ~NetworkRefused /\ threads <= ThreadCount /\ HasManager,
         listening # NoPort => server = "login" /\ threads = ThreadCount /\ threads > 0,
         Log_Filter(level, tag) \/ (HasManager /\ NetworkRefused /\ LogLevels[NetworkTag] > MSG_ERROR)
  PROVE  StartupIInv'
<1>1. /\ step' = "failed" /\ (shown' <=> Log_Filter(level, tag))
      /\ UNCHANGED <<server, config, zones, LogLevels, tasks, threads, listening, console>>
  BY DEF ReturnFalse, LogMSG, network, database
<1>2. /\ step' \notin Configured /\ step' \notin BeforePool /\ step' \notin BeforeThreads
      /\ step' \notin WithThreads /\ step' \in Steps
  BY <1>1 DEF Configured, BeforePool, BeforeThreads, WithThreads, WithPool, Steps
<1>3. ConfigInv' /\ ZoneInv' /\ LevelInv' /\ TaskInv'
  BY <1>1, <1>2, GoesOn
<1>4. PhaseInv'
  BY <1>1, <1>2 DEF StartupIInv, PhaseInv
<1>5. PoolInv' /\ ThreadInv' /\ ListenInv'
  BY <1>1, <1>2 DEF StartupIInv, PoolInv, ThreadInv, ListenInv, Configured
<1>6. FailsClean'
  BY <1>1, SettingsKept DEF FailsClean, HasManager
<1>. QED BY <1>3, <1>4, <1>5, <1>6 DEF StartupIInv

\* Before the log is told its levels it shows every error, and it shows one of
\* the highest level at any of them.
LEMMA Shown ==
  ASSUME StartupIInv
  PROVE  /\ Log_Filter(MSG_CRITICAL_ERROR, "MAIN")
         /\ step \in {"begin", "read"} => Log_Filter(MSG_ERROR, "MAIN")
         /\ Log_Filter(MSG_ERROR, NetworkTag) \/ LogLevels[NetworkTag] > MSG_ERROR
<1>1. "MAIN" \in Tags /\ NetworkTag \in Tags
  BY DEF Tags, NetworkTag
<1>2. /\ LogLevels["MAIN"] \in Int /\ LogLevels["MAIN"] <= 4
      /\ LogLevels[NetworkTag] \in Int
      /\ step \in {"begin", "read"} => LogLevels["MAIN"] = 0
  BY <1>1 DEF StartupIInv, LevelInv
<1>. QED BY <1>2 DEF Log_Filter, MSG_CRITICAL_ERROR, MSG_ERROR

\* The first step of a Start.
LEMMA BeginsStep ==
  ASSUME StartupIInv, NEW s \in {"login", "world", "zone"}, Begins(s),
         \/ step' = "read"
         \/ step' = "failed" /\ LogMSG(MSG_CRITICAL_ERROR, "MAIN")
         \/ step' = "terminated",
         tasks' \in Seq({"TestTask", "DatabaseManager"}), tasks' \in {tasks, <<"TestTask">>}
  PROVE  StartupIInv'
<1>1. /\ server = "none" /\ server' = s /\ step = "begin"
      /\ UNCHANGED <<config, zones, LogLevels, pool, clients, threads, listening, console>>
  BY DEF Begins, network, StartupIInv, PhaseInv
<1>2. /\ step \in BeforeThreads /\ threads = 0 /\ listening = NoPort /\ ~console
      /\ \A tag \in Tags : LogLevels[tag] = 0
  BY <1>1 DEF BeforeThreads, StartupIInv, ThreadInv, ListenInv, LevelInv
<1>3. step' \notin Configured /\ step' \notin WithThreads /\ step' \in Steps
  BY DEF BeforeThreads, Configured, WithPool, WithThreads, Steps
<1>4. PhaseInv' /\ ConfigInv' /\ TaskInv' /\ PoolInv'
  BY <1>1, <1>3 DEF StartupIInv, PhaseInv, ConfigInv, TaskInv, PoolInv, Configured, BeforePool, NothingMade
<1>5. ThreadInv' /\ ListenInv' /\ LevelInv'
  BY <1>1, <1>2, <1>3 DEF StartupIInv, ThreadInv, ListenInv, LevelInv, WithThreads
<1>6. ZoneInv'
  BY <1>1, <1>3 DEF StartupIInv, ZoneInv
<1>7. FailsClean'
  BY <1>1, <1>2, Shown DEF FailsClean, LogMSG
<1>. QED BY <1>4, <1>5, <1>6, <1>7 DEF StartupIInv

LEMMA FailsReading ==
  ASSUME StartupIInv, step = "read", ReturnFalse(MSG_ERROR, "MAIN")
  PROVE  StartupIInv'
<1>1. server # "none" /\ listening = NoPort /\ ~console /\ threads = 0
  BY DEF StartupIInv, PhaseInv, ThreadInv, ListenInv, BeforeThreads
<1>2. Log_Filter(MSG_ERROR, "MAIN")
  BY Shown
<1>. QED BY <1>1, <1>2, FailsStep

LEMMA TerminatesReading ==
  ASSUME StartupIInv, step = "read", Terminates
  PROVE  StartupIInv'
<1>. USE DEF network, database
<1>1. step' = "terminated" /\ UNCHANGED <<server, config, zones, LogLevels, shown, database, network>>
  BY DEF Terminates
<1>2. server # "none" /\ listening = NoPort /\ ~console /\ threads = 0
  BY DEF StartupIInv, PhaseInv, ThreadInv, ListenInv, BeforeThreads
<1>3. /\ step' \notin Configured /\ step' \notin WithThreads /\ step' \notin BeforePool
      /\ step' \notin BeforeThreads /\ step' \in Steps
  BY <1>1 DEF BeforePool, BeforeThreads, Configured, WithPool, WithThreads, Steps
<1>4. ConfigInv' /\ ZoneInv' /\ LevelInv' /\ TaskInv'
  BY <1>1, <1>3, GoesOn
<1>5. PhaseInv' /\ PoolInv' /\ ThreadInv' /\ ListenInv' /\ FailsClean'
  BY <1>1, <1>2, <1>3 DEF StartupIInv, PhaseInv, PoolInv, ThreadInv, ListenInv, FailsClean, Configured
<1>. QED BY <1>4, <1>5 DEF StartupIInv

LEMMA ReadStep ==
  ASSUME StartupIInv, ReadLogin \/ ReadWorld
  PROVE  StartupIInv'
<1>. USE DEF network, database
<1>1. step = "read" /\ server \in {"login", "world"}
  BY DEF ReadLogin, ReadWorld
<1>2. CASE ReturnFalse(MSG_ERROR, "MAIN")
  BY <1>1, <1>2, FailsReading
<1>3. /\ threads = 0 /\ listening = NoPort /\ ~console
      /\ PhaseInv /\ LevelInv /\ TaskInv /\ ZoneInv
  BY <1>1 DEF StartupIInv, ThreadInv, ListenInv, BeforeThreads
<1>4. CASE Terminates
  BY <1>1, <1>4, TerminatesReading
<1>5. ASSUME NEW f, Accepts(f), config' = f, step' = "log",
             UNCHANGED <<server, zones, LogLevels, shown, database, network>>
      PROVE  StartupIInv'
  <2>1. /\ step' \in Configured /\ step' \notin WithPool /\ step' \notin WithThreads
        /\ step' \in BeforeThreads /\ step' \in Steps
    BY <1>5 DEF BeforeThreads, Configured, WithPool, WithThreads, Steps
  <2>2. NothingMade /\ NothingMade'
    BY <1>1, <1>5 DEF StartupIInv, PoolInv, BeforePool, NothingMade
  <2>3. Accepts(f)' <=> Accepts(f)
    BY <1>5 DEF Accepts
  <2>4. ConfigInv'
    BY <1>1, <1>5, <2>3 DEF ConfigInv, Accepted, Accepts
  <2>5. zones = <<>> => ZoneInv'
    BY <1>1, <1>3, <1>5 DEF ZoneInv
  <2>6. zones = <<>>
    BY <1>1 DEF StartupIInv, ZoneInv
  <2>7. LevelInv' /\ TaskInv'
    BY <1>3, <1>5 DEF LevelInv, TaskInv
  <2>8. PhaseInv' /\ PoolInv' /\ ThreadInv' /\ ListenInv' /\ FailsClean'
    BY <1>1, <1>3, <1>5, <2>1, <2>2 DEF PhaseInv, PoolInv, ThreadInv, ListenInv, FailsClean
  <2>. QED BY <2>4, <2>5, <2>6, <2>7, <2>8 DEF StartupIInv
<1>6. CASE \E f : ReadsFile(f)
  BY <1>2, <1>5, <1>6 DEF ReadsFile
<1>. QED BY <1>2, <1>4, <1>6 DEF ReadLogin, ReadWorld, NoFile

LEMMA LoadConfigsStep ==
  ASSUME StartupIInv, LoadConfigs
  PROVE  StartupIInv'
<1>. USE DEF network, database
<1>1. step = "read" /\ server = "zone" /\ Len(zones) < ZoneCount
  BY DEF LoadConfigs
<1>2. CASE ReturnFalse(MSG_ERROR, "MAIN")
  BY <1>1, <1>2, FailsReading
<1>3. ASSUME NEW f, ZoneServerConfig(f),
             zones' = Append(zones, ValueOf[Text(f, "ZoneServer", "ZoneMaxCount")]),
             config' = IF zones = <<>> THEN f ELSE config,
             UNCHANGED <<server, step, LogLevels, shown, database, network>>
      PROVE  StartupIInv'
  <2>. DEFINE max == ValueOf[Text(f, "ZoneServer", "ZoneMaxCount")]
  <2>1. max \in Int /\ max > 0
    BY <1>3, NumbersKnown DEF ZoneServerConfig, HasZoneCount
  <2>. HIDE DEF max
  <2>2. zones \in Seq(Int) /\ zones' = Append(zones, max)
    BY <1>3 DEF StartupIInv, ZoneInv, max
  <2>3. step \notin Configured
    BY <1>1 DEF Configured, WithPool, WithThreads
  <2>4. ZoneServerConfig(config)'
    <3>1. CASE zones = <<>>
      BY <1>3, <3>1
    <3>2. CASE zones # <<>>
      BY <1>3, <3>2, SettingsKept DEF StartupIInv, ZoneInv
    <3>. QED BY <3>1, <3>2
  <2>5. ASSUME NEW n \in 1 .. 16, AllAgree(zones', n)
        PROVE  Len(zones') <= n
    <3>1. Len(zones') = Len(zones) + 1 /\ Len(zones) \in Nat /\ \A k \in 1 .. Len(zones) : zones[k] = n
      BY <2>1, <2>2, <2>5 DEF AllAgree
    <3>2. CASE zones = <<>>
      BY <3>1, <3>2
    <3>3. CASE zones # <<>>
      <4>1. Len(zones) \in 1 .. Len(zones)
        BY <2>2, <3>3
      <4>2. zones[Len(zones)] = n
        BY <3>1, <4>1
      <4>. QED BY <1>1, <3>1, <3>3, <4>2 DEF ZoneCount
    <3>. QED BY <3>2, <3>3
  <2>6. ZoneInv'
    <3>1. \A n \in 1 .. 16 : AllAgree(zones', n) => Len(zones') <= n
      BY <2>5
    <3>2. zones' \in Seq(Int) /\ server' = "zone" /\ step' = step
      BY <1>1, <1>3, <2>1, <2>2
    <3>. QED BY <2>3, <2>4, <3>1, <3>2 DEF ZoneInv
  <2>7. NothingMade /\ NothingMade'
    BY <1>1, <1>3 DEF StartupIInv, PoolInv, BeforePool, NothingMade
  <2>8. /\ PhaseInv' /\ ConfigInv' /\ LevelInv' /\ TaskInv' /\ PoolInv' /\ ThreadInv' /\ ListenInv' /\ FailsClean'
    BY <1>1, <1>3, <2>3, <2>7 DEF StartupIInv, PhaseInv, ConfigInv, LevelInv, TaskInv, PoolInv, ThreadInv, ListenInv,
                            FailsClean, Configured, WithPool, WithThreads
  <2>. QED BY <2>6, <2>8 DEF StartupIInv
<1>4. CASE Terminates
  BY <1>1, <1>4, TerminatesReading
<1>. QED BY <1>2, <1>3, <1>4 DEF LoadConfigs, NoFile, NamesZone

LEMMA ReadZoneStep ==
  ASSUME StartupIInv, ReadZone
  PROVE  StartupIInv'
<1>. USE DEF network, database
<1>1. step = "read" /\ server = "zone" /\ Len(zones) >= ZoneCount
  BY DEF ReadZone
<1>2. CASE ReturnFalse(MSG_ERROR, "MAIN")
  BY <1>1, <1>2, FailsReading
<1>3. CASE step' = "log" /\ UNCHANGED <<server, config, zones, LogLevels, shown, database, network>>
  <2>1. /\ step' \notin WithPool /\ step' \notin WithThreads
        /\ step' \in BeforeThreads /\ step' \in Steps
    BY <1>3 DEF BeforeThreads, Configured, WithPool, WithThreads, Steps
  <2>2. zones \in Seq(Int) /\ zones # <<>>
    BY <1>1 DEF StartupIInv, ZoneInv, ZoneCount, DEFAULT_ZONEMAX
  <2>3. ZoneServerConfig(config)
    BY <2>2 DEF StartupIInv, ZoneInv
  <2>4. ConfigInv'
    BY <1>1, <1>3, <2>3, SettingsKept DEF ConfigInv, Accepted
  <2>5. ASSUME NEW n \in 1 .. 16, AllAgree(zones, n)
        PROVE  Len(zones) = n
    <3>1. Len(zones) <= n
      BY <2>5 DEF StartupIInv, ZoneInv
    <3>2. Len(zones) \in 1 .. Len(zones)
      BY <2>2
    <3>3. zones[Len(zones)] = n
      BY <2>5, <3>2 DEF AllAgree
    <3>. QED BY <1>1, <2>2, <3>1, <3>2, <3>3 DEF ZoneCount
  <2>6. ZoneInv'
    <3>1. \A n \in 1 .. 16 : AllAgree(zones, n) => Len(zones) = n
      BY <2>5
    <3>2. \A n \in 1 .. 16 : AllAgree(zones, n) => Len(zones) <= n
      BY DEF StartupIInv, ZoneInv
    <3>3. ZoneServerConfig(config)'
      BY <1>3, <2>3, SettingsKept
    <3>4. zones' = zones /\ server' = "zone"
      BY <1>1, <1>3
    <3>. QED BY <2>2, <3>1, <3>2, <3>3, <3>4 DEF ZoneInv
  <2>7. LevelInv' /\ TaskInv'
    BY <1>1, <1>3 DEF StartupIInv, LevelInv, TaskInv
  <2>8. NothingMade /\ NothingMade'
    BY <1>1, <1>3 DEF StartupIInv, PoolInv, BeforePool, NothingMade
  <2>9. PhaseInv' /\ PoolInv' /\ ThreadInv' /\ ListenInv' /\ FailsClean'
    BY <1>1, <1>3, <2>1, <2>8 DEF StartupIInv, PhaseInv, PoolInv, ThreadInv, ListenInv, FailsClean, BeforeThreads
  <2>. QED BY <2>4, <2>6, <2>7, <2>9 DEF StartupIInv
<1>. QED BY <1>2, <1>3 DEF ReadZone, NoFile, NamesZone

LEMMA InitializeLogStep ==
  ASSUME StartupIInv, InitializeLog, step' = "database"
  PROVE  StartupIInv'
<1>. USE DEF network, database
<1>1. /\ step = "log" /\ step' = "database"
      /\ UNCHANGED <<server, config, zones, shown, tasks, pool, clients, threads, listening, console>>
  BY DEF InitializeLog
<1>2. /\ step \in Configured /\ step \in BeforeThreads /\ step' \in Configured /\ step' \in BeforeThreads
      /\ step' \notin WithPool /\ step' \notin WithThreads /\ step' \in Steps
  BY <1>1 DEF BeforeThreads, Configured, WithPool, WithThreads, Steps
<1>3. Accepted /\ server \in {"login", "world", "zone"}
  BY <1>1, <1>2 DEF StartupIInv, ConfigInv, PhaseInv
<1>4. ASSUME NEW levels \in [Tags -> {level \in Int : level <= 4}], NEW tag \in Tags, NEW level \in Int
      PROVE  SetupLogLevel(levels, tag, level) \in [Tags -> {l \in Int : l <= 4}]
  BY DEF SetupLogLevel
<1>5. ASSUME NEW name \in LogNames PROVE ValueOf[config[<<"Log", name>>]] \in Int
  BY <1>3, SettingsKnown, LevelsKnown
<1>6. LogLevels' \in [Tags -> {level \in Int : level <= 4}]
  <2>. DEFINE Level(name) == ValueOf[config[<<"Log", name>>]]
              network1 == SetupLogLevel(LogLevels, "NETWORK", Level("NetworkLogLevel"))
              database1 == SetupLogLevel(network1, "DATABASE", Level("DatabaseLogLevel"))
              internetwork1 == SetupLogLevel(database1, "INTERNETWORK", Level("InterNetworkLogLevel"))
  <2>1. {"NETWORK", "DATABASE", "INTERNETWORK", "MAIN"} \subseteq Tags
    BY DEF Tags
  <2>2. /\ Level("NetworkLogLevel") \in Int /\ Level("DatabaseLogLevel") \in Int
        /\ Level("InterNetworkLogLevel") \in Int /\ Level("MainLogLevel") \in Int
    BY <1>5 DEF LogNames
  <2>3. LogLevels' = SetupLogLevel(internetwork1, "MAIN", Level("MainLogLevel"))
    BY DEF InitializeLog
  <2>. HIDE DEF Level
  <2>4. LogLevels \in [Tags -> {level \in Int : level <= 4}]
    BY DEF StartupIInv, LevelInv
  <2>5. network1 \in [Tags -> {level \in Int : level <= 4}]
    BY <1>4, <2>1, <2>2, <2>4
  <2>. HIDE DEF network1
  <2>6. database1 \in [Tags -> {level \in Int : level <= 4}]
    BY <1>4, <2>1, <2>2, <2>5
  <2>. HIDE DEF database1
  <2>7. internetwork1 \in [Tags -> {level \in Int : level <= 4}]
    BY <1>4, <2>1, <2>2, <2>6
  <2>. HIDE DEF internetwork1
  <2>. QED BY <1>4, <2>1, <2>2, <2>3, <2>7
<1>7. LevelInv' /\ TaskInv'
  BY <1>1, <1>6 DEF StartupIInv, LevelInv, TaskInv
<1>8. ConfigInv' /\ ZoneInv'
  BY <1>1, <1>2, SettingsKept DEF StartupIInv, ConfigInv, ZoneInv
<1>9. NothingMade /\ NothingMade'
  BY <1>1 DEF StartupIInv, PoolInv, BeforePool, NothingMade
<1>10. PhaseInv' /\ PoolInv' /\ ThreadInv' /\ ListenInv' /\ FailsClean'
  BY <1>1, <1>2, <1>9 DEF StartupIInv, PhaseInv, PoolInv, ThreadInv, ListenInv, FailsClean
<1>. QED BY <1>7, <1>8, <1>10 DEF StartupIInv

\* The log cannot be set up: nothing has been made, and nothing is said.
LEMMA NoLogStep ==
  ASSUME StartupIInv, InitializeLog, step' # "database"
  PROVE  StartupIInv'
<1>. USE DEF network, database
<1>1. /\ step = "log" /\ step' = "failed"
      /\ UNCHANGED <<server, config, zones, LogLevels, shown, tasks, pool, clients, threads, listening, console>>
  BY DEF InitializeLog
<1>2. /\ Accepted /\ server \in {"login", "world", "zone"} /\ NothingMade
      /\ threads = 0 /\ listening = NoPort /\ ~console
  BY <1>1 DEF StartupIInv, ConfigInv, PhaseInv, PoolInv, ThreadInv, ListenInv, Configured, BeforePool, BeforeThreads
<1>3. ReadLog(config)
  BY <1>2, SettingsKnown
<1>4. /\ step' \notin Configured /\ step' \notin BeforePool /\ step' \notin BeforeThreads
      /\ step' \notin WithThreads /\ step' \in Steps
  BY <1>1 DEF Configured, BeforePool, BeforeThreads, WithThreads, WithPool, Steps
<1>5. ConfigInv' /\ ZoneInv' /\ LevelInv' /\ TaskInv'
  BY <1>1, <1>4, GoesOn
<1>6. PhaseInv' /\ PoolInv' /\ ThreadInv' /\ ListenInv'
  BY <1>1, <1>2, <1>4 DEF StartupIInv, PhaseInv, PoolInv, ThreadInv, ListenInv, Configured
<1>7. ReadLog(config)'
  BY <1>1, <1>3 DEF ReadLog, IsNumber, Text
<1>8. FailsClean'
  BY <1>1, <1>2, <1>7 DEF FailsClean, NothingMade
<1>. QED BY <1>5, <1>6, <1>8 DEF StartupIInv

LEMMA InitializeDatabaseStep ==
  ASSUME StartupIInv, InitializeDatabase
  PROVE  StartupIInv'
<1>. USE DEF network, database
<1>1. /\ step = "database" /\ pool' = Database /\ ReserveClients(Database)
      /\ UNCHANGED <<server, config, zones, LogLevels, shown, threads, listening, console>>
  BY DEF InitializeDatabase, ReserveClients
<1>2. step \in Configured /\ step \in BeforeThreads
  BY <1>1 DEF BeforeThreads, Configured
<1>3. /\ Accepted /\ server \in {"login", "world", "zone"}
      /\ threads = 0 /\ listening = NoPort /\ ~console /\ tasks \in Seq({"TestTask", "DatabaseManager"})
  BY <1>1, <1>2 DEF StartupIInv, ConfigInv, PhaseInv, ThreadInv, ListenInv, TaskInv
<1>4. MinPoolSize \in Nat \ {0} /\ MaxPoolSize \in Nat \ {0}
  BY <1>3, SettingsKnown
<1>5. Database = IF MaxPoolSize < MinPoolSize THEN Unset ELSE <<MinPoolSize, MaxPoolSize>>
  BY <1>4 DEF Database
<1>6. CASE step' = "out_of_memory" /\ UNCHANGED <<clients, tasks>>
  <2>1. /\ step' \in Configured /\ step' \in BeforeThreads /\ step' \in Steps
        /\ step' \notin BeforePool /\ step' \notin WithPool /\ step' \notin WithThreads
    BY <1>6 DEF BeforePool, BeforeThreads, Configured, WithPool, WithThreads, Steps
  <2>2. ConfigInv' /\ ZoneInv' /\ LevelInv' /\ TaskInv'
    BY <1>1, <1>2, <1>6, GoesOn
  <2>3. PhaseInv' /\ PoolInv' /\ ThreadInv' /\ ListenInv' /\ FailsClean'
    BY <1>1, <1>3, <1>6, <2>1 DEF StartupIInv, PhaseInv, PoolInv, ThreadInv, ListenInv, FailsClean
  <2>. QED BY <2>2, <2>3 DEF StartupIInv
<1>7. CASE /\ clients' \in IF Database = Unset THEN 0 .. 2 ELSE {Database[2]}
           /\ tasks' = Append(tasks, "DatabaseManager")
           /\ step' = IF server = "zone" THEN "started" ELSE "network"
  <2>1. /\ step' \in WithPool /\ step' \in Configured /\ step' \in Steps
        /\ step' \notin BeforePool /\ step' \notin {"begin", "read", "failed", "console", "ended"}
    BY <1>7 DEF BeforePool, BeforeThreads, Configured, WithPool, WithThreads, Steps
  <2>2. ConfigInv' /\ ZoneInv'
    BY <1>1, <1>2, <2>1, SettingsKept DEF StartupIInv, ConfigInv, ZoneInv
  <2>3. TaskInv' /\ HasManager'
    <3>. DEFINE S == {"TestTask", "DatabaseManager"}
                m == "DatabaseManager"
    <3>1. tasks \in Seq(S) /\ m \in S /\ tasks' = Append(tasks, m)
      BY <1>3, <1>7
    <3>. HIDE DEF S, m
    <3>2. tasks' \in Seq(S) /\ Len(tasks') \in 1 .. Len(tasks') /\ tasks'[Len(tasks')] = m
      BY <3>1
    <3>. QED BY <3>2 DEF TaskInv, HasManager, S, m
  <2>4. PoolRight'
    <3>1. MinPoolSize' = MinPoolSize /\ MaxPoolSize' = MaxPoolSize
      BY <1>1, SettingsKept
    <3>2. CASE MaxPoolSize < MinPoolSize
      BY <1>1, <1>5, <3>1, <3>2 DEF PoolRight
    <3>3. CASE ~(MaxPoolSize < MinPoolSize)
      <4>1. Database = <<MinPoolSize, MaxPoolSize>> /\ Database # Unset
        BY <1>5, <3>3 DEF Unset
      <4>2. clients' = MaxPoolSize
        BY <1>7, <4>1
      <4>. QED BY <1>1, <1>4, <3>1, <3>3, <4>1, <4>2 DEF PoolRight
    <3>. QED BY <3>2, <3>3
  <2>5. PhaseInv' /\ LevelInv' /\ ThreadInv' /\ ListenInv' /\ FailsClean'
    BY <1>1, <1>3, <1>7, <2>1 DEF StartupIInv, PhaseInv, LevelInv, ThreadInv, ListenInv, FailsClean, WithThreads
  <2>. QED BY <2>1, <2>2, <2>3, <2>4, <2>5 DEF StartupIInv, PoolInv
<1>. QED BY <1>1, <1>6, <1>7 DEF ReserveClients

LEMMA StartNetworkStep ==
  ASSUME StartupIInv, StartNetwork
  PROVE  StartupIInv'
<1>. USE DEF network, database
<1>1. step = "network" /\ step \in Configured /\ step \in WithPool /\ step \in BeforeThreads
  BY DEF StartNetwork, BeforeThreads, Configured, WithPool
<1>2. /\ server \in {"login", "world"} /\ threads = 0 /\ listening = NoPort /\ ~console
      /\ Accepted /\ PoolRight /\ HasManager
  BY <1>1 DEF StartupIInv, PhaseInv, ThreadInv, ListenInv, ConfigInv, PoolInv
<1>3. CASE NetworkRefused /\ ReturnFalse(MSG_ERROR, NetworkTag)
  BY <1>2, <1>3, Shown, FailsStep
<1>4. CASE /\ ~NetworkRefused /\ step' = "threads"
           /\ UNCHANGED <<server, config, zones, LogLevels, shown, database, network>>
  <2>1. /\ step' \in Configured /\ step' \in WithPool /\ step' \in WithThreads /\ step' \in Steps
        /\ step' \notin BeforePool /\ step' \notin BeforeThreads
    BY <1>4 DEF BeforePool, BeforeThreads, Configured, WithPool, WithThreads, Steps
  <2>2. ConfigInv' /\ ZoneInv' /\ LevelInv' /\ TaskInv'
    BY <1>1, <1>4, GoesOn
  <2>3. PoolInv'
    BY <1>2, <1>4, <2>1, SettingsKept DEF PoolInv, PoolRight, HasManager
  <2>4. ThreadInv'
    <3>1. ThreadCount \in Int /\ ThreadCount > 0
      BY <1>2, <1>4, SettingsKnown DEF NetworkRefused
    <3>. QED BY <1>2, <1>4, <2>1, <3>1, SettingsKept DEF ThreadInv
  <2>5. PhaseInv' /\ ListenInv' /\ FailsClean'
    BY <1>2, <1>4, <2>1 DEF PhaseInv, ListenInv, FailsClean
  <2>. QED BY <2>2, <2>3, <2>4, <2>5 DEF StartupIInv
<1>. QED BY <1>3, <1>4 DEF StartNetwork

\* A step from one phase with threads to the next, in which nothing is lost.
LEMMA ThreadsStep ==
  ASSUME StartupIInv, step \in WithThreads, step' \in WithThreads, ListenInv', PhaseInv',
         UNCHANGED <<server, config, zones, LogLevels, shown, tasks, pool, clients>>,
         threads' \in Nat,
         server # "zone" => threads' <= ThreadCount,
         server # "zone" /\ step' # "threads" => threads' = ThreadCount
  PROVE  StartupIInv'
<1>1. /\ step \in Configured /\ step \in WithPool /\ step' \in Configured /\ step' \in WithPool
      /\ step' \notin BeforePool /\ step' \notin BeforeThreads /\ step' # "failed"
  BY DEF BeforePool, BeforeThreads, Configured, WithPool, WithThreads
<1>2. ConfigInv' /\ ZoneInv' /\ LevelInv' /\ TaskInv'
  BY <1>1, GoesOn DEF BeforeThreads
<1>3. PoolInv'
  BY <1>1, SettingsKept DEF StartupIInv, PoolInv, PoolRight, HasManager
<1>4. ThreadInv'
  BY <1>1, SettingsKept DEF StartupIInv, ThreadInv, WithThreads
<1>5. FailsClean'
  BY <1>1 DEF FailsClean
<1>. QED BY <1>2, <1>3, <1>4, <1>5 DEF StartupIInv

LEMMA CatchStep ==
  ASSUME StartupIInv, step \in {"out_of_memory", "threads", "console"}, Catch
  PROVE  StartupIInv'
<1>1. server # "none" /\ ~console /\ threads \in Nat
  BY DEF StartupIInv, PhaseInv, ListenInv, ThreadInv
<1>2. CASE step = "out_of_memory"
  <2>1. threads = 0 /\ listening = NoPort
    BY <1>2 DEF StartupIInv, ThreadInv, ListenInv, BeforeThreads
  <2>. QED BY <1>1, <2>1, Shown, FailsStep DEF Catch
<1>3. CASE step \in {"threads", "console"}
  <2>1. step \in Configured /\ step \in WithPool /\ step \in WithThreads
    BY <1>3 DEF Configured, WithPool, WithThreads
  <2>2. Accepted /\ server \in {"login", "world"} /\ HasManager
    BY <1>3, <2>1 DEF StartupIInv, ConfigInv, PhaseInv, PoolInv
  <2>3. ~NetworkRefused /\ threads <= ThreadCount /\ (step = "console" => threads = ThreadCount)
    BY <1>3, <2>1, <2>2 DEF StartupIInv, ThreadInv
  <2>4. ThreadCount \in Int /\ ThreadCount > 0
    BY <2>2, <2>3, SettingsKnown DEF NetworkRefused
  <2>5. listening # NoPort => server = "login" /\ threads = ThreadCount /\ threads > 0
    BY <1>3, <2>3, <2>4 DEF StartupIInv, ListenInv, PhaseInv
  <2>. QED BY <1>1, <2>2, <2>3, <2>5, Shown, FailsStep DEF Catch
<1>. QED BY <1>2, <1>3

LEMMA StartupStepInv ==
  ASSUME StartupIInv, [StartupNext]_startupVars
  PROVE  StartupIInv'
<1>. USE DEF network, database
<1>1. CASE UNCHANGED startupVars
  BY <1>1, SettingsKept DEF startupVars, StartupIInv, PhaseInv, ConfigInv, ZoneInv, LevelInv, TaskInv, PoolInv,
         NothingMade, PoolRight, HasManager, ThreadInv, ListenInv, FailsClean
<1>2. CASE BeginLogin \/ BeginWorld \/ BeginZone \/ NoCrashHandler
  <2>1. tasks \in Seq({"TestTask", "DatabaseManager"}) /\ <<"TestTask">> \in Seq({"TestTask", "DatabaseManager"})
    BY DEF StartupIInv, TaskInv
  <2>2. CASE BeginLogin
    BY <2>1, <2>2, BeginsStep DEF BeginLogin
  <2>3. CASE BeginWorld
    BY <2>1, <2>3, BeginsStep DEF BeginWorld
  <2>4. CASE BeginZone
    BY <2>1, <2>4, BeginsStep DEF BeginZone
  <2>5. CASE NoCrashHandler
    <3>1. PICK s \in {"login", "world", "zone"} : Begins(s)
      BY <2>5 DEF NoCrashHandler
    <3>2. (step' = "failed" /\ LogMSG(MSG_CRITICAL_ERROR, "MAIN")) \/ step' = "terminated"
      BY <2>5 DEF NoCrashHandler
    <3>3. tasks' \in Seq({"TestTask", "DatabaseManager"}) /\ tasks' = tasks
      BY <2>1, <2>5 DEF NoCrashHandler
    <3>. QED BY <3>1, <3>2, <3>3, BeginsStep
  <2>. QED BY <1>2, <2>2, <2>3, <2>4, <2>5
<1>3. CASE ReadLogin \/ ReadWorld
  BY <1>3, ReadStep
<1>4. CASE LoadConfigs
  BY <1>4, LoadConfigsStep
<1>5. CASE ReadZone
  BY <1>5, ReadZoneStep
<1>6. CASE InitializeLog
  BY <1>6, InitializeLogStep, NoLogStep
<1>7. CASE InitializeDatabase
  BY <1>7, InitializeDatabaseStep
<1>8. CASE OutOfMemory
  BY <1>8, CatchStep DEF OutOfMemory
<1>9. CASE StartNetwork
  BY <1>9, StartNetworkStep
<1>10. ASSUME step \in WithThreads
       PROVE  /\ threads \in Nat /\ server \in {"login", "world", "zone"} /\ Accepted
              /\ server # "zone" => threads <= ThreadCount /\ ThreadCount \in Int
  <2>1. step \in Configured /\ step \in WithPool /\ step # "begin"
    BY <1>10 DEF Configured, WithPool, WithThreads
  <2>2. server \in {"login", "world", "zone"} /\ Accepted
    BY <2>1 DEF StartupIInv, PhaseInv, ConfigInv
  <2>. QED BY <1>10, <2>1, <2>2, SettingsKnown DEF StartupIInv, ThreadInv
<1>11. CASE StartThread
  <2>1. CASE Catch
    BY <1>11, <2>1, CatchStep DEF StartThread
  <2>2. CASE threads' = threads + 1 /\ UNCHANGED <<server, step, config, zones, LogLevels, shown, database, listening, console>>
    <3>1. step = "threads" /\ step \in WithThreads /\ threads < ThreadCount /\ server # "zone"
      BY <1>11 DEF StartThread, WithThreads, StartupIInv, PhaseInv
    <3>2. PhaseInv' /\ ListenInv'
      BY <2>2 DEF StartupIInv, PhaseInv, ListenInv
    <3>. QED BY <1>10, <2>2, <3>1, <3>2, ThreadsStep
  <2>. QED BY <1>11, <2>1, <2>2 DEF StartThread
<1>12. CASE Listen
  <2>1. CASE Catch
    BY <1>12, <2>1, CatchStep DEF Listen
  <2>2. CASE ~Catch
    <3>1. /\ server = "login" /\ step = "threads" /\ threads >= ThreadCount /\ step \in WithThreads
          /\ listening' = Setting("Network", "ListenPort") % Ports
          /\ step' = "console" /\ step' \in WithThreads
          /\ UNCHANGED <<server, config, zones, LogLevels, shown, database, threads, console>>
      BY <1>12, <2>2 DEF Listen, WithThreads
    <3>2. Accepted /\ ~console
      BY <1>10, <3>1 DEF StartupIInv, ListenInv
    <3>3. Setting("Network", "ListenPort") \in Int
      BY <3>1, <3>2, SettingsKnown
    <3>4. listening' # NoPort
      BY <3>1, <3>3, StartupAssumption DEF StartupAssumption, NoPort
    <3>5. PhaseInv' /\ ListenInv'
      BY <3>1, <3>2, <3>4 DEF PhaseInv, ListenInv, Steps
    <3>. QED BY <1>10, <3>1, <3>5, ThreadsStep
  <2>. QED BY <2>1, <2>2
<1>13. CASE StartInterNetwork
  <2>1. /\ server = "world" /\ step = "threads" /\ threads >= ThreadCount /\ step \in WithThreads
        /\ step' = "started" /\ step' \in WithThreads
        /\ UNCHANGED <<server, config, zones, LogLevels, shown, database, network>>
    BY <1>13 DEF StartInterNetwork, Succeeds, WithThreads
  <2>2. PhaseInv' /\ ListenInv'
    BY <2>1 DEF StartupIInv, PhaseInv, ListenInv, Steps
  <2>. QED BY <1>10, <2>1, <2>2, ThreadsStep
<1>14. CASE StartConsole /\ Catch
  BY <1>14, CatchStep DEF StartConsole
<1>15. CASE (StartConsole /\ ~Catch) \/ Run
  <2>1. /\ step \in {"console", "started"} /\ step' \in {"started", "ended"}
        /\ step \in WithThreads /\ step' \in WithThreads /\ step' # "threads"
        /\ UNCHANGED <<server, config, zones, LogLevels, shown, database, threads, listening>>
    BY <1>15 DEF StartConsole, Run, Succeeds, WithThreads
  <2>2. PhaseInv' /\ ListenInv'
    BY <1>15 DEF StartConsole, Run, Succeeds, StartupIInv, PhaseInv, ListenInv, Steps, WithThreads
  <2>3. server # "zone" => threads = ThreadCount
    BY <2>1 DEF StartupIInv, ThreadInv
  <2>. QED BY <1>10, <2>1, <2>2, <2>3, ThreadsStep
<1>. QED BY <1>1, <1>2, <1>3, <1>4, <1>5, <1>6, <1>7, <1>8, <1>9, <1>11, <1>12, <1>13, <1>15, <1>14 DEF StartupNext

\* A server that Start has brought up works with what its files say: as many
\* network threads as configured and at least one, a Login server that listens,
\* a pool of its configured size, and every zone's configuration read.
THEOREM ServersStartWhole == StartupSpec => []StartedWhole
<1>1. StartupIInv => StartedWhole
  <2>1. SUFFICES ASSUME StartupIInv, step \in {"started", "ended"}
                 PROVE  StartedWhole
    BY DEF StartedWhole
  <2>2. step \in Configured /\ step \in WithPool /\ step \in WithThreads /\ step # "begin"
    BY <2>1 DEF Configured, WithPool, WithThreads
  <2>3. Accepted /\ server \in {"login", "world", "zone"} /\ PoolRight
    BY <2>1, <2>2 DEF StartupIInv, ConfigInv, PhaseInv, PoolInv
  <2>4. server # "zone" => threads = ThreadCount /\ threads > 0
    BY <2>1, <2>2, <2>3, SettingsKnown DEF StartupIInv, ThreadInv, NetworkRefused
  <2>5. server = "login" => console /\ listening # NoPort
    BY <2>1 DEF StartupIInv, ListenInv
  <2>6. server = "zone" => \A n \in 1 .. 16 : AllAgree(zones, n) => Len(zones) = n
    BY <2>1, <2>2 DEF StartupIInv, ZoneInv
  <2>. QED BY <2>3, <2>4, <2>5, <2>6 DEF StartedWhole, PoolRight, AllAgree
<1>. QED BY <1>1, StartupInitInv, StartupStepInv, PTL DEF StartupSpec

\* A Start that fails leaves no console, threads only when its settings were
\* right, and an acceptor only when the Login server's console was refused its
\* thread; and it has shown why, unless the log holds that back or could not be
\* set up.
THEOREM FailedStartsAreClean == StartupSpec => []FailsClean
<1>1. StartupIInv => FailsClean
  BY DEF StartupIInv
<1>. QED BY <1>1, StartupInitInv, StartupStepInv, PTL DEF StartupSpec

-----------------------------------------------------------------------------
(***************************************************************************)
(* The crash handler.  What a thread has logged and written by the step of *)
(* its report that it is at.                                               *)
(***************************************************************************)
CrashSteps ==
  {"works", "signal", "signal_line", "signal_log", "signal_sink", "backtrace",
   "frame_log", "frame_sink", "frame_line", "exit"}
CrashTypeInv ==
  /\ opened \in BOOLEAN /\ filtered \in BOOLEAN /\ garbled \in BOOLEAN
  /\ doing \in [Workers -> [step : CrashSteps, i : Nat \ {0}, size : Nat \ {0}]]
  /\ outsStream \in [Workers -> Seq(Nat)] /\ sLog \in [Workers -> Seq(Nat)]

\* How far a thread's report is, by the step it is at.
Lines(n) == [k \in 1 .. n |-> k - 1]
LinesLogged(d) ==
  CASE d.step \in {"frame_log", "frame_sink", "exit"} -> d.i
    [] d.step = "frame_line" -> d.i + 1
    [] d.step = "backtrace" -> 1
    [] OTHER -> 0
LinesFiled(d) ==
  CASE d.step \in {"frame_log", "frame_sink", "frame_line", "exit"} -> d.i
    [] d.step \in {"signal_log", "signal_sink", "backtrace"} -> 1
    [] OTHER -> 0
\* Once lines are held back no more are shown.
HasLogged(lines, d, held_back) ==
  \E k \in 0 .. LinesLogged(d) :
    lines = Lines(k) /\ (k = LinesLogged(d) \/ (held_back /\ d.step \notin {"signal_sink", "frame_sink"}))
ReportInv ==
  \A t \in Workers :
    /\ HasLogged(sLog[t], doing[t], filtered)
    /\ outsStream[t] = Lines(IF opened THEN LinesFiled(doing[t]) ELSE 0)
InFrames(d) ==
  /\ d.step = "frame_log" => d.i <= d.size
  /\ d.step \in {"frame_sink", "frame_line"} => d.i < d.size
  /\ d.step = "exit" => d.i = d.size
FrameInv == \A t \in Workers : InFrames(doing[t])

\* The file is opened before anybody can crash.
ProtectedInv == process = "unprotected" => Crashed = {}

CrashIInv == CrashTypeInv /\ ReportInv /\ FrameInv /\ ProtectedInv

LEMMA LinesGrow ==
  ASSUME NEW n \in Nat
  PROVE  Append(Lines(n), n) = Lines(n + 1) /\ Lines(n) \in Seq(Nat)
<1>1. Lines(n) \in Seq(Nat) /\ Len(Lines(n)) = n
  BY DEF Lines
<1>. QED BY <1>1 DEF Lines

LEMMA CrashInitInv ==
  ASSUME CrashInit
  PROVE  CrashIInv
<1>1. Lines(0) = <<>>
  BY DEF Lines
<1>2. CrashTypeInv /\ ProtectedInv
  <2>1. <<>> \in Seq(Nat) /\ sLog = [t \in Workers |-> <<>>] /\ outsStream = [t \in Workers |-> <<>>]
    BY DEF CrashInit
  <2>2. outsStream \in [Workers -> Seq(Nat)] /\ sLog \in [Workers -> Seq(Nat)]
    BY <2>1
  <2>3. doing \in [Workers -> [step : CrashSteps, i : Nat \ {0}, size : Nat \ {0}]]
    BY DEF CrashInit, CrashSteps
  <2>4. Crashed = {} /\ opened = FALSE /\ filtered = FALSE /\ garbled = FALSE
    BY DEF CrashInit, Crashed
  <2>. QED BY <2>2, <2>3, <2>4 DEF CrashTypeInv, ProtectedInv
<1>3. \A t \in Workers : LinesLogged(doing[t]) = 0 /\ LinesFiled(doing[t]) = 0
  BY DEF CrashInit, LinesLogged, LinesFiled
<1>4. ReportInv
  BY <1>1, <1>3 DEF CrashInit, ReportInv, HasLogged
<1>5. FrameInv
  BY DEF CrashInit, FrameInv, InFrames
<1>. QED BY <1>2, <1>4, <1>5 DEF CrashIInv

\* A thread goes on with its report; nobody else's is touched.
LEMMA ReportGoesOn ==
  ASSUME CrashIInv, NEW t \in Workers,
         NEW d \in [step : CrashSteps \ {"works"}, i : Nat \ {0}, size : Nat \ {0}],
         doing' = [doing EXCEPT ![t] = d],
         process' # "unprotected", opened' = opened, filtered' = filtered,
         \A u \in Workers \ {t} : sLog'[u] = sLog[u] /\ outsStream'[u] = outsStream[u],
         sLog' \in [Workers -> Seq(Nat)], outsStream' \in [Workers -> Seq(Nat)], garbled' \in BOOLEAN,
         HasLogged(sLog'[t], d, filtered'),
         outsStream'[t] = Lines(IF opened THEN LinesFiled(d) ELSE 0),
         InFrames(d)
  PROVE  CrashIInv'
<1>. USE DEF CrashIInv
<1>1. (\A u \in Workers \ {t} : doing'[u] = doing[u]) /\ doing'[t] = d
  BY DEF CrashTypeInv
<1>2. CrashTypeInv'
  BY DEF CrashTypeInv
<1>3. ReportInv'
  <2>1. ASSUME NEW u \in Workers
        PROVE  /\ HasLogged(sLog'[u], doing'[u], filtered')
               /\ outsStream'[u] = Lines(IF opened' THEN LinesFiled(doing'[u]) ELSE 0)
    <3>1. CASE u = t
      BY <1>1, <3>1
    <3>2. CASE u # t
      BY <1>1, <3>2 DEF ReportInv
    <3>. QED BY <3>1, <3>2
  <2>. QED BY <2>1 DEF ReportInv
<1>4. FrameInv'
  BY <1>1 DEF FrameInv
<1>5. ProtectedInv'
  BY DEF ProtectedInv
<1>. QED BY <1>2, <1>3, <1>4, <1>5

LEMMA StepOf ==
  ASSUME CrashTypeInv, NEW t \in Workers, NEW to
  PROVE  [doing EXCEPT ![t].step = to]
           = [doing EXCEPT ![t] = [step |-> to, i |-> doing[t].i, size |-> doing[t].size]]
<1>1. doing[t] \in [step : CrashSteps, i : Nat \ {0}, size : Nat \ {0}]
  BY DEF CrashTypeInv
<1>2. [doing[t] EXCEPT !.step = to] = [step |-> to, i |-> doing[t].i, size |-> doing[t].size]
  BY <1>1
<1>3. [doing EXCEPT ![t].step = to] = [doing EXCEPT ![t] = [doing[t] EXCEPT !.step = to]]
  BY DEF CrashTypeInv
<1>. QED BY <1>2, <1>3

\* One more line in the file, if there is one, and in the log.
LEMMA LineWritten ==
  ASSUME CrashIInv, NEW t \in Workers, NEW n \in Nat, WritesLine(t, n),
         outsStream[t] = Lines(IF opened THEN n ELSE 0)
  PROVE  /\ outsStream' \in [Workers -> Seq(Nat)] /\ sLog' = sLog
         /\ outsStream'[t] = Lines(IF opened THEN n + 1 ELSE 0)
         /\ \A u \in Workers \ {t} : outsStream'[u] = outsStream[u]
         /\ garbled' \in BOOLEAN
<1>. USE DEF CrashIInv, CrashTypeInv, WritesLine
<1>1. CASE opened
  <2>1. outsStream' = [outsStream EXCEPT ![t] = Lines(n + 1)]
    BY <1>1, LinesGrow
  <2>2. Lines(n + 1) \in Seq(Nat)
    BY LinesGrow
  <2>. QED BY <1>1, <2>1, <2>2
<1>2. CASE ~opened
  BY <1>2
<1>. QED BY <1>1, <1>2

LEMMA LineLogged ==
  ASSUME CrashIInv, NEW t \in Workers, NEW n \in Nat, LogsLine(t, n), sLog[t] = Lines(n)
  PROVE  /\ sLog' \in [Workers -> Seq(Nat)] /\ outsStream' = outsStream /\ garbled' = garbled
         /\ sLog'[t] = Lines(n + 1)
         /\ \A u \in Workers \ {t} : sLog'[u] = sLog[u]
<1>. USE DEF CrashIInv, CrashTypeInv, LogsLine
<1>1. sLog' = [sLog EXCEPT ![t] = Lines(n + 1)]
  BY LinesGrow
<1>2. Lines(n + 1) \in Seq(Nat)
  BY LinesGrow
<1>. QED BY <1>1, <1>2

\* No step of one thread touches the report of another.
LEMMA CrashStepInv ==
  ASSUME CrashIInv, [CrashNext]_crashVars
  PROVE  CrashIInv'
<1>. USE DEF CrashIInv
<1>1. CASE UNCHANGED crashVars
  BY <1>1 DEF crashVars, CrashTypeInv, ReportInv, HasLogged, LinesLogged, LinesFiled, FrameInv, InFrames, ProtectedInv, Crashed
<1>2. CASE StartCrashHandler
  <2>1. \A t \in Workers : doing[t].step = "works"
    BY <1>2 DEF StartCrashHandler, ProtectedInv, Crashed
  <2>. QED BY <1>2, <2>1 DEF StartCrashHandler, reports, locks, CrashTypeInv, ReportInv, HasLogged, LinesLogged,
                             LinesFiled, FrameInv, InFrames, ProtectedInv, Crashed
<1>3. ASSUME NEW t \in Workers,
             \/ Allocates(t) \/ Allocated(t) \/ Logs(t) \/ Logged(t) \/ CrashesAgain(t) \/ InitializesLog(t)
      PROVE  CrashIInv'
  <2>1. /\ UNCHANGED <<opened, reports, doing>> /\ process # "unprotected" /\ process' # "unprotected"
        /\ filtered' \in {filtered, TRUE}
    BY <1>3 DEF Allocates, Allocated, Logs, Logged, InitializesLog, CrashesAgain, Works, settings
  <2>2. ReportInv'
    <3>1. ASSUME NEW u \in Workers, HasLogged(sLog[u], doing[u], filtered)
          PROVE  HasLogged(sLog[u], doing[u], TRUE)
      <4>1. PICK k \in 0 .. LinesLogged(doing[u]) :
              sLog[u] = Lines(k) /\ (k = LinesLogged(doing[u]) \/ doing[u].step \notin {"signal_sink", "frame_sink"})
        BY <3>1 DEF HasLogged
      <4>. QED BY <4>1 DEF HasLogged
    <3>. QED BY <2>1, <3>1 DEF reports, ReportInv
  <2>. QED BY <2>1, <2>2 DEF reports, CrashTypeInv, FrameInv, ProtectedInv, Crashed
<1>4. ASSUME NEW t \in Workers, Crashes(t) \/ MakeString(t) \/ Exits(t)
      PROVE  CrashIInv'
  <2>. PICK to \in CrashSteps : to = IF Crashes(t) THEN "signal" ELSE IF MakeString(t) THEN "signal_line" ELSE "exit"
    BY DEF CrashSteps
  <2>. DEFINE d == [step |-> to, i |-> doing[t].i, size |-> doing[t].size]
  <2>1. doing[t].i \in Nat \ {0} /\ doing[t].size \in Nat \ {0}
    BY DEF CrashTypeInv
  <2>2. doing' = [doing EXCEPT ![t].step = to]
    BY <1>4 DEF Crashes, MakeString, Exits, Step
  <2>3. doing' = [doing EXCEPT ![t] = d]
    BY <2>2, StepOf
  <2>4. process' # "unprotected" /\ UNCHANGED <<opened, filtered, garbled, sLog, outsStream>>
    BY <1>4 DEF Crashes, Works, MakeString, Exits, Step, reports, settings
  <2>5. /\ LinesLogged(d) = LinesLogged(doing[t]) /\ LinesFiled(d) = LinesFiled(doing[t])
        /\ d.step \notin {"signal_sink", "frame_sink"} /\ doing[t].step \notin {"signal_sink", "frame_sink"}
    BY <1>4 DEF LinesLogged, LinesFiled, Crashes, Works, Crashed, MakeString, Exits, Step
  <2>6. to = "exit" => doing[t].i = doing[t].size
    <3>1. Exits(t) => doing[t].step = "frame_log" /\ doing[t].i >= doing[t].size
      BY <2>1 DEF Exits, MoreFrames
    <3>2. to = "exit" => Exits(t)
      BY <1>4
    <3>. QED BY <2>1, <3>1, <3>2 DEF FrameInv, InFrames
  <2>7. /\ HasLogged(sLog'[t], d, filtered') /\ outsStream'[t] = Lines(IF opened THEN LinesFiled(d) ELSE 0)
        /\ sLog' \in [Workers -> Seq(Nat)] /\ outsStream' \in [Workers -> Seq(Nat)] /\ garbled' \in BOOLEAN
    <3>. HIDE DEF d
    <3>. QED BY <2>4, <2>5 DEF ReportInv, HasLogged, CrashTypeInv
  <2>8. to \notin {"works", "frame_log", "frame_sink", "frame_line"}
    OBVIOUS
  <2>9. InFrames(d) /\ d \in [step : CrashSteps \ {"works"}, i : Nat \ {0}, size : Nat \ {0}]
    BY <2>1, <2>3, <2>4, <2>6, <2>7, <2>8 DEF InFrames
  <2>. HIDE DEF d
  <2>. QED BY <2>1, <2>3, <2>4, <2>6, <2>7, <2>8, <2>9, ReportGoesOn
<1>5. ASSUME NEW t \in Workers, WriteSignal(t)
      PROVE  CrashIInv'
  <2>. PICK to \in CrashSteps : to = "signal_log"
    BY DEF CrashSteps
  <2>. DEFINE d == [step |-> to, i |-> doing[t].i, size |-> doing[t].size]
  <2>1. doing[t].i \in Nat \ {0} /\ doing[t].size \in Nat \ {0}
    BY DEF CrashTypeInv
  <2>2. doing[t].step = "signal_line" /\ process' # "unprotected" /\ opened' = opened /\ filtered' = filtered /\ WritesLine(t, 0)
    BY <1>5 DEF WriteSignal, Step, settings, SignalLine
  <2>3. doing' = [doing EXCEPT ![t] = d]
    BY <1>5, StepOf DEF WriteSignal, Step
  <2>4. /\ HasLogged(sLog[t], doing[t], filtered) /\ outsStream[t] = Lines(IF opened THEN LinesFiled(doing[t]) ELSE 0)
        /\ sLog \in [Workers -> Seq(Nat)] /\ outsStream \in [Workers -> Seq(Nat)] /\ garbled \in BOOLEAN
    BY DEF ReportInv, CrashTypeInv
  <2>5. outsStream[t] = Lines(IF opened THEN 0 ELSE 0)
    BY <2>2, <2>4 DEF LinesLogged, LinesFiled
  <2>6. /\ \A u \in Workers \ {t} : sLog'[u] = sLog[u] /\ outsStream'[u] = outsStream[u]
        /\ sLog' \in [Workers -> Seq(Nat)] /\ outsStream' \in [Workers -> Seq(Nat)] /\ garbled' \in BOOLEAN
    BY <2>1, <2>2, <2>4, <2>5, LineWritten
  <2>7. HasLogged(sLog'[t], d, filtered') /\ outsStream'[t] = Lines(IF opened THEN LinesFiled(d) ELSE 0)
    <3>1. sLog' = sLog /\ outsStream'[t] = Lines(IF opened THEN LinesFiled(doing[t]) + 1 ELSE 0)
      BY <2>1, <2>2, <2>4, <2>5, LineWritten DEF LinesFiled
    <3>2. /\ LinesLogged(d) = LinesLogged(doing[t]) /\ LinesFiled(d) = LinesFiled(doing[t]) + 1
          /\ d.step \notin {"signal_sink", "frame_sink"} /\ doing[t].step \notin {"signal_sink", "frame_sink"}
      BY <2>1, <2>2 DEF LinesLogged, LinesFiled
    <3>. HIDE DEF d
    <3>. QED BY <2>2, <2>4, <3>1, <3>2 DEF HasLogged
  <2>8. to \notin {"works", "frame_log", "frame_sink", "exit"} /\ (to = "frame_line" => doing[t].i < doing[t].size)
    BY <2>2
  <2>9. InFrames(d) /\ d \in [step : CrashSteps \ {"works"}, i : Nat \ {0}, size : Nat \ {0}]
    BY <2>1, <2>2, <2>3, <2>6, <2>7, <2>8 DEF InFrames
  <2>. HIDE DEF d
  <2>. QED BY <2>1, <2>2, <2>3, <2>6, <2>7, <2>8, <2>9, ReportGoesOn
<1>6. ASSUME NEW t \in Workers, LogSignal(t)
      PROVE  CrashIInv'
  <2>. PICK to \in CrashSteps : to = IF filtered THEN "backtrace" ELSE "signal_sink"
    BY DEF CrashSteps
  <2>. DEFINE d == [step |-> to, i |-> doing[t].i, size |-> doing[t].size]
  <2>1. doing[t].i \in Nat \ {0} /\ doing[t].size \in Nat \ {0}
    BY DEF CrashTypeInv
  <2>2. /\ doing[t].step = "signal_log" /\ process' # "unprotected"
        /\ UNCHANGED <<opened, filtered, garbled, sLog, outsStream>>
    BY <1>6 DEF LogSignal, Formats, Step, settings, reports
  <2>3. doing' = [doing EXCEPT ![t] = d]
    BY <1>6, StepOf DEF LogSignal, Formats, Step
  <2>4. HasLogged(sLog'[t], d, filtered')
    <3>1. HasLogged(sLog[t], doing[t], filtered) /\ LinesLogged(doing[t]) \in Nat
      BY <2>1, <2>2 DEF ReportInv, LinesLogged
    <3>2. CASE filtered
      <4>1. LinesLogged(d) = LinesLogged(doing[t]) + 1 /\ d.step = "backtrace"
        BY <2>1, <2>2, <3>2 DEF LinesLogged
      <4>. HIDE DEF d
      <4>. QED BY <2>2, <3>1, <3>2, <4>1 DEF HasLogged
    <3>3. CASE ~filtered
      <4>1. LinesLogged(d) = LinesLogged(doing[t])
        BY <2>1, <2>2, <3>3 DEF LinesLogged
      <4>2. sLog[t] = Lines(LinesLogged(d))
        <5>. HIDE DEF d
        <5>. QED BY <3>1, <3>3, <4>1 DEF HasLogged
      <4>. HIDE DEF d
      <4>. QED BY <2>2, <3>1, <4>1, <4>2 DEF HasLogged
    <3>. QED BY <3>2, <3>3
  <2>5. outsStream'[t] = Lines(IF opened THEN LinesFiled(d) ELSE 0)
    BY <2>1, <2>2 DEF ReportInv, LinesFiled
  <2>6. to \notin {"works", "frame_log", "exit"} /\ (to \in {"frame_sink", "frame_line"} => doing[t].i < doing[t].size)
    BY <2>2
  <2>7. sLog' \in [Workers -> Seq(Nat)] /\ outsStream' \in [Workers -> Seq(Nat)] /\ garbled' \in BOOLEAN
    BY <2>2 DEF CrashTypeInv
  <2>8. InFrames(d) /\ d \in [step : CrashSteps \ {"works"}, i : Nat \ {0}, size : Nat \ {0}]
    BY <2>1, <2>2, <2>3, <2>4, <2>5, <2>6, <2>7 DEF InFrames
  <2>. HIDE DEF d
  <2>. QED BY <2>1, <2>2, <2>3, <2>4, <2>5, <2>6, <2>7, <2>8, ReportGoesOn
<1>7. ASSUME NEW t \in Workers, SinkSignal(t)
      PROVE  CrashIInv'
  <2>. PICK to \in CrashSteps : to = "backtrace"
    BY DEF CrashSteps
  <2>. DEFINE d == [step |-> to, i |-> doing[t].i, size |-> doing[t].size]
  <2>1. doing[t].i \in Nat \ {0} /\ doing[t].size \in Nat \ {0}
    BY DEF CrashTypeInv
  <2>2. doing[t].step = "signal_sink" /\ process' # "unprotected" /\ UNCHANGED <<opened, filtered>> /\ LogsLine(t, 0)
    BY <1>7 DEF SinkSignal, Step, settings, SignalLine
  <2>3. doing' = [doing EXCEPT ![t] = d]
    BY <1>7, StepOf DEF SinkSignal, Step
  <2>4. sLog[t] = Lines(0)
    <3>1. HasLogged(sLog[t], doing[t], filtered) /\ LinesLogged(doing[t]) = 0
      BY <2>2 DEF ReportInv, LinesLogged
    <3>. QED BY <2>2, <3>1 DEF HasLogged
  <2>5. /\ \A u \in Workers \ {t} : sLog'[u] = sLog[u] /\ outsStream'[u] = outsStream[u]
        /\ sLog' \in [Workers -> Seq(Nat)] /\ outsStream' \in [Workers -> Seq(Nat)] /\ garbled' \in BOOLEAN
        /\ outsStream' = outsStream /\ sLog'[t] = Lines(0 + 1)
    BY <2>1, <2>2, <2>4, LineLogged DEF CrashTypeInv
  <2>6. HasLogged(sLog'[t], d, filtered')
    <3>1. LinesLogged(d) = 0 + 1 /\ 0 + 1 \in 0 .. 0 + 1
      BY <2>1 DEF LinesLogged
    <3>. HIDE DEF d
    <3>. QED BY <2>5, <3>1 DEF HasLogged
  <2>7. outsStream'[t] = Lines(IF opened THEN LinesFiled(d) ELSE 0)
    BY <2>1, <2>2, <2>5 DEF ReportInv, LinesFiled
  <2>8. /\ to \in CrashSteps \ {"works"}
        /\ to = "frame_log" => doing[t].i <= doing[t].size
        /\ to \in {"frame_sink", "frame_line"} => doing[t].i < doing[t].size
        /\ to = "exit" => doing[t].i = doing[t].size
    BY <2>2 DEF FrameInv, InFrames
  <2>9. InFrames(d) /\ d \in [step : CrashSteps \ {"works"}, i : Nat \ {0}, size : Nat \ {0}]
    BY <2>1, <2>2, <2>3, <2>5, <2>6, <2>7, <2>8 DEF InFrames
  <2>. HIDE DEF d
  <2>. QED BY <2>1, <2>2, <2>3, <2>5, <2>6, <2>7, <2>8, <2>9, ReportGoesOn
<1>8. ASSUME NEW t \in Workers, LogFrame(t)
      PROVE  CrashIInv'
  <2>. PICK to \in CrashSteps : to = IF filtered THEN "frame_line" ELSE "frame_sink"
    BY DEF CrashSteps
  <2>. DEFINE d == [step |-> to, i |-> doing[t].i, size |-> doing[t].size]
  <2>1. doing[t].i \in Nat \ {0} /\ doing[t].size \in Nat \ {0}
    BY DEF CrashTypeInv
  <2>2. /\ doing[t].step = "frame_log" /\ process' # "unprotected"
        /\ UNCHANGED <<opened, filtered, garbled, sLog, outsStream>> /\ doing[t].i < doing[t].size
    BY <1>8 DEF LogFrame, Formats, Step, settings, reports, MoreFrames
  <2>3. doing' = [doing EXCEPT ![t] = d]
    BY <1>8, StepOf DEF LogFrame, Formats, Step
  <2>4. HasLogged(sLog'[t], d, filtered')
    <3>1. HasLogged(sLog[t], doing[t], filtered) /\ LinesLogged(doing[t]) \in Nat
      BY <2>1, <2>2 DEF ReportInv, LinesLogged
    <3>2. CASE filtered
      <4>1. LinesLogged(d) = LinesLogged(doing[t]) + 1 /\ d.step = "frame_line"
        BY <2>1, <2>2, <3>2 DEF LinesLogged
      <4>. HIDE DEF d
      <4>. QED BY <2>2, <3>1, <3>2, <4>1 DEF HasLogged
    <3>3. CASE ~filtered
      <4>1. LinesLogged(d) = LinesLogged(doing[t])
        BY <2>1, <2>2, <3>3 DEF LinesLogged
      <4>2. sLog[t] = Lines(LinesLogged(d))
        <5>. HIDE DEF d
        <5>. QED BY <3>1, <3>3, <4>1 DEF HasLogged
      <4>. HIDE DEF d
      <4>. QED BY <2>2, <3>1, <4>1, <4>2 DEF HasLogged
    <3>. QED BY <3>2, <3>3
  <2>5. outsStream'[t] = Lines(IF opened THEN LinesFiled(d) ELSE 0)
    BY <2>1, <2>2 DEF ReportInv, LinesFiled
  <2>6. to \notin {"works", "frame_log", "exit"} /\ (to \in {"frame_sink", "frame_line"} => doing[t].i < doing[t].size)
    BY <2>2
  <2>7. sLog' \in [Workers -> Seq(Nat)] /\ outsStream' \in [Workers -> Seq(Nat)] /\ garbled' \in BOOLEAN
    BY <2>2 DEF CrashTypeInv
  <2>8. InFrames(d) /\ d \in [step : CrashSteps \ {"works"}, i : Nat \ {0}, size : Nat \ {0}]
    BY <2>1, <2>2, <2>3, <2>4, <2>5, <2>6, <2>7 DEF InFrames
  <2>. HIDE DEF d
  <2>. QED BY <2>1, <2>2, <2>3, <2>4, <2>5, <2>6, <2>7, <2>8, ReportGoesOn
<1>9. ASSUME NEW t \in Workers, SinkFrame(t)
      PROVE  CrashIInv'
  <2>. PICK to \in CrashSteps : to = "frame_line"
    BY DEF CrashSteps
  <2>. DEFINE d == [step |-> to, i |-> doing[t].i, size |-> doing[t].size]
  <2>1. doing[t].i \in Nat \ {0} /\ doing[t].size \in Nat \ {0}
    BY DEF CrashTypeInv
  <2>2. doing[t].step = "frame_sink" /\ process' # "unprotected" /\ UNCHANGED <<opened, filtered>> /\ LogsLine(t, doing[t].i)
    BY <1>9 DEF SinkFrame, Step, settings, SignalLine
  <2>3. doing' = [doing EXCEPT ![t] = d]
    BY <1>9, StepOf DEF SinkFrame, Step
  <2>4. sLog[t] = Lines(doing[t].i)
    <3>1. HasLogged(sLog[t], doing[t], filtered) /\ LinesLogged(doing[t]) = doing[t].i
      BY <2>2 DEF ReportInv, LinesLogged
    <3>. QED BY <2>2, <3>1 DEF HasLogged
  <2>5. /\ \A u \in Workers \ {t} : sLog'[u] = sLog[u] /\ outsStream'[u] = outsStream[u]
        /\ sLog' \in [Workers -> Seq(Nat)] /\ outsStream' \in [Workers -> Seq(Nat)] /\ garbled' \in BOOLEAN
        /\ outsStream' = outsStream /\ sLog'[t] = Lines(doing[t].i + 1)
    BY <2>1, <2>2, <2>4, LineLogged DEF CrashTypeInv
  <2>6. HasLogged(sLog'[t], d, filtered')
    <3>1. LinesLogged(d) = doing[t].i + 1 /\ doing[t].i + 1 \in 0 .. doing[t].i + 1
      BY <2>1 DEF LinesLogged
    <3>. HIDE DEF d
    <3>. QED BY <2>5, <3>1 DEF HasLogged
  <2>7. outsStream'[t] = Lines(IF opened THEN LinesFiled(d) ELSE 0)
    BY <2>1, <2>2, <2>5 DEF ReportInv, LinesFiled
  <2>8. /\ to \in CrashSteps \ {"works"}
        /\ to = "frame_log" => doing[t].i <= doing[t].size
        /\ to \in {"frame_sink", "frame_line"} => doing[t].i < doing[t].size
        /\ to = "exit" => doing[t].i = doing[t].size
    BY <2>2 DEF FrameInv, InFrames
  <2>9. InFrames(d) /\ d \in [step : CrashSteps \ {"works"}, i : Nat \ {0}, size : Nat \ {0}]
    BY <2>1, <2>2, <2>3, <2>5, <2>6, <2>7, <2>8 DEF InFrames
  <2>. HIDE DEF d
  <2>. QED BY <2>1, <2>2, <2>3, <2>5, <2>6, <2>7, <2>8, <2>9, ReportGoesOn
<1>10. ASSUME NEW t \in Workers, WriteFrame(t)
      PROVE  CrashIInv'
  <2>. PICK to \in CrashSteps : to = "frame_log"
    BY DEF CrashSteps
  <2>. DEFINE d == [step |-> to, i |-> doing[t].i + 1, size |-> doing[t].size]
  <2>1. doing[t].i \in Nat \ {0} /\ doing[t].size \in Nat \ {0}
    BY DEF CrashTypeInv
  <2>2. doing[t].step = "frame_line" /\ process' # "unprotected" /\ opened' = opened /\ filtered' = filtered /\ WritesLine(t, doing[t].i)
    BY <1>10 DEF WriteFrame, settings
  <2>3. doing' = [doing EXCEPT ![t] = d]
    <3>1. doing' = [doing EXCEPT ![t].step = "frame_log", ![t].i = @ + 1]
      BY <1>10 DEF WriteFrame
    <3>2. doing[t] \in [step : CrashSteps, i : Nat \ {0}, size : Nat \ {0}]
      BY DEF CrashTypeInv
    <3>. DEFINE e == [doing[t] EXCEPT !.step = "frame_log"]
    <3>3. d = [e EXCEPT !.i = doing[t].i + 1]
      <4>1. e = [step |-> to, i |-> doing[t].i, size |-> doing[t].size]
        BY <3>2
      <4>. HIDE DEF e
      <4>. QED BY <4>1
    <3>4. doing' = [doing EXCEPT ![t] = [e EXCEPT !.i = doing[t].i + 1]]
      BY <3>1, <3>2 DEF CrashTypeInv
    <3>. QED BY <3>3, <3>4
  <2>4. /\ HasLogged(sLog[t], doing[t], filtered) /\ outsStream[t] = Lines(IF opened THEN LinesFiled(doing[t]) ELSE 0)
        /\ sLog \in [Workers -> Seq(Nat)] /\ outsStream \in [Workers -> Seq(Nat)] /\ garbled \in BOOLEAN
    BY DEF ReportInv, CrashTypeInv
  <2>5. outsStream[t] = Lines(IF opened THEN doing[t].i ELSE 0)
    BY <2>2, <2>4 DEF LinesLogged, LinesFiled
  <2>6. /\ \A u \in Workers \ {t} : sLog'[u] = sLog[u] /\ outsStream'[u] = outsStream[u]
        /\ sLog' \in [Workers -> Seq(Nat)] /\ outsStream' \in [Workers -> Seq(Nat)] /\ garbled' \in BOOLEAN
    BY <2>1, <2>2, <2>4, <2>5, LineWritten
  <2>7. HasLogged(sLog'[t], d, filtered') /\ outsStream'[t] = Lines(IF opened THEN LinesFiled(d) ELSE 0)
    <3>1. sLog' = sLog /\ outsStream'[t] = Lines(IF opened THEN LinesFiled(doing[t]) + 1 ELSE 0)
      BY <2>1, <2>2, <2>4, <2>5, LineWritten DEF LinesFiled
    <3>2. /\ LinesLogged(d) = LinesLogged(doing[t]) /\ LinesFiled(d) = LinesFiled(doing[t]) + 1
          /\ d.step \notin {"signal_sink", "frame_sink"} /\ doing[t].step \notin {"signal_sink", "frame_sink"}
      BY <2>1, <2>2 DEF LinesLogged, LinesFiled
    <3>. HIDE DEF d
    <3>. QED BY <2>2, <2>4, <3>1, <3>2 DEF HasLogged
  <2>8. doing[t].i + 1 <= doing[t].size
    BY <2>1, <2>2 DEF FrameInv, InFrames
  <2>9. to \notin {"works", "frame_sink", "frame_line", "exit"} /\ doing[t].i + 1 \in Nat \ {0}
    BY <2>1
  <2>10. InFrames(d) /\ d \in [step : CrashSteps \ {"works"}, i : Nat \ {0}, size : Nat \ {0}]
    BY <2>1, <2>2, <2>3, <2>6, <2>7, <2>8, <2>9 DEF InFrames
  <2>. HIDE DEF d
  <2>. QED BY <2>1, <2>2, <2>3, <2>6, <2>7, <2>8, <2>9, <2>10, ReportGoesOn
<1>11. ASSUME NEW t \in Workers, Backtrace(t)
      PROVE  CrashIInv'
  <2>1. PICK depth \in 1 .. MaxFrames :
          doing' = [doing EXCEPT ![t] = [step |-> "frame_log", i |-> 1, size |-> depth]]
    BY <1>11 DEF Backtrace
  <2>. PICK to \in CrashSteps : to = "frame_log"
    BY DEF CrashSteps
  <2>. DEFINE d == [step |-> to, i |-> 1, size |-> depth]
  <2>2. doing[t].step = "backtrace" /\ process' # "unprotected" /\ UNCHANGED <<settings, reports>>
    BY <1>11 DEF Backtrace
  <2>3. depth \in Nat \ {0}
    BY CrashAssumption
  <2>4. /\ LinesLogged(d) = LinesLogged(doing[t]) /\ LinesFiled(d) = LinesFiled(doing[t])
        /\ d.step = "frame_log"
    BY <2>2 DEF LinesLogged, LinesFiled
  <2>. HIDE DEF d
  <2>5. /\ HasLogged(sLog'[t], d, filtered') /\ outsStream'[t] = Lines(IF opened THEN LinesFiled(d) ELSE 0)
        /\ sLog' \in [Workers -> Seq(Nat)] /\ outsStream' \in [Workers -> Seq(Nat)]
        /\ garbled' \in BOOLEAN /\ UNCHANGED <<opened, filtered, garbled, sLog, outsStream>>
    BY <2>2, <2>4 DEF ReportInv, HasLogged, CrashTypeInv, reports, settings
  <2>6. to \notin {"works", "frame_sink", "frame_line", "exit"} /\ 1 <= depth /\ 1 \in Nat \ {0}
    BY <2>3
  <2>7. doing' = [doing EXCEPT ![t] = d]
    BY <2>1 DEF d
  <2>8. InFrames(d) /\ d \in [step : CrashSteps \ {"works"}, i : Nat \ {0}, size : Nat \ {0}]
    BY <2>3, <2>6 DEF InFrames, d
  <2>. QED BY <2>2, <2>5, <2>7, <2>8, ReportGoesOn
<1>. QED BY <1>1, <1>2, <1>3, <1>4, <1>5, <1>6, <1>7, <1>10, <1>11, <1>8, <1>9 DEF CrashNext, Reports

\* However many threads crash, and whichever locks they hold: the process exits
\* with a complete report of the thread that exits in its file, and in the log as
\* far as the log's level lets errors through.
THEOREM CrashesAreReported == CrashSpec => []CrashReported
<1>1. CrashIInv => CrashReported
  <2>. SUFFICES ASSUME CrashIInv, NEW t \in Workers, doing[t].step = "exit"
                PROVE  /\ \E n \in 0 .. doing[t].size :
                            sLog[t] = SubSeq(Report(t), 1, n) /\ (n = doing[t].size \/ filtered)
                       /\ opened /\ ~garbled => outsStream[t] = Report(t)
    BY DEF CrashReported
  <2>1. doing[t].i = doing[t].size /\ doing[t].size \in Nat
    BY DEF CrashIInv, FrameInv, InFrames, CrashTypeInv
  <2>2. LinesLogged(doing[t]) = doing[t].i /\ LinesFiled(doing[t]) = doing[t].i
    BY DEF LinesLogged, LinesFiled
  <2>3. HasLogged(sLog[t], doing[t], filtered) /\ (opened => outsStream[t] = Lines(doing[t].size))
    BY <2>1, <2>2 DEF CrashIInv, ReportInv
  <2>4. PICK n \in 0 .. doing[t].size : sLog[t] = Lines(n) /\ (n = doing[t].size \/ filtered)
    BY <2>1, <2>2, <2>3 DEF HasLogged
  <2>5. SubSeq(Report(t), 1, n) = Lines(n)
    BY <2>1, <2>4 DEF Report, Lines
  <2>6. Report(t) = Lines(doing[t].size)
    BY DEF Report, Lines
  <2>. QED BY <2>3, <2>4, <2>5, <2>6
<1>. QED BY <1>1, CrashInitInv, CrashStepInv, PTL DEF CrashSpec

\* Once a thread has crashed with the heap's lock, nobody is given that lock, and
\* no thread, crashed or at work, gets the process to exit.
THEOREM NobodyPassesTheHeap == CrashSpec => HeapCrashHangs
<1>1. CrashIInv /\ [CrashNext]_crashVars
        => [(heap \in Crashed) => heap' = heap /\ process' \in {process, "killed"}]_crashVars
  <2>. SUFFICES ASSUME CrashIInv, CrashNext, heap \in Crashed
                PROVE  heap' = heap /\ process' \in {process, "killed"}
    OBVIOUS
  <2>1. heap \in Workers /\ heap # NotHeld /\ process # "unprotected"
    BY CrashAssumption DEF Crashed, CrashIInv, ProtectedInv
  <2>2. ~StartCrashHandler
    BY <2>1 DEF StartCrashHandler
  <2>3. ASSUME NEW t \in Workers,
               \/ Allocates(t) \/ Allocated(t) \/ Logs(t) \/ Logged(t) \/ InitializesLog(t)
               \/ Crashes(t) \/ CrashesAgain(t)
        PROVE  heap' = heap /\ process' \in {process, "killed"}
    BY <2>1, <2>3 DEF Allocates, Allocated, Logs, Logged, InitializesLog, Crashes, CrashesAgain, Works, locks
  <2>4. ASSUME NEW t \in Workers, Reports(t)
        PROVE  heap' = heap /\ process' = process
    BY <2>1, <2>4 DEF Reports, MakeString, WriteSignal, LogSignal, SinkSignal, Backtrace, LogFrame, SinkFrame,
                      WriteFrame, Exits, Formats, Step, MayAllocate, locks
  <2>. QED BY <2>2, <2>3, <2>4 DEF CrashNext
<1>. QED BY <1>1, CrashInitInv, CrashStepInv, PTL DEF CrashSpec, HeapCrashHangs

-----------------------------------------------------------------------------
(***************************************************************************)
(* Timers.                                                                 *)
(***************************************************************************)
TimerTypes ==
  /\ kind \in Kinds \cup {"none"}
  /\ period \in 0 .. 2 * Half - 1 /\ start \in Int /\ expire \in Int /\ due \in Int
  /\ elapsed \in Nat /\ longest \in Nat /\ untaken \in Nat \cup {WasReset}

\* What is inductive.  An interval timer's time never goes back, so Update's
\* test for a negative one never fires.
IntervalInv == IntervalOnTime /\ (kind = "IntervalTimer" => expire >= 0)

\* A tracker shows what is left, a TimeTrackerSmall as long as 32 bits can.
TrackerInv ==
  /\ kind = "TimeTracker" => expire = due - elapsed
  /\ kind = "TimeTrackerSmall" /\ due < Half /\ elapsed <= due + Half => expire = due - elapsed

\* A timer that waits for TReset has passed by less than the last call was late.
PeriodicInv ==
  kind \in PeriodicKinds /\ {period, start} \subseteq 1 .. Half - 1 =>
    /\ longest < Half =>
         IF untaken = WasReset THEN expire \in 1 .. Half - 1
         ELSE untaken <= longest /\ expire \in 1 - untaken .. 0
    /\ longest <= period => expire = due - elapsed /\ expire <= Longer(start, period)

TimerIInv == TimerTypes /\ IntervalInv /\ TrackerInv /\ PeriodicInv

-----------------------------------------------------------------------------
\* What fits in an int32 is not changed by becoming one.
LEMMA Int32Fits ==
  ASSUME NEW x \in -Half .. Half - 1
  PROVE  Int32(x) = x
BY TimersAssumption DEF Int32

LEMMA Int32Type == \A x \in Int : Int32(x) \in Int
BY TimersAssumption DEF Int32

\* Taking whole intervals off leaves less than one.
LEMMA WholeIntervals ==
  ASSUME NEW a \in Nat, NEW b \in Nat \ {0}
  PROVE  RestOf(a, b) \in 0 .. b - 1 /\ b * (a \div b) \in Int /\ RestOf(a, b) = a - b * (a \div b)
BY DEF RestOf

LEMMA TimerInitInv == TimersInit => TimerIInv
<1>. SUFFICES ASSUME TimersInit PROVE TimerIInv
  OBVIOUS
<1>. USE DEF TimersInit
<1>1. TimerTypes
  BY TimersAssumption DEF TimerTypes
<1>2. IntervalInv /\ TrackerInv
  BY DEF IntervalInv, IntervalOnTime, TrackerInv
<1>3. PeriodicInv
  BY DEF PeriodicInv, PeriodicKinds
<1>. QED BY <1>1, <1>2, <1>3 DEF TimerIInv

-----------------------------------------------------------------------------
(* Setting a timer.                                                          *)

\* Whatever a timer is set to, it shows the time to its next due date, but for
\* what 32 bits cannot hold.
LEMMA IntervalSet ==
  ASSUME TimerTypes, NEW p \in 0 .. 2 * Half - 1, NEW current \in Nat,
         kind' = "IntervalTimer", Counting(p, current, current, -current)
  PROVE  TimerIInv'
<1>1. TimerTypes'
  BY DEF Counting, TimerTypes, Kinds
<1>2. IntervalInv'
  BY DEF Counting, IntervalInv, IntervalOnTime
<1>3. TrackerInv' /\ PeriodicInv'
  BY DEF TrackerInv, PeriodicInv, PeriodicKinds
<1>. QED BY <1>1, <1>2, <1>3 DEF TimerIInv

LEMMA TrackerSet ==
  ASSUME TimerTypes, NEW time \in 0 .. 2 * Half - 1,
         kind' = "TimeTracker", Counting(time, time, time, time)
  PROVE  TimerIInv'
<1>1. TimerTypes'
  BY TimersAssumption DEF Counting, TimerTypes, Kinds
<1>2. TrackerInv'
  BY TimersAssumption DEF Counting, TrackerInv
<1>3. IntervalInv' /\ PeriodicInv'
  BY DEF IntervalInv, IntervalOnTime, PeriodicInv, PeriodicKinds
<1>. QED BY <1>1, <1>2, <1>3 DEF TimerIInv

LEMMA SmallSet ==
  ASSUME TimerTypes, NEW time \in 0 .. 2 * Half - 1,
         kind' = "TimeTrackerSmall", Counting(time, time, Int32(time), time)
  PROVE  TimerIInv'
<1>1. Int32(time) \in Int /\ (time < Half => Int32(time) = time)
  BY TimersAssumption DEF Int32
<1>2. TimerTypes'
  BY <1>1, TimersAssumption DEF Counting, TimerTypes, Kinds
<1>3. TrackerInv'
  BY <1>1, TimersAssumption DEF Counting, TrackerInv
<1>4. IntervalInv' /\ PeriodicInv'
  BY DEF IntervalInv, IntervalOnTime, PeriodicInv, PeriodicKinds
<1>. QED BY <1>2, <1>3, <1>4 DEF TimerIInv

LEMMA PeriodicSet ==
  ASSUME TimerTypes, NEW p \in 0 .. 2 * Half - 1, NEW s \in 0 .. 2 * Half - 1,
         kind' \in PeriodicKinds, Counting(p, s, Int32(s), s)
  PROVE  TimerIInv'
<1>1. Int32(s) \in Int /\ (s < Half => Int32(s) = s)
  BY TimersAssumption DEF Int32
<1>2. TimerTypes'
  BY <1>1 DEF Counting, TimerTypes, Kinds
<1>3. IntervalInv' /\ TrackerInv'
  BY DEF IntervalInv, IntervalOnTime, TrackerInv, PeriodicKinds
<1>4. PeriodicInv'
  BY <1>1, TimersAssumption DEF Counting, PeriodicInv, Longer
<1>. QED BY <1>2, <1>3, <1>4 DEF TimerIInv

LEMMA NewTimerStep ==
  ASSUME TimerIInv, NEW time \in 0 .. 2 * Half - 1, NEW s \in 0 .. 2 * Half - 1,
         \/ NewIntervalTimer \/ NewTimeTracker(time) \/ NewTimeTrackerSmall(time)
         \/ \E k \in PeriodicKinds : NewPeriodicTimer(k, time, s)
  PROVE  TimerIInv'
<1>. USE DEF New
<1>1. /\ time \in Nat /\ time \in 0 .. 2 * Half - 1 /\ s \in 0 .. 2 * Half - 1 /\ 0 \in 0 .. 2 * Half - 1
      /\ Int32(time) \in Int /\ Int32(s) \in Int
  BY TimersAssumption, Int32Type
<1>2. TimerTypes
  BY DEF TimerIInv
<1>3. CASE NewIntervalTimer
  <2>1. kind' = "IntervalTimer" /\ Counting(0, 0, 0, -0)
    BY <1>3 DEF NewIntervalTimer
  <2>. QED BY <1>1, <1>2, <2>1, IntervalSet
<1>4. CASE NewTimeTracker(time)
  <2>1. kind' = "TimeTracker" /\ Counting(time, time, time, time)
    BY <1>1, <1>2, <1>4 DEF NewTimeTracker
  <2>. QED BY <1>1, <1>2, <2>1, TrackerSet
<1>5. CASE NewTimeTrackerSmall(time)
  <2>1. kind' = "TimeTrackerSmall" /\ Counting(time, time, Int32(time), time)
    BY <1>1, <1>2, <1>5 DEF NewTimeTrackerSmall
  <2>. QED BY <1>1, <1>2, <2>1, SmallSet
<1>6. CASE \E k \in PeriodicKinds : NewPeriodicTimer(k, time, s)
  <2>1. kind' \in PeriodicKinds /\ Counting(time, s, Int32(s), s)
    BY <1>1, <1>2, <1>6 DEF NewPeriodicTimer
  <2>. QED BY <1>1, <1>2, <2>1, PeriodicSet
<1>. QED BY <1>3, <1>4, <1>5, <1>6

LEMMA SetTimerStep ==
  ASSUME TimerIInv, NEW time \in 0 .. 2 * Half - 1, NEW s \in 0 .. 2 * Half - 1,
         \/ SetInterval(time) \/ SetCurrent(time) \/ TrackerReset(time) \/ SmallReset(time)
         \/ SetPeriodic(time, s)
  PROVE  TimerIInv'
<1>. USE DEF Set
<1>1. /\ time \in Nat /\ time \in 0 .. 2 * Half - 1 /\ s \in 0 .. 2 * Half - 1
      /\ Int32(time) \in Int /\ Int32(s) \in Int
  BY TimersAssumption, Int32Type
<1>2. /\ TimerTypes /\ expire \in Int /\ -expire \in Int /\ period \in 0 .. 2 * Half - 1
      /\ kind = "IntervalTimer" => expire \in Nat
  BY DEF TimerIInv, TimerTypes, IntervalInv
<1>3. CASE SetInterval(time)
  <2>1. kind' = "IntervalTimer" /\ kind = kind' /\ Counting(time, expire, expire, -expire)
    BY <1>1, <1>2, <1>3 DEF SetInterval
  <2>. QED BY <1>1, <1>2, <2>1, IntervalSet
<1>4. CASE SetCurrent(time)
  <2>1. kind' = "IntervalTimer" /\ Counting(period, time, time, -time)
    BY <1>1, <1>2, <1>4 DEF SetCurrent
  <2>. QED BY <1>1, <1>2, <2>1, IntervalSet
<1>5. CASE TrackerReset(time)
  <2>1. kind' = "TimeTracker" /\ Counting(time, time, time, time)
    BY <1>1, <1>2, <1>5 DEF TrackerReset
  <2>. QED BY <1>1, <1>2, <2>1, TrackerSet
<1>6. CASE SmallReset(time)
  <2>1. kind' = "TimeTrackerSmall" /\ Counting(time, time, Int32(time), time)
    BY <1>1, <1>2, <1>6 DEF SmallReset
  <2>. QED BY <1>1, <1>2, <2>1, SmallSet
<1>7. CASE SetPeriodic(time, s)
  <2>1. kind' \in PeriodicKinds /\ Counting(time, s, Int32(s), s)
    BY <1>1, <1>2, <1>7 DEF SetPeriodic
  <2>. QED BY <1>1, <1>2, <2>1, PeriodicSet
<1>. QED BY <1>3, <1>4, <1>5, <1>6, <1>7

-----------------------------------------------------------------------------
(* Time passes.                                                              *)

LEMMA IntervalStep ==
  ASSUME TimerIInv, NEW diff \in Nat, IntervalUpdate(diff) \/ IntervalReset
  PROVE  TimerIInv'
<1>. USE TimersAssumption DEF TimerIInv, TimerTypes
<1>1. diff \in Nat
  OBVIOUS
<1>2. kind = "IntervalTimer" /\ kind' = kind /\ ~dividedByZero /\ expire \in Nat /\ expire = elapsed - due
  BY DEF IntervalUpdate, IntervalReset, Counts, IntervalInv, IntervalOnTime
<1>3. TrackerInv' /\ PeriodicInv'
  BY <1>2 DEF TrackerInv, PeriodicInv, PeriodicKinds
<1>4. CASE IntervalUpdate(diff)
  <2>1. expire' = expire + diff
    BY <1>1, <1>2, <1>4 DEF IntervalUpdate, Longer
  <2>2. /\ elapsed' = elapsed + diff /\ due' = due /\ period' = period /\ dividedByZero' = dividedByZero
        /\ longest' \in Nat /\ start' = start
        /\ untaken' = IF expire' >= period THEN diff ELSE WasReset
    BY <1>1, <1>4 DEF IntervalUpdate, Counts, Longer
  <2>3. TimerTypes'
    BY <1>1, <1>2, <2>1, <2>2
  <2>4. IntervalInv'
    BY <1>1, <1>2, <2>1, <2>2 DEF IntervalInv, IntervalOnTime, WasReset
  <2>. QED BY <1>3, <2>3, <2>4
<1>5. CASE IntervalReset /\ period = 0
  BY <1>2, <1>3, <1>5 DEF IntervalReset, IntervalInv, IntervalOnTime
<1>6. CASE IntervalReset /\ period # 0
  <2>1. /\ expire' = RestOf(expire, period) /\ due' = due + period * (expire \div period)
        /\ untaken' = WasReset /\ UNCHANGED <<kind, period, start, elapsed, longest, dividedByZero>>
    BY <1>6 DEF IntervalReset
  <2>2. /\ expire' \in 0 .. period - 1 /\ period * (expire \div period) \in Int
        /\ expire' = expire - period * (expire \div period)
    <3>1. expire \in Nat /\ period \in Nat \ {0}
      BY <1>2, <1>6
    <3>. QED BY <2>1, <3>1, WholeIntervals
  <2>3. due' \in Int /\ expire' = elapsed - due'
    BY <1>2, <2>1, <2>2
  <2>4. TimerTypes'
    BY <2>1, <2>2, <2>3
  <2>5. IntervalInv'
    BY <2>1, <2>2, <2>3 DEF IntervalInv, IntervalOnTime
  <2>. QED BY <1>3, <2>4, <2>5
<1>. QED BY <1>4, <1>5, <1>6

LEMMA TrackerStep ==
  ASSUME TimerIInv, NEW diff \in Nat, TrackerUpdate(diff) \/ SmallUpdate(diff)
  PROVE  TimerIInv'
<1>. USE TimersAssumption DEF TimerIInv, TimerTypes
<1>1. diff \in Nat
  OBVIOUS
<1>2. /\ kind \in {"TimeTracker", "TimeTrackerSmall"} /\ kind' = kind
      /\ elapsed' = elapsed + diff /\ longest' \in Nat
      /\ UNCHANGED <<period, start, dividedByZero, due, untaken>>
  BY <1>1 DEF TrackerUpdate, SmallUpdate, Counts, Longer
<1>3. IntervalInv' /\ PeriodicInv'
  BY <1>2 DEF IntervalInv, IntervalOnTime, PeriodicInv, PeriodicKinds
<1>4. CASE TrackerUpdate(diff)
  <2>1. kind = "TimeTracker" /\ expire' = expire - diff
    BY <1>4 DEF TrackerUpdate, Counts
  <2>. QED BY <1>1, <1>2, <1>3, <2>1 DEF TrackerInv
<1>5. CASE SmallUpdate(diff)
  <2>1. kind = "TimeTrackerSmall" /\ expire' = Int32(expire - diff)
    BY <1>5 DEF SmallUpdate, Counts
  <2>2. expire' \in Int
    BY <1>1, <2>1, Int32Type
  <2>3. ASSUME due < Half, elapsed' <= due + Half PROVE expire' = due - elapsed'
    <3>1. expire = due - elapsed
      BY <1>1, <1>2, <2>1, <2>3 DEF TrackerInv
    <3>2. expire - diff \in -Half .. Half - 1
      BY <1>1, <1>2, <2>3, <3>1
    <3>. QED BY <1>1, <1>2, <2>1, <3>1, <3>2, Int32Fits
  <2>. QED BY <1>1, <1>2, <1>3, <2>1, <2>2, <2>3 DEF TrackerInv
<1>. QED BY <1>4, <1>5

\* The next expiry is one period on when the call has come in time, and less
\* than the call's lateness before now otherwise.
LEMMA NextIsAhead ==
  ASSUME NEW p \in 1 .. Half - 1, NEW diff \in 0 .. Half - 1, NEW left \in 1 - diff .. 0
  PROVE  /\ NextExpiry(left, Int32(p), diff) \in 1 .. Half - 1
         /\ diff <= p => NextExpiry(left, Int32(p), diff) = left + p
<1>. USE TimersAssumption
<1>1. Int32(p) = p /\ Int32(diff) = diff
  BY Int32Fits
<1>2. left + Longer(p, diff) \in 1 .. Half - 1
  BY DEF Longer
<1>3. NextExpiry(left, Int32(p), diff) = left + Longer(p, diff)
  BY <1>1, <1>2, Int32Fits DEF NextExpiry
<1>. QED BY <1>2, <1>3 DEF Longer

LEMMA NextType ==
  ASSUME NEW left \in Int, NEW p \in Int, NEW diff \in Int
  PROVE  NextExpiry(left, p, diff) \in Int
BY TimersAssumption DEF NextExpiry, Int32, Longer

LEMMA PeriodicStep ==
  ASSUME TimerIInv, NEW diff \in Nat, PeriodicUpdate(diff)
  PROVE  TimerIInv'
<1>. USE TimersAssumption DEF TimerIInv, TimerTypes
<1>. DEFINE left == Int32(expire - diff)
<1>1. diff \in Nat /\ left \in Int /\ Int32(period) \in Int
  BY Int32Type
<1>2. /\ kind = "PeriodicTimer" /\ kind' = kind /\ untaken = WasReset
      /\ elapsed' = elapsed + diff /\ longest' = Longer(longest, diff) /\ longest' \in Nat
      /\ UNCHANGED <<period, start, dividedByZero, untaken>>
  BY <1>1 DEF PeriodicUpdate, Counts, Longer
<1>3. IntervalInv' /\ TrackerInv'
  BY <1>2 DEF IntervalInv, IntervalOnTime, TrackerInv
<1>4. IF left > 0 THEN expire' = left /\ due' = due
      ELSE expire' = NextExpiry(left, Int32(period), diff) /\ due' = due + period
  BY DEF PeriodicUpdate
<1>. HIDE DEF left
<1>5. TimerTypes'
  <2>1. NextExpiry(left, Int32(period), diff) \in Int
    BY <1>1, NextType
  <2>2. expire' \in Int /\ due' \in Int
    BY <1>1, <1>4, <2>1
  <2>. QED BY <1>1, <1>2, <2>2
<1>6. ASSUME {period, start} \subseteq 1 .. Half - 1, longest' < Half
      PROVE  /\ expire' \in 1 .. Half - 1
             /\ longest' <= period => expire' = due' - elapsed' /\ expire' <= Longer(start, period)
  <2>1. diff < Half /\ longest < Half /\ longest <= longest' /\ diff <= longest'
    BY <1>1, <1>2, <1>6 DEF Longer
  <2>2. /\ expire \in 1 .. Half - 1
        /\ longest' <= period => expire = due - elapsed /\ expire <= Longer(start, period)
    BY <1>2, <1>6, <2>1 DEF PeriodicInv, PeriodicKinds, Longer
  <2>3. left = expire - diff
    BY <1>1, <2>1, <2>2, Int32Fits DEF left
  <2>4. CASE left > 0
    BY <1>1, <1>2, <1>4, <2>1, <2>2, <2>3, <2>4 DEF Longer
  <2>5. CASE left <= 0
    <3>1. left \in 1 - diff .. 0 /\ diff \in 0 .. Half - 1 /\ period \in 1 .. Half - 1
      BY <1>1, <1>6, <2>1, <2>2, <2>3, <2>5
    <3>2. expire' = NextExpiry(left, Int32(period), diff) /\ due' = due + period
      BY <1>1, <1>4, <2>5
    <3>3. expire' \in 1 .. Half - 1 /\ (diff <= period => expire' = left + period)
      BY <3>1, <3>2, NextIsAhead
    <3>. QED BY <1>1, <1>2, <2>1, <2>2, <2>3, <2>5, <3>2, <3>3 DEF Longer
  <2>. QED BY <1>1, <2>3, <2>4, <2>5
<1>7. PeriodicInv'
  <2>1. ASSUME {period, start} \subseteq 1 .. Half - 1, longest' <= period PROVE longest' < Half
    BY <1>2, <2>1
  <2>. QED BY <1>2, <1>6, <2>1 DEF PeriodicInv
<1>. QED BY <1>3, <1>5, <1>7

\* The tracker interface: TUpdate, and TReset once it has passed.
LEMMA InterfaceStep ==
  ASSUME TimerIInv, NEW diff \in Nat, TUpdate(diff) \/ TReset
  PROVE  TimerIInv'
<1>. USE TimersAssumption DEF TimerIInv, TimerTypes
<1>1. kind = "tracker interface" /\ kind' = kind /\ UNCHANGED <<period, start, dividedByZero>>
  BY DEF TUpdate, TReset, Counts
<1>2. IntervalInv' /\ TrackerInv'
  BY <1>1 DEF IntervalInv, IntervalOnTime, TrackerInv
<1>3. CASE TUpdate(diff)
  <2>. DEFINE left == Int32(expire - diff)
  <2>1. /\ diff \in Nat /\ diff < Half /\ left \in Int
        /\ untaken = WasReset /\ elapsed' = elapsed + diff /\ longest' = Longer(longest, diff)
        /\ longest' \in Nat /\ expire' = left /\ due' = due
        /\ untaken' = IF left <= 0 THEN diff ELSE WasReset
    <3>1. diff \in Nat /\ expire - diff \in Int
      OBVIOUS
    <3>2. left \in Int
      BY <3>1, Int32Type
    <3>. QED BY <1>3, <3>1, <3>2 DEF TUpdate, Counts, Longer
  <2>. HIDE DEF left
  <2>2. TimerTypes'
    <3>1. untaken' \in Nat \cup {WasReset}
      BY <2>1
    <3>2. expire' \in Int /\ due' \in Int /\ elapsed' \in Nat
      BY <2>1
    <3>. QED BY <1>1, <2>1, <3>1, <3>2
  <2>3. ASSUME {period, start} \subseteq 1 .. Half - 1, longest' < Half
        PROVE  /\ IF untaken' = WasReset THEN expire' \in 1 .. Half - 1
                  ELSE untaken' <= longest' /\ expire' \in 1 - untaken' .. 0
               /\ longest' <= period => expire' = due' - elapsed' /\ expire' <= Longer(start, period)
    <3>1. longest < Half /\ longest <= longest' /\ diff <= longest'
      BY <2>1, <2>3 DEF Longer
    <3>2. /\ expire \in 1 .. Half - 1
          /\ longest' <= period => expire = due - elapsed /\ expire <= Longer(start, period)
      <4>1. longest' <= period => longest <= period
        BY <2>1, <3>1
      <4>. QED BY <1>1, <2>1, <2>3, <3>1, <4>1 DEF PeriodicInv, PeriodicKinds
    <3>3. left = expire - diff
      BY <2>1, <3>2, Int32Fits DEF left
    <3>. QED BY <2>1, <2>3, <3>1, <3>2, <3>3 DEF Longer, WasReset
  <2>4. PeriodicInv'
    <3>1. ASSUME {period, start} \subseteq 1 .. Half - 1, longest' <= period PROVE longest' < Half
      BY <2>1, <3>1
    <3>. QED BY <1>1, <2>3, <3>1 DEF PeriodicInv
  <2>. QED BY <1>2, <2>2, <2>4
<1>4. CASE TReset
  <2>1. /\ untaken # WasReset /\ untaken \in Nat
        /\ expire' = NextExpiry(expire, Int32(period), untaken)
        /\ due' = due + period /\ untaken' = WasReset /\ UNCHANGED <<elapsed, longest>>
    BY <1>4 DEF TReset
  <2>2. TimerTypes'
    <3>1. NextExpiry(expire, Int32(period), untaken) \in Int
      BY <2>1, Int32Type, NextType
    <3>2. expire' \in Int /\ due' \in Int
      BY <2>1, <3>1
    <3>. QED BY <1>1, <2>1, <3>2
  <2>3. ASSUME {period, start} \subseteq 1 .. Half - 1, longest < Half
        PROVE  /\ expire' \in 1 .. Half - 1
               /\ longest <= period => expire' = due' - elapsed /\ expire' <= Longer(start, period)
    <3>1. /\ untaken <= longest /\ expire \in 1 - untaken .. 0
          /\ longest <= period => expire = due - elapsed
      BY <1>1, <2>1, <2>3 DEF PeriodicInv, PeriodicKinds
    <3>2. untaken \in 0 .. Half - 1 /\ period \in 1 .. Half - 1
      BY <2>1, <2>3, <3>1
    <3>3. expire' \in 1 .. Half - 1 /\ (untaken <= period => expire' = expire + period)
      BY <2>1, <3>1, <3>2, NextIsAhead
    <3>. QED BY <2>1, <3>1, <3>2, <3>3 DEF Longer
  <2>4. PeriodicInv'
    <3>1. ASSUME {period, start} \subseteq 1 .. Half - 1, longest <= period PROVE longest < Half
      BY <3>1
    <3>. QED BY <1>1, <2>1, <2>3, <3>1 DEF PeriodicInv
  <2>. QED BY <1>2, <2>2, <2>4
<1>. QED BY <1>3, <1>4

LEMMA TimerNextInv == TimerIInv /\ [TimersNext]_timerVars => TimerIInv'
<1>. SUFFICES ASSUME TimerIInv, [TimersNext]_timerVars PROVE TimerIInv'
  OBVIOUS
<1>1. CASE UNCHANGED timerVars
  BY <1>1 DEF timerVars, TimerIInv, TimerTypes, IntervalInv, IntervalOnTime, TrackerInv, PeriodicInv
<1>2. Times \subseteq 0 .. 2 * Half - 1 /\ 0 \in 0 .. 2 * Half - 1
  BY TimersAssumption
<1>3. CASE TimersNext
  <2>1. CASE \E diff \in Diffs : \/ IntervalUpdate(diff) \/ TrackerUpdate(diff) \/ SmallUpdate(diff)
                                \/ PeriodicUpdate(diff) \/ TUpdate(diff)
    <3>1. Diffs \subseteq Nat
      BY TimersAssumption
    <3>. QED BY <2>1, <3>1, IntervalStep, TrackerStep, PeriodicStep, InterfaceStep
  <2>2. CASE NewIntervalTimer
    BY <2>2, <1>2, NewTimerStep
  <2>3. CASE \E time \in Times : \/ NewTimeTracker(time) \/ NewTimeTrackerSmall(time)
                                \/ \E k \in PeriodicKinds, s \in Times : NewPeriodicTimer(k, time, s)
    BY <2>3, <1>2, NewTimerStep
  <2>4. CASE \E time \in Times : \/ SetInterval(time) \/ SetCurrent(time)
                                \/ TrackerReset(time) \/ SmallReset(time)
                                \/ \E s \in Times : SetPeriodic(time, s)
    BY <2>4, <1>2, SetTimerStep
  <2>5. CASE IntervalReset \/ TReset
    BY <2>5, 0 \in Nat, IntervalStep, InterfaceStep
  <2>. QED BY <1>3, <2>1, <2>2, <2>3, <2>4, <2>5 DEF TimersNext
<1>. QED BY <1>1, <1>3

-----------------------------------------------------------------------------
\* Every timer of Timer.h keeps its time, however irregular the calls are, where
\* the 32 bits of its fields allow it: for fields of any width, and any times.
THEOREM TimersKeepTime == TimersSpec => []TimersOnTime
<1>1. TimerIInv => TimersOnTime
  <2>. SUFFICES ASSUME TimerIInv PROVE TimersOnTime
    OBVIOUS
  <2>. USE TimersAssumption DEF TimerIInv, TimerTypes
  <2>1. IntervalOnTime
    BY DEF IntervalInv
  <2>2. TrackerOnTime
    BY DEF TrackerInv, TrackerOnTime, Passed
  <2>3. PeriodicOnTime
    BY DEF PeriodicInv, PeriodicOnTime, Passed
  <2>. QED BY <2>1, <2>2, <2>3 DEF TimersOnTime
<1>. QED BY <1>1, TimerInitInv, TimerNextInv, PTL DEF TimersSpec

-----------------------------------------------------------------------------
(***************************************************************************)
(* Dates.                                                                  *)
(***************************************************************************)
\* Where the fields of val come from, as far as ToFiestaTime has got.
Sources == {Date} \cup asked
Placed(t) == Year(t) \in FirstYear .. LastYear
Packed == [sec : Int, hour : Int, mday : Int, mon : Int, year : Int]
PackedFrom ==
  /\ next \in {"hour", "mday", "mon", "year"} => \E t \in Sources : Second(t) = val.sec
  /\ next \in {"mday", "mon", "year"} => \E t \in Sources : Hours(t) = val.hour
  /\ next \in {"mon", "year"} => \E t \in Sources : Day(t) = val.mday
  /\ next = "year" => \E t \in Sources : Month(t) = val.mon
PackedAll ==
  (\A t \in Sources : Placed(t)) =>
    /\ \E t \in Sources : Second(t) = val.sec
    /\ \E t \in Sources : Hours(t) = val.hour
    /\ \E t \in Sources : Day(t) = val.mday
    /\ \E t \in Sources : Month(t) = val.mon
    /\ \E t \in Sources : Year(t) = val.year + 2000

DateIInv ==
  /\ now \in Moments /\ Date \in Moments \cup {NoMoment} /\ asked \subseteq Moments
  /\ next \in DOMAIN Follows
  /\ tm \in Sources
  /\ next # "none" => Date \in Moments /\ val \in Packed
  /\ PackedFrom
  /\ next = "none" /\ val # Empty => Date \in Moments /\ PackedAll

LEMMA CalendarTypes ==
  ASSUME NEW t \in Moments
  PROVE  Second(t) \in Int /\ Hours(t) \in Int /\ Day(t) \in Int /\ Month(t) \in Int /\ Year(t) \in Int
BY CalendarAssumption DEF Second, Hours, Day, Month, Year

LEMMA DateInitInv ==
  ASSUME DateTimeInit
  PROVE  DateIInv
<1>1. FirstMoment \in Moments
  BY CalendarAssumption, LeastExists DEF FirstMoment
<1>. QED BY <1>1 DEF DateTimeInit, DateIInv, Sources, Follows, PackedFrom

LEMMA DateStepInv ==
  ASSUME DateIInv, [DateTimeNext]_dateVars
  PROVE  DateIInv'
<1>1. CASE UNCHANGED dateVars \/ Passing
  BY <1>1 DEF dateVars, Passing, DateIInv, Sources, PackedFrom, PackedAll
<1>2. ASSUME NEW time \in Moments, Make(time)
      PROVE  DateIInv'
  BY <1>2 DEF Make, localtime, AsksFor, DateIInv, Sources, PackedFrom
<1>3. ASSUME NEW time \in Moments, AskedToo(time)
      PROVE  DateIInv'
  BY <1>3 DEF AskedToo, localtime, DateIInv, Sources, PackedFrom, PackedAll
<1>4. CASE ToFiestaTime
  BY <1>4 DEF ToFiestaTime, ReadsField, Follows, Empty, Packed, DateIInv, Sources, PackedFrom
\* Each field is read of the tm as it is then.
<1>5. CASE ReadsSecond \/ ReadsHours \/ ReadsDay \/ ReadsMonth
  <2>1. tm \in Moments /\ val \in Packed /\ next # "none" /\ Sources' = Sources
    BY <1>5 DEF ReadsSecond, ReadsHours, ReadsDay, ReadsMonth, ReadsField, DateIInv, Sources
  <2>2. Second(tm) \in Int /\ Hours(tm) \in Int /\ Day(tm) \in Int /\ Month(tm) \in Int
    BY <2>1, CalendarTypes
  <2>3. PICK f \in {"sec", "hour", "mday", "mon"} : ReadsField(f)
    BY <1>5 DEF ReadsSecond, ReadsHours, ReadsDay, ReadsMonth
  <2>4. val' \in Packed /\ next' \in DOMAIN Follows /\ next' # "none"
    BY <1>5, <2>1, <2>2 DEF ReadsSecond, ReadsHours, ReadsDay, ReadsMonth, ReadsField, Packed, Follows
  <2>5. PackedFrom'
    BY <1>5, <2>1, <2>2 DEF ReadsSecond, ReadsHours, ReadsDay, ReadsMonth, ReadsField, Packed, Follows,
                            PackedFrom, DateIInv, Sources
  <2>. QED BY <2>1, <2>3, <2>4, <2>5 DEF ReadsField, DateIInv, Sources
<1>6. CASE ReadsYear
  <2>1. /\ tm \in Moments /\ tm \in Sources /\ val \in Packed /\ next = "year" /\ Date \in Moments
        /\ UNCHANGED <<now, Date, tm, asked>> /\ next' = "none" /\ val' = WithYear(val, Year(tm) - 2000)
    BY <1>6 DEF ReadsYear, ReadsField, Follows, DateIInv, Sources
  <2>2. Year(tm) \in Int
    BY <2>1, CalendarTypes
  \* In a year that there is a place for, the year's byte has its sign bit clear.
  <2>3. ASSUME Placed(tm)
        PROVE  val' = [val EXCEPT !.year = Year(tm) - 2000]
    <3>1. Year(tm) - 2000 \in 0 .. 127
      BY <2>2, <2>3 DEF Placed, FirstYear, LastYear
    <3>. DEFINE y == Year(tm) - 2000
    <3>2. val' = WithYear(val, y) /\ y \in 0 .. 127
      BY <2>1, <3>1
    <3>. HIDE DEF y
    <3>3. y % 256 = y /\ y < 128
      BY <3>2
    <3>4. val' = [val EXCEPT !.year = y]
      BY <3>2, <3>3 DEF WithYear
    <3>. QED BY <3>4 DEF y
  <2>4. PackedAll'
    <3>. SUFFICES ASSUME \A t \in Sources : Placed(t) PROVE PackedAll'
      BY <2>1 DEF PackedAll, Sources, Placed, Year
    <3>1. /\ val'.sec = val.sec /\ val'.hour = val.hour /\ val'.mday = val.mday /\ val'.mon = val.mon
          /\ val'.year + 2000 = Year(tm)
      BY <2>1, <2>2, <2>3 DEF Packed
    <3>2. Sources' = Sources
      BY <2>1 DEF Sources
    <3>3. PackedFrom
      BY DEF DateIInv
    <3>. QED BY <2>1, <3>1, <3>2, <3>3 DEF PackedAll, PackedFrom
  <2>. QED BY <2>1, <2>4 DEF DateIInv, Sources, Follows, PackedFrom
<1>. QED BY <1>1, <1>2, <1>3, <1>4, <1>5, <1>6
         DEF DateTimeNext, Now, DateTimeOf, AnotherDateTime, NowDate, LogDateString, ToChar, DateIInv

\* However often the time is asked for while a DateTime is packed: in the years
\* that the packed date has a place for, each of its fields is of the DateTime's
\* own time or of one asked for since, and the packed time of now tells nothing
\* but the year.
THEOREM DatesComeFromTheirTimes == DateTimeSpec => []FiestaDates
<1>1. DateIInv => FiestaDates
  <2>. SUFFICES ASSUME DateIInv, next = "none", val # Empty,
                       \A t \in Sources : Year(t) \in FirstYear .. LastYear
                PROVE  /\ \E t \in Sources : Second(t) = val.sec
                       /\ \E t \in Sources : Hours(t) = val.hour
                       /\ \E t \in Sources : Day(t) = val.mday
                       /\ \E t \in Sources : Month(t) = val.mon
                       /\ \E t \in Sources : Year(t) = val.year + 2000
                       /\ Year(tm) < 2108 => \A f \in DOMAIN AllSet : NowFiestaTime(tm)[f] = AllSet[f]
    BY DEF FiestaDates, Sources
  <2>1. PackedAll
    BY DEF DateIInv
  <2>2. ASSUME Year(tm) < 2108
        PROVE  \A f \in DOMAIN AllSet : NowFiestaTime(tm)[f] = AllSet[f]
    <3>1. tm \in Moments /\ tm \in Sources
      BY DEF DateIInv, Sources
    <3>2. Year(tm) \in 2000 .. 2107
      BY <2>2, <3>1 DEF FirstYear, LastYear
    <3>3. Calendar[tm].year \in 100 .. 207
      <4>1. Calendar[tm].year \in Int
        BY <3>1, CalendarAssumption
      <4>2. Year(tm) = Calendar[tm].year + 1900
        BY DEF Year
      <4>. QED BY <3>2, <4>1, <4>2
    <3>4. (Calendar[tm].year - 2000) % 256 = Calendar[tm].year + 48
      BY <3>3
    <3>5. (Calendar[tm].year - 2000) % 256 >= 128
      BY <3>3, <3>4
    <3>. DEFINE byte == (Calendar[tm].year - 2000) % 256
                packed == [sec |-> Calendar[tm].sec, hour |-> Calendar[tm].hour, mday |-> Calendar[tm].mday,
                           mon |-> Calendar[tm].mon, year |-> 0]
    <3>6. NowFiestaTime(tm) = [f \in DOMAIN packed |-> IF f = "year" THEN byte ELSE AllSet[f]]
      <4>1. ~(byte < 128)
        BY <3>3, <3>4
      <4>. QED BY <4>1 DEF NowFiestaTime, WithYear
    <3>7. DOMAIN packed = {"sec", "hour", "mday", "mon", "year"}
      OBVIOUS
    <3>8. DOMAIN AllSet = {"sec", "hour", "mday", "mon"}
      BY DEF AllSet
    <3>. HIDE DEF packed, byte
    <3>. QED BY <3>6, <3>7, <3>8
  <2>. QED BY <2>1, <2>2 DEF PackedAll, Placed
<1>. QED BY <1>1, DateInitInv, DateStepInv, PTL DEF DateTimeSpec

-----------------------------------------------------------------------------
(***************************************************************************)
(* Collections.                                                            *)
(***************************************************************************)
\* A recursive function has the value that its definition says.
LEMMA WithoutIs ==
  ASSUME NEW s, Len(s) \in Nat, NEW e
  PROVE  \E kept : 
           /\ kept[0] = <<>>
           /\ \A n \in 1 .. Len(s) : kept[n] = IF s[n] = e THEN kept[n - 1] ELSE Append(kept[n - 1], s[n])
           /\ Without(s, e) = kept[Len(s)]
<1>. DEFINE Part(f, n) == IF n = 0 THEN <<>> ELSE IF s[n] = e THEN f[n - 1] ELSE Append(f[n - 1], s[n])
            kept == CHOOSE f : f = [n \in 0 .. Len(s) |-> Part(f, n)]
            T == {n \in Nat : \E f : f = [m \in 0 .. n |-> Part(f, m)]}
<1>1. 0 \in T
  <2>. DEFINE f == [m \in 0 .. 0 |-> <<>>]
  <2>1. f = [m \in 0 .. 0 |-> Part(f, m)]
    OBVIOUS
  <2>. QED BY <2>1
<1>2. ASSUME NEW n \in T PROVE n + 1 \in T
  <2>1. PICK f : f = [m \in 0 .. n |-> Part(f, m)]
    OBVIOUS
  <2>. DEFINE g == [m \in 0 .. n + 1 |-> IF m \in 0 .. n THEN f[m] ELSE Part(f, n + 1)]
  <2>2. \A m \in 0 .. n : g[m] = f[m]
    OBVIOUS
  <2>3. \A m \in 0 .. n + 1 : g[m] = Part(f, m)
    <3>1. \A m \in 0 .. n : f[m] = Part(f, m)
      <4>. HIDE DEF Part
      <4>. QED BY <2>1
    <3>2. g[n + 1] = Part(f, n + 1)
      OBVIOUS
    <3>. HIDE DEF g, Part
    <3>. QED BY <2>2, <3>1, <3>2
  <2>4. \A m \in 0 .. n + 1 : Part(g, m) = Part(f, m)
    <3>. SUFFICES ASSUME NEW m \in 0 .. n + 1 PROVE Part(g, m) = Part(f, m)
      OBVIOUS
    <3>1. m # 0 => m - 1 \in 0 .. n /\ g[m - 1] = f[m - 1]
      BY <2>2
    <3>. HIDE DEF g
    <3>. QED BY <3>1
  <2>5. g = [m \in 0 .. n + 1 |-> Part(g, m)]
    <3>1. g = [m \in 0 .. n + 1 |-> g[m]]
      OBVIOUS
    <3>. HIDE DEF g, Part
    <3>. QED BY <2>3, <2>4, <3>1
  <2>. HIDE DEF g, Part
  <2>. QED BY <2>5
<1>3. T = Nat
  <2>. HIDE DEF T
  <2>1. T \in SUBSET Nat
    BY DEF T
  <2>. QED BY <1>1, <1>2, <2>1, Induction
<1>4. kept = [n \in 0 .. Len(s) |-> Part(kept, n)]
  <2>1. Len(s) \in T
    BY <1>3
  <2>. HIDE DEF Part
  <2>2. \E f : f = [n \in 0 .. Len(s) |-> Part(f, n)]
    BY <2>1
  <2>. QED BY <2>2, Zenon
<1>5. Without(s, e) = kept[Len(s)]
  BY Zenon DEF Without
<1>6. \A n \in 0 .. Len(s) : kept[n] = Part(kept, n)
  <2>. HIDE DEF kept, Part
  <2>. QED BY <1>4
<1>. HIDE DEF kept
<1>7. kept[0] = <<>> /\ \A n \in 1 .. Len(s) : kept[n] = IF s[n] = e THEN kept[n - 1] ELSE Append(kept[n - 1], s[n])
  BY <1>6
<1>. QED BY <1>5, <1>7

Positions(s, x) == {i \in DOMAIN s : s[i] = x}
\* The positions up to n.
UpTo(s, x, n) == {i \in 1 .. n : s[i] = x}

LEMMA UpToGrows ==
  ASSUME NEW s, NEW x, NEW n \in Nat
  PROVE  /\ Cardinality(UpTo(s, x, n)) \in Nat
         /\ Cardinality(UpTo(s, x, n + 1)) = Cardinality(UpTo(s, x, n)) + IF s[n + 1] = x THEN 1 ELSE 0
<1>1. IsFiniteSet(UpTo(s, x, n))
  <2>1. IsFiniteSet(1 .. n) /\ UpTo(s, x, n) \in SUBSET (1 .. n)
    BY FS_Interval DEF UpTo
  <2>. QED BY <2>1, FS_Subset
<1>2. UpTo(s, x, n + 1) = IF s[n + 1] = x THEN UpTo(s, x, n) \cup {n + 1} ELSE UpTo(s, x, n)
  BY DEF UpTo
<1>3. n + 1 \notin UpTo(s, x, n)
  BY DEF UpTo
<1>4. Cardinality(UpTo(s, x, n)) \in Nat
  BY <1>1, FS_CardinalityType
<1>5. Cardinality(UpTo(s, x, n) \cup {n + 1}) = Cardinality(UpTo(s, x, n)) + 1
  BY <1>1, <1>3, FS_AddElement
<1>. QED BY <1>2, <1>4, <1>5

LEMMA PositionsOfAppend ==
  ASSUME NEW S, NEW s \in Seq(S), NEW y \in S, NEW x
  PROVE  /\ Cardinality(Positions(s, x)) \in Nat
         /\ Cardinality(Positions(Append(s, y), x)) = Cardinality(Positions(s, x)) + IF y = x THEN 1 ELSE 0
<1>1. Len(s) \in Nat /\ DOMAIN s = 1 .. Len(s)
  OBVIOUS
<1>2. Append(s, y) \in Seq(S) /\ Len(Append(s, y)) = Len(s) + 1 /\ Append(s, y)[Len(s) + 1] = y
      /\ \A i \in 1 .. Len(s) : Append(s, y)[i] = s[i]
  OBVIOUS
<1>3. Positions(s, x) = UpTo(s, x, Len(s)) /\ UpTo(s, x, Len(s)) = UpTo(Append(s, y), x, Len(s))
  BY <1>1, <1>2 DEF Positions, UpTo
<1>4. Positions(Append(s, y), x) = UpTo(Append(s, y), x, Len(s) + 1)
  BY <1>2 DEF Positions, UpTo
<1>. DEFINE more == Append(s, y)
<1>5. /\ Cardinality(UpTo(more, x, Len(s))) \in Nat
      /\ Cardinality(UpTo(more, x, Len(s) + 1)) = Cardinality(UpTo(more, x, Len(s))) + IF more[Len(s) + 1] = x THEN 1 ELSE 0
  <2>. HIDE DEF more
  <2>. QED BY <1>1, UpToGrows
<1>. QED BY <1>2, <1>3, <1>4, <1>5

\* Removing keeps every other element, as often as it was there.
LEMMA WithoutKeeps ==
  ASSUME NEW S, NEW s \in Seq(S), NEW e, NEW x
  PROVE  /\ Without(s, e) \in Seq(S)
         /\ Cardinality(Positions(Without(s, e), x)) = IF x = e THEN 0 ELSE Cardinality(Positions(s, x))
<1>1. Len(s) \in Nat /\ DOMAIN s = 1 .. Len(s) /\ \A i \in 1 .. Len(s) : s[i] \in S
  OBVIOUS
<1>2. PICK kept :
           /\ kept[0] = <<>>
           /\ \A n \in 1 .. Len(s) : kept[n] = IF s[n] = e THEN kept[n - 1] ELSE Append(kept[n - 1], s[n])
           /\ Without(s, e) = kept[Len(s)]
  BY <1>1, WithoutIs
<1>. DEFINE Right(n) ==
       /\ kept[n] \in Seq(S)
       /\ Cardinality(Positions(kept[n], x)) = IF x = e THEN 0 ELSE Cardinality(UpTo(s, x, n))
     T == {n \in Nat : n <= Len(s) => Right(n)}
<1>3. 0 \in T
  <2>1. Positions(<<>>, x) = {} /\ UpTo(s, x, 0) = {}
    BY DEF Positions, UpTo
  <2>2. Cardinality(Positions(kept[0], x)) = 0 /\ Cardinality(UpTo(s, x, 0)) = 0
    BY <1>2, <2>1, FS_EmptySet
  <2>3. Right(0)
    BY <1>2, <2>2
  <2>. QED BY <2>3
<1>4. ASSUME NEW n \in T PROVE n + 1 \in T
  <2>. SUFFICES ASSUME n + 1 <= Len(s) PROVE Right(n + 1)
    OBVIOUS
  <2>1. n \in Nat /\ n <= Len(s) /\ n + 1 \in 1 .. Len(s) /\ (n + 1) - 1 = n
    BY <1>1
  <2>2. Right(n)
    BY <2>1
  <2>3. kept[n + 1] = IF s[n + 1] = e THEN kept[n] ELSE Append(kept[n], s[n + 1])
    BY <1>2, <2>1
  <2>4. s[n + 1] \in S
    BY <1>1, <2>1
  <2>5. /\ Cardinality(UpTo(s, x, n)) \in Nat
        /\ Cardinality(UpTo(s, x, n + 1)) = Cardinality(UpTo(s, x, n)) + IF s[n + 1] = x THEN 1 ELSE 0
    <3>1. n \in Nat
      BY <2>1
    <3>. HIDE DEF T, Right
    <3>. QED BY <3>1, UpToGrows
  <2>6. CASE s[n + 1] = e
    BY <2>2, <2>3, <2>5, <2>6
  <2>7. CASE s[n + 1] # e
    <3>1. Append(kept[n], s[n + 1]) \in Seq(S)
      BY <2>2, <2>4
    <3>2. Cardinality(Positions(Append(kept[n], s[n + 1]), x)) = Cardinality(Positions(kept[n], x)) + IF s[n + 1] = x THEN 1 ELSE 0
      BY <2>2, <2>4, PositionsOfAppend
    <3>. QED BY <2>2, <2>3, <2>5, <2>7, <3>1, <3>2
  <2>. QED BY <2>6, <2>7
<1>5. Right(Len(s))
  <2>. HIDE DEF Right
  <2>1. T \in SUBSET Nat
    OBVIOUS
  <2>. HIDE DEF T
  <2>2. T = Nat
    BY <1>3, <1>4, <2>1, Induction
  <2>. QED BY <1>1, <2>2 DEF T
<1>6. Positions(s, x) = UpTo(s, x, Len(s))
  BY <1>1 DEF Positions, UpTo
<1>. QED BY <1>2, <1>5, <1>6

-----------------------------------------------------------------------------
MapMembers == {"ContainsKey", "FindValue", "print", "size", "empty", "get", "TryAdd", "clear", "subscript"}
VectorMembers == {"Contains", "Find", "FindAll", "vector_size", "vector_get", "vector_print", "vector_print_to",
                  "vector_subscript", "Add", "RemoveAllBy", "vector_clear"}
CallType ==
  [container : Containers, member : MapMembers \cup VectorMembers, key : Keys, entry : Entries \cup {NoEntry},
   writes : BOOLEAN]

\* What a call says of itself.
CallRight(call) ==
  /\ call \in CallType
  /\ call.container = IF call.member \in MapMembers THEN "ObjectList" ELSE "TVect"
  /\ call.member \in {"clear", "Add", "RemoveAllBy", "vector_clear"} => call.writes
  /\ call.member \in {"TryAdd", "Add", "RemoveAllBy"} => call.entry \in Entries

\* Every call that locks has its container's mutex, and no two collide as long as
\* nothing is undefined.
CallInv ==
  /\ mMutex \in [Containers -> Threads \cup {Nobody}]
  /\ \A t \in Threads : calls[t] = Idle \/ CallRight(calls[t])
  /\ \A t \in Threads : calls[t] # Idle /\ calls[t].member \in MembersThatLock => mMutex[calls[t].container] = t
  /\ DOMAIN calls = Threads
Apart(call, other) == call = Idle \/ other = Idle \/ ~Collides(call, other)
ApartInv == undefined = {} => \A t, u \in Threads : t # u => Apart(calls[t], calls[u])
BlameInv == undefined # {} => \E member \in undefined : member \notin MembersThatLock

\* TryAdd still finds the key missing when it inserts it.
FreshInv ==
  undefined = {} => \A t \in Threads :
    calls[t] # Idle /\ calls[t].member = "TryAdd" /\ calls[t].writes => calls[t].key \notin DOMAIN ObjectList

MapInv ==
  \A k \in Keys :
    /\ added[k] # {} => k \in DOMAIN ObjectList /\ added[k] = {ObjectList[k]}
    /\ k \in DOMAIN ObjectList /\ added[k] = {} => k \in defaulted
VectorInv ==
  /\ TVect \in Seq(Entries)
  /\ \A e \in Entries : Cardinality(Positions(TVect, e)) = pushed[e]

ContentTypes ==
  /\ DOMAIN added = Keys /\ DOMAIN pushed = Entries
  /\ added = [k \in Keys |-> added[k]] /\ pushed = [e \in Entries |-> pushed[e]]
CollectionIInv == CallInv /\ ApartInv /\ BlameInv /\ FreshInv /\ MapInv /\ VectorInv /\ ContentTypes

LEMMA CollectionInitInv ==
  ASSUME CollectionInit
  PROVE  CollectionIInv
<1>1. \A e : Positions(<<>>, e) = {}
  BY DEF Positions
<1>2. VectorInv
  <2>1. \A e : Cardinality(Positions(<<>>, e)) = 0
    BY <1>1, FS_EmptySet
  <2>. QED BY <2>1 DEF CollectionInit, VectorInv
<1>3. CallInv /\ ApartInv /\ BlameInv /\ FreshInv /\ MapInv /\ ContentTypes
  BY DEF CollectionInit, CallInv, ApartInv, Apart, BlameInv, FreshInv, MapInv, ContentTypes
<1>. QED BY <1>2, <1>3 DEF CollectionIInv

\* A call begins, or TryAdd goes on to write.
LEMMA TouchStep ==
  ASSUME CollectionIInv, NEW t \in Threads, NEW call, CallRight(call), Touches(t, call), undefined = {},
         mMutex' \in [Containers -> Threads \cup {Nobody}],
         \A c \in Containers, u \in Threads \ {t} : mMutex[c] = u => mMutex'[c] = u,
         call.member \in MembersThatLock => mMutex'[call.container] = t,
         call.member = "TryAdd" /\ call.writes => call.key \notin DOMAIN ObjectList,
         UNCHANGED <<contents, history>>
  PROVE  CollectionIInv'
<1>. DEFINE others == {u \in Threads \ {t} : Collides(call, calls[u])}
<1>1. calls' = [calls EXCEPT ![t] = call] /\ undefined' = IF others = {} THEN {} ELSE {call.member} \cup {calls[u].member : u \in others}
  BY DEF Touches
<1>2. calls'[t] = call /\ DOMAIN calls' = Threads /\ \A u \in Threads \ {t} : calls'[u] = calls[u]
  BY <1>1 DEF CollectionIInv, CallInv
<1>3. call.container \in Containers /\ call.container # "none"
  BY DEF CallRight, CallType, Containers
<1>4. \A u \in Threads : calls[u] = Idle \/ calls[u].container \in Containers
  BY DEF CollectionIInv, CallInv, CallRight, CallType
<1>5. CallInv'
  BY <1>2, <1>3, <1>4 DEF CollectionIInv, CallInv
<1>6. ApartInv'
  <2>. SUFFICES ASSUME undefined' = {}, NEW u \in Threads, NEW v \in Threads, u # v
                PROVE  Apart(calls'[u], calls'[v])
    BY DEF ApartInv
  <2>1. others = {}
    BY <1>1
  <2>2. CASE u # t /\ v # t
    BY <1>2, <2>2 DEF CollectionIInv, ApartInv
  <2>3. CASE u = t
    BY <1>2, <2>1, <2>3 DEF Apart
  <2>4. CASE v = t
    BY <1>2, <2>1, <2>4 DEF Apart, Collides
  <2>. QED BY <2>2, <2>3, <2>4
<1>7. BlameInv'
  <2>. SUFFICES ASSUME others # {} PROVE \E member \in undefined' : member \notin MembersThatLock
    BY <1>1 DEF BlameInv
  <2>1. PICK u \in Threads \ {t} : Collides(call, calls[u])
    OBVIOUS
  <2>2. call.member \in undefined' /\ calls[u].member \in undefined'
    BY <1>1, <2>1
  <2>3. ASSUME call.member \in MembersThatLock, calls[u].member \in MembersThatLock
        PROVE  FALSE
    <3>1. calls[u].container = call.container
      BY <2>1 DEF Collides
    <3>2. calls[u] # Idle
      BY <1>3, <3>1 DEF Idle, CallOf
    <3>3. mMutex[call.container] = u
      BY <2>3, <3>1, <3>2 DEF CollectionIInv, CallInv
    <3>. QED BY <1>3, <2>3, <3>3
  <2>. QED BY <2>2, <2>3
<1>8. FreshInv'
  <2>1. ObjectList' = ObjectList
    BY DEF contents
  <2>. QED BY <1>2, <2>1 DEF FreshInv, CollectionIInv
<1>9. MapInv' /\ VectorInv' /\ ContentTypes'
  BY DEF CollectionIInv, MapInv, VectorInv, ContentTypes, contents, history
<1>. QED BY <1>5, <1>6, <1>7, <1>8, <1>9 DEF CollectionIInv

LEMMA EnterStep ==
  ASSUME CollectionIInv, NEW t \in Threads, NEW call, CallRight(call),
         Locked(t, call) \/ (Unlocked(t, call) /\ call.member \notin MembersThatLock),
         ~(call.member = "TryAdd" /\ call.writes)
  PROVE  CollectionIInv'
<1>1. Touches(t, call) /\ undefined = {} /\ UNCHANGED <<contents, history>>
  BY DEF Locked, Unlocked, Enters
<1>2. call.container \in Containers /\ mMutex \in [Containers -> Threads \cup {Nobody}]
  BY DEF CallRight, CallType, CollectionIInv, CallInv
<1>3. CASE Locked(t, call)
  <2>1. mMutex[call.container] = Nobody /\ mMutex' = [mMutex EXCEPT ![call.container] = t]
    BY <1>3 DEF Locked, Lock
  <2>2. /\ mMutex' \in [Containers -> Threads \cup {Nobody}] /\ mMutex'[call.container] = t
        /\ \A c \in Containers, u \in Threads \ {t} : mMutex[c] = u => mMutex'[c] = u
    BY <1>2, <2>1, CollectionAssumption
  <2>. QED BY <1>1, <2>2, TouchStep
<1>4. CASE Unlocked(t, call) /\ call.member \notin MembersThatLock
  <2>1. mMutex' = mMutex
    BY <1>4 DEF Unlocked
  <2>2. /\ mMutex' \in [Containers -> Threads \cup {Nobody}]
        /\ \A c \in Containers, u \in Threads \ {t} : mMutex[c] = u => mMutex'[c] = u
    BY <1>2, <2>1
  <2>. QED BY <1>1, <1>4, <2>2, TouchStep
<1>. QED BY <1>3, <1>4

LEMMA LookedStep ==
  ASSUME CollectionIInv, NEW t \in Threads, calls[t] # Idle, undefined = {}, calls[t].member = "TryAdd",
         Fresh(calls[t].key), Touches(t, [calls[t] EXCEPT !.writes = TRUE]), UNCHANGED <<contents, mMutex, history>>
  PROVE  CollectionIInv'
<1>. DEFINE call == [calls[t] EXCEPT !.writes = TRUE]
<1>1. CallRight(calls[t]) /\ mMutex[calls[t].container] = t /\ mMutex \in [Containers -> Threads \cup {Nobody}]
  BY DEF CollectionIInv, CallInv, MembersThatLock
<1>2. /\ call \in CallType /\ call.container = calls[t].container /\ call.member = "TryAdd" /\ call.key = calls[t].key
      /\ call.entry = calls[t].entry
  BY <1>1 DEF CallRight, CallType
<1>3. CallRight(call)
  <2>1. "TryAdd" \in MapMembers /\ calls[t].container = "ObjectList" /\ calls[t].entry \in Entries
    BY <1>1 DEF CallRight, MapMembers
  <2>. HIDE DEF call
  <2>. QED BY <1>2, <2>1 DEF CallRight
<1>4. Touches(t, call)
  OBVIOUS
<1>. HIDE DEF call
<1>. QED BY <1>1, <1>2, <1>3, <1>4, TouchStep DEF Fresh

\* A call returns.
LEMMA ReturnsStep ==
  ASSUME CollectionIInv, NEW t \in Threads, calls[t] # Idle, undefined = {}, Returns(t),
         ObjectList' = ObjectList \/ calls[t].container = "ObjectList"
  PROVE  CallInv' /\ ApartInv' /\ BlameInv' /\ FreshInv'
<1>1. calls' = [calls EXCEPT ![t] = Idle] /\ undefined' = {}
  BY DEF Returns
<1>2. calls'[t] = Idle /\ DOMAIN calls' = Threads /\ \A u \in Threads \ {t} : calls'[u] = calls[u]
  BY <1>1 DEF CollectionIInv, CallInv
<1>3. CallInv'
  <2>1. /\ mMutex' \in [Containers -> Threads \cup {Nobody}]
        /\ \A c \in Containers, u \in Threads \ {t} : mMutex[c] = u => mMutex'[c] = u
    BY DEF CollectionIInv, CallInv, Returns
  <2>2. \A u \in Threads : calls[u] = Idle \/ calls[u].container \in Containers
    BY DEF CollectionIInv, CallInv, CallRight, CallType
  <2>. QED BY <1>2, <2>1, <2>2 DEF CollectionIInv, CallInv
<1>4. ApartInv'
  BY <1>2 DEF CollectionIInv, ApartInv, Apart
<1>5. BlameInv'
  BY <1>1 DEF BlameInv
<1>6. FreshInv'
  <2>. SUFFICES ASSUME NEW u \in Threads \ {t}, calls[u] # Idle, calls[u].member = "TryAdd", calls[u].writes
                PROVE  calls[u].key \notin DOMAIN ObjectList'
    BY <1>2 DEF FreshInv
  <2>1. calls[u].container = "ObjectList"
    BY DEF CollectionIInv, CallInv, CallRight, MapMembers
  <2>2. calls[t].container # "ObjectList"
    BY <2>1 DEF CollectionIInv, ApartInv, Apart, Collides
  <2>. QED BY <2>2 DEF CollectionIInv, FreshInv
<1>. QED BY <1>3, <1>4, <1>5, <1>6

LEMMA InsertedStep ==
  ASSUME CollectionIInv, NEW t \in Threads, Inserted(t)
  PROVE  CollectionIInv'
<1>. DEFINE k == calls[t].key
            e == calls[t].entry
<1>1. calls[t] # Idle /\ calls[t].member = "TryAdd" /\ calls[t].writes /\ undefined = {} /\ Returns(t)
  BY DEF Inserted, Ends, Idle, CallOf
<1>2. k \in Keys /\ e \in Entries /\ calls[t].container = "ObjectList" /\ k \notin DOMAIN ObjectList
  BY <1>1 DEF CollectionIInv, CallInv, CallRight, CallType, MapMembers, FreshInv
<1>3. CallInv' /\ ApartInv' /\ BlameInv' /\ FreshInv'
  BY <1>1, <1>2, ReturnsStep
<1>4. /\ DOMAIN ObjectList' = DOMAIN ObjectList \cup {k} /\ ObjectList'[k] = e
      /\ \A j \in DOMAIN ObjectList : ObjectList'[j] = ObjectList[j]
  BY <1>2 DEF Inserted, InsertPair
<1>5. added' = [added EXCEPT ![k] = @ \cup {e}] /\ UNCHANGED <<TVect, pushed, defaulted>>
  BY DEF Inserted
<1>6. added[k] = {}
  BY <1>2 DEF CollectionIInv, MapInv
<1>7. added'[k] = {e} /\ \A j \in Keys \ {k} : added'[j] = added[j]
  BY <1>2, <1>5, <1>6 DEF CollectionIInv, ContentTypes
<1>8. ContentTypes'
  BY <1>5 DEF CollectionIInv, ContentTypes
<1>9. MapInv'
  <2>. HIDE DEF k, e
  <2>. QED BY <1>2, <1>4, <1>5, <1>7 DEF CollectionIInv, MapInv
<1>10. VectorInv'
  BY <1>5 DEF CollectionIInv, VectorInv
<1>. QED BY <1>3, <1>8, <1>9, <1>10 DEF CollectionIInv

LEMMA LookedAtStep ==
  ASSUME CollectionIInv, NEW t \in Threads, LookedAt(t)
  PROVE  CollectionIInv'
<1>. DEFINE k == calls[t].key
<1>1. calls[t] # Idle /\ calls[t].member = "subscript" /\ undefined = {} /\ Returns(t)
  BY DEF LookedAt, Ends, Idle, CallOf
<1>2. k \in Keys /\ calls[t].container = "ObjectList"
  BY <1>1 DEF CollectionIInv, CallInv, CallRight, CallType, MapMembers
<1>3. CallInv' /\ ApartInv' /\ BlameInv' /\ FreshInv'
  BY <1>1, <1>2, ReturnsStep
<1>4. /\ DOMAIN ObjectList' = DOMAIN ObjectList \cup {k}
      /\ \A j \in DOMAIN ObjectList : ObjectList'[j] = ObjectList[j]
      /\ defaulted' = IF k \notin DOMAIN ObjectList THEN defaulted \cup {k} ELSE defaulted
      /\ UNCHANGED <<TVect, added, pushed>>
  BY DEF LookedAt, InsertPair, Fresh
<1>5. MapInv'
  <2>. HIDE DEF k
  <2>. QED BY <1>2, <1>4 DEF CollectionIInv, MapInv
<1>6. VectorInv' /\ ContentTypes'
  BY <1>4 DEF CollectionIInv, VectorInv, ContentTypes
<1>. QED BY <1>3, <1>5, <1>6 DEF CollectionIInv

LEMMA ClearedStep ==
  ASSUME CollectionIInv, NEW t \in Threads, Cleared(t)
  PROVE  CollectionIInv'
<1>1. calls[t] # Idle /\ calls[t].member = "clear" /\ undefined = {} /\ Returns(t)
  BY DEF Cleared, Ends, Idle, CallOf
<1>2. calls[t].container = "ObjectList"
  BY <1>1 DEF CollectionIInv, CallInv, CallRight, MapMembers
<1>3. CallInv' /\ ApartInv' /\ BlameInv' /\ FreshInv'
  BY <1>1, <1>2, ReturnsStep
<1>4. MapInv' /\ VectorInv' /\ ContentTypes'
  BY DEF Cleared, CollectionIInv, MapInv, VectorInv, ContentTypes
<1>. QED BY <1>3, <1>4 DEF CollectionIInv

LEMMA VectorStep ==
  ASSUME CollectionIInv, NEW t \in Threads, Added(t) \/ Removed(t) \/ VectorCleared(t)
  PROVE  CollectionIInv'
<1>1. /\ calls[t] # Idle /\ calls[t].member \in {"Add", "RemoveAllBy", "vector_clear"}
      /\ undefined = {} /\ Returns(t) /\ UNCHANGED <<ObjectList, added, defaulted>>
  BY DEF Added, Removed, VectorCleared, Ends, Idle, CallOf
<1>2. CallInv' /\ ApartInv' /\ BlameInv' /\ FreshInv'
  BY <1>1, ReturnsStep
<1>3. MapInv'
  BY <1>1 DEF CollectionIInv, MapInv
<1>. DEFINE e == calls[t].entry
<1>4. TVect \in Seq(Entries) /\ \A x \in Entries : Cardinality(Positions(TVect, x)) = pushed[x]
  BY DEF CollectionIInv, VectorInv
<1>5. CASE Added(t)
  <2>1. e \in Entries /\ TVect' = Append(TVect, e) /\ pushed' = [pushed EXCEPT ![e] = @ + 1]
    BY <1>1, <1>5 DEF Added, Ends, CollectionIInv, CallInv, CallRight
  <2>. HIDE DEF e
  <2>2. ContentTypes'
    BY <1>1, <2>1 DEF CollectionIInv, ContentTypes
  <2>3. TVect' \in Seq(Entries)
    BY <1>4, <2>1
  <2>4. ASSUME NEW x \in Entries
        PROVE  Cardinality(Positions(TVect', x)) = pushed'[x]
    <3>1. /\ Cardinality(Positions(TVect, x)) \in Nat
          /\ Cardinality(Positions(TVect', x)) = Cardinality(Positions(TVect, x)) + IF e = x THEN 1 ELSE 0
      BY <1>4, <2>1, PositionsOfAppend
    <3>2. pushed'[x] = IF e = x THEN pushed[x] + 1 ELSE pushed[x]
      BY <2>1 DEF CollectionIInv, ContentTypes
    <3>. QED BY <1>4, <3>1, <3>2
  <2>. QED BY <1>2, <1>3, <2>2, <2>3, <2>4 DEF CollectionIInv, VectorInv, Positions
<1>6. CASE Removed(t)
  <2>1. e \in Entries /\ TVect' = Without(TVect, e) /\ pushed' = [pushed EXCEPT ![e] = 0]
    BY <1>1, <1>6 DEF Removed, Ends, CollectionIInv, CallInv, CallRight
  <2>. HIDE DEF e
  <2>2. ContentTypes'
    BY <1>1, <2>1 DEF CollectionIInv, ContentTypes
  <2>3. TVect' \in Seq(Entries)
    BY <1>4, <2>1, WithoutKeeps
  <2>4. ASSUME NEW x \in Entries
        PROVE  Cardinality(Positions(TVect', x)) = pushed'[x]
    <3>1. Cardinality(Positions(TVect', x)) = IF x = e THEN 0 ELSE Cardinality(Positions(TVect, x))
      BY <1>4, <2>1, WithoutKeeps
    <3>2. pushed'[x] = IF x = e THEN 0 ELSE pushed[x]
      BY <2>1 DEF CollectionIInv, ContentTypes
    <3>. QED BY <1>4, <3>1, <3>2
  <2>. QED BY <1>2, <1>3, <2>2, <2>3, <2>4 DEF CollectionIInv, VectorInv, Positions
<1>7. CASE VectorCleared(t)
  <2>1. TVect' = <<>> /\ pushed' = [x \in Entries |-> 0]
    BY <1>7 DEF VectorCleared
  <2>2. ContentTypes'
    BY <1>1, <2>1 DEF CollectionIInv, ContentTypes
  <2>3. \A x : Cardinality(Positions(<<>>, x)) = 0
    <3>1. \A x : Positions(<<>>, x) = {}
      BY DEF Positions
    <3>. QED BY <3>1, FS_EmptySet
  <2>. QED BY <1>2, <1>3, <2>1, <2>2, <2>3 DEF CollectionIInv, VectorInv, Positions
<1>. QED BY <1>5, <1>6, <1>7

LEMMA CollectionStepInv ==
  ASSUME CollectionIInv, [CollectionNext]_collectionVars
  PROVE  CollectionIInv'
<1>1. CASE UNCHANGED collectionVars
  BY <1>1 DEF collectionVars, contents, history, CollectionIInv, CallInv, ApartInv, BlameInv, FreshInv, MapInv,
              VectorInv, ContentTypes
<1>2. AKey \in Keys
  BY CollectionAssumption DEF AKey
<1>. USE DEF CallOf, MembersThatLock
<1>3. ASSUME NEW t \in Threads,
             \/ ContainsKey(t) \/ GetInfo(t) \/ print(t) \/ GetCount(t) \/ empty(t) \/ get(t)
             \/ Contains(t) \/ Find(t) \/ FindAll(t) \/ vector_size(t) \/ vector_get(t) \/ vector_print(t)
             \/ vector_print_to(t) \/ element(t)
      PROVE  CollectionIInv'
  <2>1. PICK member \in MapMembers \cup VectorMembers :
          /\ member \notin {"TryAdd", "clear", "subscript", "Add", "RemoveAllBy", "vector_clear"}
          /\ LET call == IF member \in MapMembers THEN Reading(member) ELSE ReadingVector(member) IN
               Locked(t, call) \/ (Unlocked(t, call) /\ member \notin MembersThatLock)
    BY <1>3 DEF ContainsKey, GetInfo, FindValue, print, GetCount, size, empty, get, Contains, Find, FindAll,
         vector_size, vector_get, vector_print, vector_print_to, element, MapMembers, VectorMembers,
         Reading, ReadingVector
  <2>. DEFINE call == IF member \in MapMembers THEN Reading(member) ELSE ReadingVector(member)
  <2>2. CallRight(call) /\ call.member = member
    BY <1>2, <2>1 DEF CallRight, CallType, Reading, ReadingVector, Containers
  <2>. HIDE DEF call
  <2>. QED BY <2>1, <2>2, EnterStep DEF call
<1>4. ASSUME NEW t \in Threads, NEW k \in Keys, Subscript(t, k)
      PROVE  CollectionIInv'
  <2>. DEFINE call == CallOf("ObjectList", "subscript", k, NoEntry, Fresh(k))
  <2>1. CallRight(call) /\ call.member = "subscript"
    BY DEF CallRight, CallType, Containers, MapMembers, Fresh
  <2>2. Unlocked(t, call)
    BY <1>4 DEF Subscript
  <2>. HIDE DEF call
  <2>. QED BY <2>1, <2>2, EnterStep
<1>5. ASSUME NEW t \in Threads, NEW k \in Keys, NEW e \in Entries, AddClient(t, k, e)
      PROVE  CollectionIInv'
  <2>. DEFINE call == CallOf("ObjectList", "TryAdd", k, e, FALSE)
  <2>1. CallRight(call) /\ ~call.writes
    BY DEF CallRight, CallType, Containers, MapMembers
  <2>2. Locked(t, call)
    BY <1>5 DEF AddClient, TryAdd
  <2>. HIDE DEF call
  <2>. QED BY <2>1, <2>2, EnterStep
<1>6. ASSUME NEW t \in Threads, NEW e \in Entries, Add(t, e) \/ RemoveAllBy(t, e)
      PROVE  CollectionIInv'
  <2>1. PICK member \in {"Add", "RemoveAllBy"} : Locked(t, CallOf("TVect", member, AKey, e, TRUE))
    BY <1>6 DEF Add, RemoveAllBy
  <2>. DEFINE call == CallOf("TVect", member, AKey, e, TRUE)
  <2>2. CallRight(call) /\ call.member # "TryAdd"
    BY <1>2, <2>1 DEF CallRight, CallType, Containers, MapMembers, VectorMembers
  <2>. HIDE DEF call
  <2>. QED BY <2>1, <2>2, EnterStep DEF call
<1>7. ASSUME NEW t \in Threads, map_clear(t) \/ vector_clear(t)
      PROVE  CollectionIInv'
  <2>1. PICK c \in Containers : Unlocked(t, CallOf(c, IF c = "TVect" THEN "vector_clear" ELSE "clear", AKey, NoEntry, TRUE))
    BY <1>7 DEF map_clear, vector_clear, Containers
  <2>. DEFINE call == CallOf(c, IF c = "TVect" THEN "vector_clear" ELSE "clear", AKey, NoEntry, TRUE)
  <2>2. CallRight(call) /\ call.member \in {"clear", "vector_clear"}
    BY <1>2, <2>1 DEF CallRight, CallType, Containers, MapMembers, VectorMembers
  <2>. HIDE DEF call
  <2>. QED BY <2>1, <2>2, EnterStep DEF call
<1>8. ASSUME NEW t \in Threads, calls[t] # Idle, undefined = {}, Returns(t), UNCHANGED <<contents, history>>
      PROVE  CollectionIInv'
  <2>1. ObjectList' = ObjectList
    BY <1>8 DEF contents
  <2>2. CallInv' /\ ApartInv' /\ BlameInv' /\ FreshInv'
    BY <1>8, <2>1, ReturnsStep
  <2>3. MapInv' /\ VectorInv' /\ ContentTypes'
    BY <1>8 DEF contents, history, CollectionIInv, MapInv, VectorInv, ContentTypes
  <2>. QED BY <2>2, <2>3 DEF CollectionIInv
<1>9. ASSUME NEW t \in Threads, Answers(t) \/ Looked(t)
      PROVE  CollectionIInv'
  <2>1. CASE Answers(t)
    BY <1>8, <2>1 DEF Answers
  <2>2. CASE Looked(t)
    <3>1. calls[t] # Idle /\ calls[t].member = "TryAdd" /\ undefined = {}
      BY <2>2 DEF Looked, Ends, Idle
    <3>2. CASE Fresh(calls[t].key)
      BY <2>2, <3>1, <3>2, LookedStep DEF Looked
    <3>3. CASE ~Fresh(calls[t].key)
      BY <1>8, <2>2, <3>1, <3>3 DEF Looked
    <3>. QED BY <3>2, <3>3
  <2>. QED BY <1>9, <2>1, <2>2
<1>. QED BY <1>1, <1>3, <1>4, <1>5, <1>6, <1>7, <1>9, InsertedStep, LookedAtStep, ClearedStep, VectorStep
         DEF CollectionNext

\* However many threads use a collection at once: what goes wrong has a call of
\* a member that does not lock in it; until then TryAdd returns true for one
\* entry of a key, which stays, and the vector has what was added to it.
THEOREM CollectionsKeep == CollectionSpec => []KeepsWhatWasAdded
<1>1. CollectionIInv => KeepsWhatWasAdded
  BY DEF CollectionIInv, BlameInv, MapInv, VectorInv, Positions, KeepsWhatWasAdded
<1>. QED BY <1>1, CollectionInitInv, CollectionStepInv, PTL DEF CollectionSpec
=============================================================================
