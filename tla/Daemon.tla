------------------------------- MODULE Daemon -------------------------------
(***************************************************************************)
(* How the daemon starts, runs and stops: main, the order in which         *)
(* MainDaemon initializes and finalizes the parts, signals, death at any   *)
(* moment, and what outlives a process.                                    *)
(*                                                                         *)
(* The main thread is one sequence of steps; a signal handler runs between *)
(* any two of them.  The handler allocates, logs, reads a file and may     *)
(* create the MainDaemon, none of which is safe in a handler: when it      *)
(* interrupts the main thread at work, the process may hang in it.         *)
(*                                                                         *)
(* A definition marked "variant" is the one after it with a mistake in it. *)
(***************************************************************************)
EXTENDS Integers, Sequences

CONSTANT MaxStarts    \* bound on the processes of one boot

ASSUME StartsAssumption == MaxStarts \in Nat \ {0}

VARIABLES
    stage,       \* what main is in, "down" when there is no process
    todo,        \* parts that initialize or finalize has still to go through
    busy,        \* the loop is in a callback, not in poll
    stuck,       \* the main thread hangs in the signal handler
    caught,      \* signals that have the handler
    quitting,    \* g_main_loop_quit has reached the loop that runs
    asked,       \* a signal to stop has come while the loop runs (history)
    respawned,   \* ConfFile::m_isRespawned
    database,    \* state of Database::m_database and m_statements
    handle,      \* LunaClient::s_mainHandle is set
    deferred,    \* LunaClient::s_deferred
    subscribed,  \* client -> its registrations with registerServerStatus
    sets,        \* clients whose search set SearchManager knows
    mark,        \* the file of getRespawnedPath exists
    marks,       \* processes of this boot that have made it (history)
    starts       \* processes of this boot (history)

main    == <<stage, todo, caught>>
signals == <<stuck, quitting, asked>>
parts   == <<respawned, database, handle, deferred, subscribed, sets>>
boot    == <<mark, marks, starts>>
vars    == <<main, busy, signals, parts, boot>>

\* (variant: the database comes after those who use it)
InitOrderDatabaseLast == <<"ConfFile", "respawnMark", "UnifiedSearch", "SettingService",
                           "SAM", "SearchManager", "Database">>

\* (variant: the mark is made before it is looked for)
InitOrderMarkFirst == <<"respawnMark", "ConfFile", "Database", "UnifiedSearch",
                        "SettingService", "SAM", "SearchManager">>

\* MainDaemon::initialize; ConfFile looks for the mark before it makes it.
InitOrder == <<"ConfFile", "respawnMark", "Database", "UnifiedSearch", "SettingService",
               "SAM", "SearchManager">>

\* MainDaemon::finalize, less ConfFile, which has nothing to do.
FinalOrder == <<"SearchManager", "SAM", "SettingService", "Database">>

Parts   == {InitOrder[i] : i \in DOMAIN InitOrder}
Clients == {"SettingService", "SAM", "DB8"}

\* Signals by what the handler does with them, and those that are not caught.
Ignored  == "HUP, INT, PIPE"
Stopping == "TERM, QUIT, ABRT, FPE"
Signals  == {Ignored, Stopping}

TypeOK ==
    /\ stage \in {"down", "main", "initialize", "loop", "finalize"}
    /\ todo \in Seq(Parts) /\ Len(todo) <= Len(InitOrder)
    /\ {busy, stuck, quitting, asked, respawned, handle, mark} \subseteq BOOLEAN
    /\ caught \subseteq Signals
    /\ database \in {"none", "ready", "unprepared", "dangling", "closed"}
    /\ deferred \subseteq Clients
    /\ subscribed \in [Clients -> 0..2]
    /\ sets \subseteq Clients
    /\ {marks, starts} \subseteq 0..MaxStarts

Init ==
    /\ stage = "down" /\ todo = <<>> /\ caught = {}
    /\ busy = FALSE /\ stuck = FALSE /\ quitting = FALSE /\ asked = FALSE
    /\ respawned = FALSE /\ database = "none"
    /\ handle = FALSE /\ deferred = {} /\ subscribed = [c \in Clients |-> 0] /\ sets = {}
    /\ mark = FALSE /\ marks = 0 /\ starts = 0

-----------------------------------------------------------------------------
(* The parts                                                               *)

\* Clients register for the status of their service; SAM adds its search set then.
Register(clients) ==
    /\ subscribed' = [c \in Clients |-> subscribed[c] + (IF c \in clients THEN 1 ELSE 0)]
    /\ deferred' = deferred \ clients

\* (variant: a client that was deferred goes on)
ReadyAlways == TRUE

Ready == handle

\* LunaClient::initialize: without a main handle the client is put off.
InitializeClient(c) ==
    IF Ready THEN Register({c}) ELSE deferred' = deferred \cup {c} /\ UNCHANGED subscribed

\* LunaClient::setMainHandle: the first handle stays, and those who were put off go on.
SetMainHandle ==
    IF handle THEN UNCHANGED <<handle, deferred, subscribed>>
    ELSE handle' = TRUE /\ Register(deferred)

\* File::isFile and File::createFile, of the mark; a file may be impossible to open.
IsFile     == mark
CreateFile == \/ mark' = TRUE /\ marks' = marks + 1
              \/ UNCHANGED <<mark, marks>>

\* Whether an earlier process of this boot got as far as here.  The two JSON files
\* that are read before it say at most where the mark is.
InitializeConfFile ==
    /\ respawned' = IsFile
    /\ UNCHANGED <<database, handle, deferred, subscribed, sets, boot>>

\* The first one leaves the mark, if it can be written.
InitializeMark ==
    /\ IF respawned THEN UNCHANGED <<mark, marks>> ELSE CreateFile
    /\ UNCHANGED <<parts, starts>>

\* A database that does not open is closed, and its handle kept; tables or statements
\* may fail to be made; MainDaemon goes on whatever comes of it.
InitializeDatabase ==
    /\ database' \in {"ready", "unprepared", "dangling"}
    /\ UNCHANGED <<respawned, handle, deferred, subscribed, sets, boot>>

\* The service attaches to the loop and becomes the main handle; when it cannot attach,
\* nobody hears of it.  When it cannot register its name, the process ends: Crash.
InitializeUnifiedSearch ==
    /\ SetMainHandle \/ UNCHANGED <<handle, deferred, subscribed>>
    /\ UNCHANGED <<respawned, database, sets, boot>>

InitializeSettingService ==
    /\ InitializeClient("SettingService")
    /\ UNCHANGED <<respawned, database, handle, sets, boot>>

InitializeSAM ==
    /\ InitializeClient("SAM")
    /\ sets' = IF Ready THEN sets \cup {"SAM"} ELSE sets
    /\ UNCHANGED <<respawned, database, handle, boot>>

\* create_plugin makes the source with the client of DB8; then its search set is added.
LoadPlugin == InitializeClient("DB8") /\ sets' = sets \cup {"DB8"}

\* The media plugin is there and can be loaded, or it is passed over.
InitializeSearchManager ==
    /\ LoadPlugin \/ UNCHANGED <<deferred, subscribed, sets>>
    /\ UNCHANGED <<respawned, database, handle, boot>>

\* (variant: a registration is ended whether there is one or not)
FinalizeClientUnchecked(c) ==
    /\ subscribed' = [subscribed EXCEPT ![c] = @ - 1]
    /\ UNCHANGED <<respawned, database, handle, deferred, sets, boot>>

\* Each client that main finalizes ends its registration; DB8 is not among them.
FinalizeClient(c) ==
    /\ subscribed' = [subscribed EXCEPT ![c] = 0]
    /\ UNCHANGED <<respawned, database, handle, deferred, sets, boot>>

FinalizeDatabase ==
    /\ database' = "closed"
    /\ UNCHANGED <<respawned, handle, deferred, subscribed, sets, boot>>

\* The plugin is closed, and its search set stays where it is.
FinalizeSearchManager == UNCHANGED <<parts, boot>>

InitializePart ==
    \/ Head(todo) = "ConfFile"       /\ InitializeConfFile
    \/ Head(todo) = "respawnMark"    /\ InitializeMark
    \/ Head(todo) = "Database"       /\ InitializeDatabase
    \/ Head(todo) = "UnifiedSearch"  /\ InitializeUnifiedSearch
    \/ Head(todo) = "SettingService" /\ InitializeSettingService
    \/ Head(todo) = "SAM"            /\ InitializeSAM
    \/ Head(todo) = "SearchManager"  /\ InitializeSearchManager

FinalizePart ==
    \/ Head(todo) \in Clients       /\ FinalizeClient(Head(todo))
    \/ Head(todo) = "Database"      /\ FinalizeDatabase
    \/ Head(todo) = "SearchManager" /\ FinalizeSearchManager

-----------------------------------------------------------------------------
(* main                                                                    *)

Start ==
    /\ stage = "down" /\ starts < MaxStarts
    /\ stage' = "main" /\ starts' = starts + 1
    /\ UNCHANGED <<todo, caught, busy, signals, parts, mark, marks>>

CatchIgnored ==
    /\ stage = "main" /\ caught = {}
    /\ caught' = {Ignored}
    /\ UNCHANGED <<stage, todo, busy, signals, parts, boot>>

CatchStopping ==
    /\ stage = "main" /\ caught = {Ignored}
    /\ caught' = Signals
    /\ UNCHANGED <<stage, todo, busy, signals, parts, boot>>

BeginInitialize ==
    /\ stage = "main" /\ caught = Signals
    /\ stage' = "initialize" /\ todo' = InitOrder
    /\ UNCHANGED <<caught, busy, signals, parts, boot>>

Initialize ==
    /\ stage = "initialize" /\ todo # <<>>
    /\ todo' = Tail(todo)
    /\ InitializePart
    /\ UNCHANGED <<stage, caught, busy, signals>>

\* g_main_loop_run sets is_running, so a quit before it is forgotten.
Run ==
    /\ stage = "initialize" /\ todo = <<>>
    /\ stage' = "loop"
    /\ UNCHANGED <<todo, caught, busy, signals, parts, boot>>

\* poll returns, for an event or interrupted by a signal.
Wake ==
    /\ stage = "loop" /\ ~busy
    /\ busy' = TRUE
    /\ UNCHANGED <<main, signals, parts, boot>>

\* The end of an iteration: the loop looks whether it shall go on.
EndIteration ==
    /\ stage = "loop" /\ busy
    /\ busy' = FALSE
    /\ IF quitting THEN stage' = "finalize" /\ todo' = FinalOrder
                   ELSE UNCHANGED <<stage, todo>>
    /\ UNCHANGED <<caught, signals, parts, boot>>

Finalize ==
    /\ stage = "finalize" /\ todo # <<>>
    /\ todo' = Tail(todo)
    /\ FinalizePart
    /\ UNCHANGED <<stage, caught, busy, signals>>

Gone ==
    /\ stage' = "down" /\ todo' = <<>> /\ caught' = {}
    /\ busy' = FALSE /\ stuck' = FALSE /\ quitting' = FALSE /\ asked' = FALSE
    /\ respawned' = FALSE /\ database' = "none"
    /\ handle' = FALSE /\ deferred' = {} /\ subscribed' = [c \in Clients |-> 0] /\ sets' = {}

Exit ==
    /\ stage = "finalize" /\ todo = <<>>
    /\ Gone
    /\ UNCHANGED boot

\* What main does by itself; an event in the loop is none of its doing.
Main ==
    /\ ~stuck
    /\ \/ CatchIgnored \/ CatchStopping \/ BeginInitialize \/ Initialize \/ Run
       \/ quitting /\ Wake
       \/ EndIteration \/ Finalize \/ Exit

-----------------------------------------------------------------------------
(* Signals, death and reboot                                               *)

\* (variant: every signal is ignored)
StopsNever(s) == FALSE

\* signal_handler calls stop for all but the ignored ones.
Stops(s) == s \notin {Ignored}

\* g_main_loop_quit does nothing lasting unless the loop runs.
Handle(s) ==
    /\ asked' = (asked \/ (s = Stopping /\ stage = "loop"))
    /\ quitting' = (quitting \/ (Stops(s) /\ stage = "loop"))
    /\ UNCHANGED <<main, stuck, busy, parts, boot>>

Hang ==
    /\ stage # "loop" \/ busy
    /\ stuck' = TRUE
    /\ UNCHANGED <<main, busy, quitting, asked, parts, boot>>

Signal(s) ==
    /\ stage # "down"
    /\ \/ s \notin caught /\ Gone /\ UNCHANGED boot
       \/ s \in caught /\ ~stuck /\ (Handle(s) \/ Hang)

\* Killed, or the end of a program error or of an exception nobody catches.
Crash ==
    /\ stage # "down"
    /\ Gone
    /\ UNCHANGED boot

\* /tmp, where the mark is, does not outlive the system.
Reboot ==
    /\ Gone
    /\ mark' = FALSE /\ marks' = 0 /\ starts' = 0

Next ==
    \/ Main
    \/ Start
    \/ ~stuck /\ Wake
    \/ \E s \in Signals : Signal(s)
    \/ Crash
    \/ Reboot

\* The scheduler runs the process: whatever main can do, it does.
Fairness == WF_vars(Main)

Spec == Init /\ [][Next]_vars /\ Fairness

-----------------------------------------------------------------------------

\* Nobody writes to the tables before there was an attempt to open them or after they
\* are closed: not when a search set is added, which registers its categories, and not
\* from a callback of the loop (MainDaemon.cpp 43-62, SearchManager.cpp 59-63).
DatabaseWhileUsed ==
    /\ sets # {} => database # "none"
    /\ busy => database \notin {"none", "closed"}
    /\ database = "closed" => subscribed["SAM"] = 0 /\ subscribed["SettingService"] = 0

\* Each client that exists is registered once and has its search set, or, when the
\* service could not attach, none is and all are put off for good: there is no third
\* way, whenever the loop runs (LunaClient.cpp 79-97, 154-168, UnifiedSearch.cpp 44-52).
AllOrNobody ==
    stage = "loop" =>
        LET clients == {"SettingService", "SAM"} \cup (sets \cap {"DB8"})
        IN  IF handle
            THEN /\ deferred = {} /\ "SAM" \in sets
                 /\ \A c \in Clients : subscribed[c] = IF c \in clients THEN 1 ELSE 0
            ELSE /\ deferred = clients /\ "SAM" \notin sets
                 /\ \A c \in Clients : subscribed[c] = 0

\* At most one process of a boot takes itself for the first and says so, and the ones
\* that know they are respawned come after it (ConfFile.cpp 29-45).
RespawnedComesLater ==
    /\ marks <= 1
    /\ respawned => marks = 1 /\ starts > 1

\* A signal to stop that finds the loop running ends the process, whatever other
\* signals and events come, unless one of them hangs it (Main.cpp 53-60,
\* MainDaemon.cpp 64-75).
StopEnds == asked ~> (stage = "down" \/ stuck)

\* "we don't change the default action" (Main.cpp 78) of the signals that stop: they
\* would end the process, whenever they come.  Before the loop runs they do not, nor
\* do they later: quit is forgotten when the loop is started.
DefaultActionKept ==
    [][\A s \in {Stopping} : stage \in {"initialize", "finalize"} /\ Signal(s)
                                => stage' = "down"]_vars
=============================================================================
