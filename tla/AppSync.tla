------------------------------ MODULE AppSync ------------------------------
(***************************************************************************)
(* Keeping the search database in step with the installed applications.    *)
(*                                                                         *)
(* SAM.cpp subscribes to the application manager's listApps: a whole list  *)
(* first, then "added" and "removed" changes.  It rebuilds the sam.apps    *)
(* items (Applications.cpp), registers one category for each application   *)
(* that brings a search index (AppContents.cpp, SearchSet.cpp) and writes  *)
(* the Category table through SearchManager.cpp and Database.cpp.          *)
(* SettingService.cpp resubscribes half a second after a locale change.    *)
(* The daemon may die at any moment; the database stays.                   *)
(*                                                                         *)
(* The daemon is single-threaded.  The handler of a whole list is one step *)
(* for each application of the list, so that it can die half way through;  *)
(* no other handler runs in between.  Any statement that writes the table  *)
(* may fail, and is not repeated.  A definition marked "variant" is the    *)
(* one after it with a mistake in it, as in CategoryTable.                 *)
(***************************************************************************)
EXTENDS CategoryTable, Sequences, SequencesExt

CONSTANTS
    Apps,        \* application ids; also the ids of their own categories
    Visible,     \* applications not marked "visible": false
    Indexed,     \* web applications with a searchIndex
    Readable,    \* those whose index and labels can be read
    SamApps,     \* the category of all applications, "sam.apps"
    Audio,       \* the category of the media plugin, "mediaindexer.audio"
    Titles,      \* titles of applications; one locale for each
    BuiltinName, \* the name of a built-in category
    NameInputs,  \* names a client of updateCategory may send, NoName for none
    RankInputs,  \* ranks it may send
    MaxQueue,    \* bound on undelivered application manager messages
    MaxStatus,   \* bound on undelivered server status messages
    MaxLocale,   \* bound on undelivered locale changes and reload timers
    MaxFaults    \* bound on failing statements

Categories == Indexed \cup {SamApps, Audio}
Names == Titles \cup {BuiltinName}

ASSUME AppsAssumption == Visible \subseteq Apps /\ Indexed \subseteq Apps /\ Readable \subseteq Indexed
ASSUME FiniteAssumption == IsFiniteSet(Apps)
ASSUME BuiltinsAssumption == SamApps \notin Apps /\ Audio \notin Apps
ASSUME RankAssumption ==
    RankMax \in Nat /\ Cardinality(Categories) < RankMax /\ RankInputs \subseteq Int
ASSUME NameAssumption == NoName \notin Names /\ NameInputs \subseteq Names \cup {NoName}
ASSUME BoundAssumption == {MaxQueue, MaxStatus, MaxLocale, MaxFaults} \subseteq Nat

VARIABLES
    \* the database, which outlives the daemon
    rows,       \* the Category table
    listed,     \* app -> how many sam.apps items it has
    indexed,    \* applications whose own items are in the Items table
    faults,     \* statements that have failed
    \* the daemon
    phase,      \* "down", "starting" or "running"
    cats,       \* the categories of its search sets: what SearchManager finds
    connected,  \* m_isConnected of the application manager's client
    handling,   \* applications of the list being handled that are still to do
    heard,      \* m_localeInfo of the settings client, NoName at first
    timers,     \* reload timers running
    \* the bus and the services behind it
    sub,        \* m_listAppsCall: "none", "asked", "live" or "lost"
    queue,      \* messages to onListApps
    statusQ,    \* messages to _onServerStatus
    settings,   \* messages to onLocaleChanged
    svc,        \* the application manager runs
    installed,
    locale

dbVars   == <<rows, listed, indexed, faults>>
busVars  == <<sub, queue, statusQ, settings>>
envVars  == <<svc, installed, locale>>
selfVars == <<phase, cats, connected, handling, heard, timers>>
vars     == <<dbVars, selfVars, busVars, envVars>>

AppEntry == [id : Apps, title : Titles]

\* What onListApps is sent: the whole list, or one change.
Message == [kind : {"list"}, apps : Seq(AppEntry)]
           \cup [kind : {"added", "removed"}, app : AppEntry]

TypeOK ==
    /\ DOMAIN rows \subseteq Categories
    /\ rows \in [DOMAIN rows -> Row(Names)]
    /\ listed \in [Apps -> Nat] /\ indexed \subseteq Readable /\ faults \in 0..MaxFaults
    /\ phase \in {"down", "starting", "running"} /\ connected \in BOOLEAN
    /\ DOMAIN cats \subseteq Categories
    /\ cats \in [DOMAIN cats -> Row(Names)]
    /\ handling \in Seq(AppEntry)
    /\ heard \in Titles \cup {NoName} /\ timers \in 0..MaxLocale
    /\ sub \in {"none", "asked", "live", "lost"}
    /\ queue \in Seq(Message) /\ statusQ \in Seq(BOOLEAN) /\ settings \in Seq(Titles)
    /\ svc \in BOOLEAN /\ installed \subseteq Apps /\ locale \in Titles

-----------------------------------------------------------------------------
(* SearchSet and SearchManager                                             *)

\* (variant: the category stays on, whatever its row says)
RegisteredEnabled(registry, table, id) ==
    [i \in DOMAIN registry \cup {id} |->
        IF i = id THEN [table[id] EXCEPT !.enabled = TRUE] ELSE registry[i]]

\* A new category takes over the row it gets or already has.
Registered(registry, table, id) ==
    [i \in DOMAIN registry \cup {id} |->
        IF i = id THEN table[id] ELSE registry[i]]

\* Writes end in one of the results; those that failed are counted.
Fails(oks) ==
    LET failed == Cardinality({k \in DOMAIN oks : ~oks[k]})
    IN  faults + failed <= MaxFaults /\ faults' = faults + failed

\* (variant: a new row gets the rank the category has in memory)
AdjustOrCreateUnranked(id, name, ok) ==
    LET table == IF id \in DOMAIN rows THEN rows
                 ELSE [i \in DOMAIN rows \cup {id} |->
                          IF i = id THEN [rank |-> 0, enabled |-> TRUE, name |-> name]
                          ELSE rows[i]]
    IN  /\ Fails(<<ok>>)
        /\ rows' = IF ok THEN table ELSE rows
        /\ cats' = Registered(cats, table, id)

\* categoryAdded: the category is given the row it would have even when the insert
\* fails, and stays.
AdjustOrCreateCategory(id, name, ok) ==
    LET table == AdjustOrCreate(rows, id, name)
    IN  /\ Fails(<<ok>>)
        /\ rows' = IF ok THEN table ELSE rows
        /\ cats' = Registered(cats, table, id)

\* SearchSet::addCategory refuses an id it holds.
AddCategory(id, name) ==
    IF id \in DOMAIN cats THEN UNCHANGED <<cats, rows, faults>>
    ELSE \E ok \in BOOLEAN : AdjustOrCreateCategory(id, name, ok)

\* SearchSet::removeCategory ignores an id it does not hold.
RemoveCategory(id) ==
    IF id \notin DOMAIN cats THEN UNCHANGED <<cats, rows>>
    ELSE /\ cats' = [i \in DOMAIN cats \ {id} |-> cats[i]]
         /\ rows' = DeleteRow(rows, id)

-----------------------------------------------------------------------------
(* SAM: the handlers of the subscription                                   *)

\* insertItem always adds: the Items table has no key.
Inserted(id) == [listed EXCEPT ![id] = @ + 1]

\* Applications::addToDatabase inserts an item, unless it is not visible.
AddToDatabase(id) == listed' = IF id \in Visible THEN Inserted(id) ELSE listed

RemoveFromDatabase(id) == listed' = [listed EXCEPT ![id] = 0]

\* (variant: the items of an index that cannot be read count as indexed)
IndexedUnread(id) == indexed \cup {id}

\* (variant: an application that is indexed already is only erased)
IndexedToggling(id) == IF id \in Readable \ indexed THEN indexed \cup {id} ELSE indexed \ {id}

\* An AppContents erases the items of its category, then reads the index anew; an
\* index or labels that cannot be read leave it without any.
IndexesCreated(id) == IF id \in Readable THEN indexed \cup {id} ELSE indexed \ {id}

\* (variant: an application that is indexed already is passed over)
AddNewContents(app) ==
    IF app.id \in Indexed \ indexed
      THEN /\ indexed' = IndexesCreated(app.id)
           /\ AddCategory(app.id, app.title)
      ELSE UNCHANGED <<indexed, rows, cats, faults>>

\* addAppContents: the AppContents made for it re-indexes it before the search
\* set is asked whether it wants the category.
AddAppContents(app) ==
    IF app.id \in Indexed
      THEN /\ indexed' = IndexesCreated(app.id)
           /\ AddCategory(app.id, app.title)
      ELSE UNCHANGED <<indexed, rows, cats, faults>>

\* A category that is known gets its new name, and is written to the database
\* as it is in memory, whatever comes of that.
RefreshCategory(app) ==
    LET category == [cats[app.id] EXCEPT !.name = app.title]
    IN  /\ cats' = [cats EXCEPT ![app.id] = category]
        /\ \E shiftOk, writeOk \in BOOLEAN :
              /\ Fails(<<shiftOk, writeOk>>)
              /\ rows' = Updated(rows, app.id, category.rank, category.enabled,
                                 category.name, shiftOk, writeOk)
        /\ UNCHANGED indexed

\* (variant: the old items stay)
KeptItems == listed

\* removeItem of the whole sam.apps category.
NoItems == [id \in Apps |-> 0]

Idle == phase = "running" /\ handling = <<>>

Receives(kind) == Idle /\ queue # <<>> /\ Head(queue).kind = kind

\* A list: all sam.apps items go before the first one is added.
BeginList ==
    /\ Receives("list")
    /\ listed' = NoItems
    /\ handling' = Head(queue).apps
    /\ queue' = Tail(queue)
    /\ UNCHANGED <<rows, indexed, faults, phase, cats, connected, heard, timers,
                   sub, statusQ, settings, envVars>>

ListOne ==
    /\ phase = "running" /\ handling # <<>>
    /\ LET app == Head(handling)
       IN  /\ AddToDatabase(app.id)
           /\ IF app.id \in DOMAIN cats THEN RefreshCategory(app)
              ELSE AddAppContents(app)
    /\ handling' = Tail(handling)
    /\ UNCHANGED <<phase, connected, heard, timers, busVars, envVars>>

Added ==
    /\ Receives("added")
    /\ AddToDatabase(Head(queue).app.id)
    /\ AddAppContents(Head(queue).app)
    /\ queue' = Tail(queue)
    /\ UNCHANGED <<phase, connected, handling, heard, timers,
                   sub, statusQ, settings, envVars>>

Removed ==
    /\ Receives("removed")
    /\ LET id == Head(queue).app.id
       IN  /\ RemoveFromDatabase(id)
           /\ RemoveCategory(id)
    /\ queue' = Tail(queue)
    /\ UNCHANGED <<indexed, faults, phase, connected, handling, heard, timers,
                   sub, statusQ, settings, envVars>>

-----------------------------------------------------------------------------
(* SAM: the subscription itself                                            *)

\* A request to a service that is not there is answered with an error.
Subscribe == sub' = (IF svc THEN "asked" ELSE "lost") /\ queue' = <<>>
Cancel    == sub' = "none" /\ queue' = <<>>

StatusChanged ==
    /\ Idle /\ statusQ # <<>>
    /\ connected' = Head(statusQ)
    /\ IF Head(statusQ) THEN Subscribe ELSE Cancel
    /\ statusQ' = Tail(statusQ)
    /\ UNCHANGED <<dbVars, phase, cats, handling, heard, timers, settings, envVars>>

\* (variant: the subscription is cancelled and not asked for again)
ReloadWithoutSubscribing ==
    /\ Idle /\ timers > 0
    /\ timers' = timers - 1
    /\ IF connected THEN Cancel ELSE UNCHANGED <<sub, queue>>
    /\ UNCHANGED <<dbVars, phase, cats, connected, handling, heard, statusQ,
                   settings, envVars>>

ReloadAppsByLocaleChange ==
    /\ Idle /\ timers > 0
    /\ timers' = timers - 1
    /\ IF connected THEN Subscribe ELSE UNCHANGED <<sub, queue>>
    /\ UNCHANGED <<dbVars, phase, cats, connected, handling, heard, statusQ,
                   settings, envVars>>

\* SettingService::updateLocaleInfo: the first locale heard starts no timer.
LocaleChanged ==
    /\ Idle /\ settings # <<>>
    /\ LET new == Head(settings)
       IN  /\ heard' = new
           /\ timers' = IF heard \notin {NoName, new} THEN timers + 1 ELSE timers
    /\ settings' = Tail(settings)
    /\ UNCHANGED <<dbVars, phase, cats, connected, handling, sub, queue, statusQ,
                   envVars>>

-----------------------------------------------------------------------------
(* UnifiedSearch: the updateCategory method                                *)

\* (variant: memory is forgotten)
NotApplied(id, enabled, done) == cats

\* SearchManager::findCategory
Registers(id) == id \in DOMAIN cats

\* Memory follows when the database call worked, and only in the enabled flag.
Applied(id, enabled, done) ==
    IF done /\ Registers(id) THEN [cats EXCEPT ![id].enabled = enabled] ELSE cats

\* A request that disables has no rank, and RANK_MAX stands in, or 0 for a rank that
\* was no integer.
UpdateCategory(id, rank, enabled, name) ==
    /\ Idle
    /\ enabled \/ rank \in {0, RankMax}
    /\ \E shiftOk, writeOk \in BOOLEAN :
          /\ Fails(<<shiftOk, writeOk>>)
          /\ rows' = Updated(rows, id, rank, enabled, name, shiftOk, writeOk)
          /\ cats' = Applied(id, enabled, Found(rows, id) /\ writeOk)
    /\ UNCHANGED <<listed, indexed, phase, connected, handling, heard, timers,
                   busVars, envVars>>

-----------------------------------------------------------------------------
(* UnifiedSearch: what a search shows that every item matches              *)

\* Database::search finds the items of a category, registered or not.
HasItems(id) ==
    IF id = SamApps THEN \E app \in Apps : listed[app] > 0 ELSE id \in indexed

\* SearchManager makes intents of the items whose category it finds on in memory.
Intents == {id \in DOMAIN cats : cats[id].enabled /\ HasItems(id)}

\* The response has the categories that are on in the database.
Results == Intents \cap EnabledIds(rows)

-----------------------------------------------------------------------------
(* MainDaemon: start and death                                             *)

\* The Applications object empties sam.apps.
ApplicationsMade == listed' = NoItems

\* SAM::onInitialzed: its search set is added with the category in it.
SearchSetAdded == \E ok \in BOOLEAN : AdjustOrCreateCategory(SamApps, BuiltinName, ok)

\* LunaClient::initialize: the bus tells the status of the service at once ...
RegisterServerStatus == statusQ' = <<svc>>

\* ... and so the settings client, whose service is taken to be there, subscribes.
SubscribeSettings == settings' = <<locale>>

\* MainDaemon::initialize up to SAM.
Start ==
    /\ phase = "down"
    /\ phase' = "starting"
    /\ ApplicationsMade /\ SearchSetAdded
    /\ RegisterServerStatus /\ SubscribeSettings
    /\ UNCHANGED <<indexed, connected, handling, heard, timers, sub, queue, envVars>>

\* ... then SearchManager loads the media plugin, and the main loop runs.
LoadPlugins ==
    /\ phase = "starting"
    /\ phase' = "running"
    /\ AddCategory(Audio, BuiltinName)
    /\ UNCHANGED <<listed, indexed, connected, handling, heard, timers, busVars, envVars>>

\* Everything but the database is gone.
Crash ==
    /\ phase # "down"
    /\ phase' = "down" /\ cats' = EmptyTable /\ connected' = FALSE
    /\ handling' = <<>> /\ heard' = NoName /\ timers' = 0
    /\ sub' = "none" /\ queue' = <<>> /\ statusQ' = <<>> /\ settings' = <<>>
    /\ UNCHANGED <<dbVars, envVars>>

-----------------------------------------------------------------------------
(* The services on the bus (external)                                      *)

Entry(id) == [id |-> id, title |-> locale]

Entries(ids) == [k \in DOMAIN ids |-> Entry(ids[k])]

\* The subscription's first answer: the whole list, in whatever order.
ServeList ==
    /\ svc /\ sub = "asked" /\ Len(queue) < MaxQueue
    /\ sub' = "live"
    /\ \E ids \in SetToSeqs(installed) :
          queue' = Append(queue, [kind |-> "list", apps |-> Entries(ids)])
    /\ UNCHANGED <<dbVars, selfVars, statusQ, settings, envVars>>

\* A change is told to a live subscription, and to no other.
Tell(kind, id) ==
    IF sub = "live"
      THEN /\ Len(queue) < MaxQueue
           /\ queue' = Append(queue, [kind |-> kind, app |-> Entry(id)])
      ELSE UNCHANGED queue

Install(id) ==
    /\ id \notin installed
    /\ installed' = installed \cup {id}
    /\ Tell("added", id)
    /\ UNCHANGED <<dbVars, selfVars, sub, statusQ, settings, svc, locale>>

Uninstall(id) ==
    /\ id \in installed
    /\ installed' = installed \ {id}
    /\ Tell("removed", id)
    /\ UNCHANGED <<dbVars, selfVars, sub, statusQ, settings, svc, locale>>

\* The application manager comes and goes; its subscribers are forgotten.
ServiceFlips ==
    /\ Len(statusQ) < MaxStatus
    /\ svc' = ~svc
    /\ statusQ' = IF phase # "down" THEN Append(statusQ, svc') ELSE statusQ
    /\ sub' = IF sub \in {"asked", "live"} THEN "lost" ELSE sub
    /\ UNCHANGED <<dbVars, selfVars, queue, settings, installed, locale>>

LocaleSet(new) ==
    /\ new # locale
    /\ Len(settings) + timers < MaxLocale
    /\ locale' = new
    /\ settings' = IF phase # "down" THEN Append(settings, new) ELSE settings
    /\ UNCHANGED <<dbVars, selfVars, sub, queue, statusQ, svc, installed>>

-----------------------------------------------------------------------------

Init ==
    /\ rows = EmptyTable
    /\ listed = [id \in Apps |-> 0] /\ indexed = {} /\ faults = 0
    /\ phase = "down" /\ cats = EmptyTable /\ connected = FALSE
    /\ handling = <<>> /\ heard = NoName /\ timers = 0
    /\ sub = "none" /\ queue = <<>> /\ statusQ = <<>> /\ settings = <<>>
    /\ svc \in BOOLEAN /\ installed \in SUBSET Apps /\ locale \in Titles

Handler == BeginList \/ ListOne \/ Added \/ Removed

Environment ==
    \/ Crash \/ ServiceFlips
    \/ \E id \in Apps : Install(id) \/ Uninstall(id)
    \/ \E new \in Titles : LocaleSet(new)

Client ==
    \E id \in Categories, rank \in RankInputs \cup {0, RankMax}, enabled \in BOOLEAN,
       name \in NameInputs : UpdateCategory(id, rank, enabled, name)

Step ==
    \/ Start \/ LoadPlugins \/ Handler \/ StatusChanged \/ ReloadAppsByLocaleChange \/ LocaleChanged
    \/ ServeList

Next == Step \/ Environment \/ Client

Spec == Init /\ [][Next]_vars

\* The daemon is started again, its main loop runs every handler that is ready,
\* and the application manager answers while it lives.
Fairness ==
    /\ WF_vars(Start \/ LoadPlugins) /\ WF_vars(Handler) /\ WF_vars(StatusChanged)
    /\ WF_vars(ReloadAppsByLocaleChange) /\ WF_vars(LocaleChanged)
    /\ WF_vars(ServeList)

FairSpec == Spec /\ Fairness
=============================================================================
