---------------------------- MODULE AppSyncProps ----------------------------
(***************************************************************************)
(* What must stay true between the installed applications, the database    *)
(* and the search sets in memory.                                          *)
(***************************************************************************)
EXTENDS AppSync

CONSTANT DbRanks   \* every rank a category in memory may bring to the database

\* The entries a message brings, and the applications whose items it erases.
Brought(message) ==
    IF message.kind = "list" THEN message.apps
    ELSE IF message.kind = "added" THEN <<message.app>> ELSE <<>>

Erases(message, id) ==
    message.kind = "list" \/ (message.kind = "removed" /\ message.app.id = id)

\* The list in hand comes before the messages on their way.
Entered(k) == IF k = 0 THEN handling ELSE Brought(queue[k])

Erased(id) == \E k \in DOMAIN queue : Erases(queue[k], id)

\* The entries of an application that no later message undoes, as places in messages.
Lasting(id) ==
    UNION {{k} \X {i \in DOMAIN Entered(k) : Entered(k)[i].id = id} :
              k \in {k \in 0..Len(queue) : \A j \in DOMAIN queue : j > k => ~Erases(queue[j], id)}}

\* What the sam.apps items will be once the list in hand and every message already sent
\* are handled.
AfterAll ==
    [id \in Apps |->
        (IF Erased(id) THEN 0 ELSE listed[id])
        + (IF id \in Visible THEN Cardinality(Lasting(id)) ELSE 0)]

\* While the subscription lives, handling what is under way and on its way makes
\* sam.apps hold every visible installed application exactly once: no change
\* falls between a list and the changes after it, however installs, reconnects,
\* reloads and restarts interleave (SAM.cpp 77-119, 149-158).
ItemsFollowManager ==
    sub = "live" =>
        AfterAll = [id \in Apps |-> IF id \in installed \cap Visible THEN 1 ELSE 0]

\* An application's category is registered with its contents, and no message removes it.
Stays(id) ==
    /\ ~Erased(id)
    /\ id \in DOMAIN cats
    /\ id \in Readable => id \in indexed

\* ... and then every installed application with an index has its category registered
\* and its contents in the Items table, unless they are there to stay already: the list
\* or change that brings them is undone by none behind it (SAM.cpp 90-100, 112-118,
\* AppContents.cpp 25-33).
InstalledAreComing ==
    sub = "live" => \A id \in installed \cap Indexed : Stays(id) \/ Lasting(id) # {}

\* Search skips a category by the flag in memory and lists it by the flag in the
\* database: whatever statements fail, the flags of a category that has both agree
\* (UnifiedSearch.cpp 88, 180-190; SearchManager.cpp 126-149; Database.cpp 104-156).
EnabledAgrees ==
    \A id \in DOMAIN cats \cap DOMAIN rows : cats[id].enabled = rows[id].enabled

\* Once everything is handled, a search shows every installed application whose
\* index can be read, unless the user has switched it off; sam.apps likewise.  The
\* items, the registry in memory and the table must all have kept up (SAM.cpp 77-147,
\* SearchManager.cpp 114-162, UnifiedSearch.cpp 84-112).
Handled == sub = "live" /\ handling = <<>> /\ queue = <<>>

InstalledAreFound ==
    Handled =>
        /\ installed \cap Readable \cap EnabledIds(rows) \subseteq Results
        /\ installed \cap Visible # {} /\ SamApps \in EnabledIds(rows) => SamApps \in Results

\* Whether a category is on is the user's choice: no list, reconnection, reload,
\* removal, re-installation or restart ever flips it (SAM.cpp 94-97,
\* Database.cpp 112-122).
FlagsKept ==
    \A id \in DOMAIN rows \cap DOMAIN rows' : rows'[id].enabled = rows[id].enabled

ChoiceIsUsers == [][FlagsKept \/ Client]_vars

Db == INSTANCE CategoryDb WITH
          Ids <- Categories, RankInputs <- DbRanks, SqlResults <- BOOLEAN

\* Every step of the daemon makes at most one of the calls CategoryDb offers, failing
\* ones included, so whatever is true of that table under arbitrary calls is true of
\* this one.
CallsTheTable == Db!Spec

-----------------------------------------------------------------------------
(* Liveness                                                                *)

Settled ==
    /\ phase = "running" /\ sub = "live" /\ handling = <<>> /\ queue = <<>>
    /\ \A id \in Apps : listed[id] = IF id \in installed \cap Visible THEN 1 ELSE 0
    /\ installed \cap Indexed \subseteq DOMAIN cats

\* When the environment comes to rest with the application manager running, the
\* database ends up holding the installed applications, whatever was lost,
\* cancelled or half done before (SAM.cpp 39-58, 149-158).
EventuallySettled ==
    <>[][~Environment]_vars /\ <>[]svc => <>[]Settled

-----------------------------------------------------------------------------
(* What comments of the code say, and the code does not do (README).       *)

\* Removing a category removes its items (Database.cpp 174-175).
RemovedAreErased ==
    [][\A id \in DOMAIN cats : phase' # "down" /\ id \notin DOMAIN cats' => id \notin indexed']_vars

\* Clients that never switch off what is off.
CarefulClient ==
    \E id \in Categories, rank \in RankInputs \cup {RankMax}, enabled \in BOOLEAN,
       name \in NameInputs :
        /\ id \in DOMAIN rows => rows[id].enabled \/ enabled
        /\ UpdateCategory(id, rank, enabled, name)

CarefulSpec == Init /\ [][Step \/ Environment \/ CarefulClient]_vars

\* "if oldRank is not updated, there is no matched category ID" (Database.cpp 219): a
\* row that is in the table is found.  Even with careful clients it may not be, as each
\* list of applications writes back a category that is off, which gives it a small
\* rank, and the shifts after that drive ranks below zero (SAM.cpp 94-97).
NoRowLost == \A id \in DOMAIN rows : Found(rows, id)

\* The order in which getCategories shows the enabled categories.
Before == {p \in EnabledIds(rows) \X EnabledIds(rows) : rows[p[1]].rank < rows[p[2]].rank}

\* A list of applications has no say in the ranks: they are the user's
\* (UnifiedSearch.cpp 187).  SAM.cpp 95-96 writes back the rank each category
\* had in memory when it was registered.
ListKeepsOrder == [][handling # <<>> => Before \subseteq Before']_vars

\* Once everything is handled, a search shows nothing of an application that is
\* gone: "when app list comes, remove first" (SAM.cpp 79).
RemovedAreNotFound == Handled => Results \cap Apps \subseteq installed

\* Once a new locale is heard and everything is handled, the applications' categories
\* carry their new titles: "reload app titles" (SettingService.cpp 105).
TitlesCurrent ==
    Handled /\ settings = <<>> /\ timers = 0 =>
        \A id \in DOMAIN cats \cap installed : rows[id].name = locale
=============================================================================
