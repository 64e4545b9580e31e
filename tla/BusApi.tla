------------------------------- MODULE BusApi -------------------------------
(***************************************************************************)
(* The methods search and updateCategory of UnifiedSearch, with what they  *)
(* read and write: the Category table, the categories in memory, and the   *)
(* searches under way (MediaSearch).  The third method, getCategories, has *)
(* no action: it only reads the table, and what it shows is the ranked     *)
(* list of CategoryDbProps.                                                *)
(*                                                                         *)
(* A request is JSON from anyone: any member may be missing or of another  *)
(* type.  A member is modelled by the set of what JValueUtil::getValue can *)
(* take from it: empty, or one value.  Any statement that writes may fail. *)
(* A definition marked "variant" is the one after it with a mistake in it. *)
(***************************************************************************)
EXTENDS CategoryTable

CONSTANTS
    Apps,        \* applications with contents, also the ids of their categories
    SamApps,     \* the category of all applications
    Audio,       \* the category of the media plugin
    Names,       \* display names
    NameInputs,  \* names a request may bring, NoName for an empty one
    RankInputs,  \* ranks a request may ask for
    MemoryRanks, \* ranks a category may have in memory, 0 and less among them
    NotInt,      \* a JSON number that is no int, such as 1.5
    Requests,    \* search requests
    Targets,     \* properties the media source looks into
    MaxFaults    \* bound on failing statements

Categories == Apps \cup {SamApps, Audio}

ASSUME IdsAssumption == SamApps \notin Apps /\ Audio \notin Apps \cup {SamApps}
ASSUME RankAssumption ==
    /\ RankMax \in Nat /\ Cardinality(Categories) < RankMax
    /\ RankInputs \subseteq Int /\ MemoryRanks \subseteq Int /\ NotInt \notin Int
ASSUME NameAssumption == NoName \notin Names /\ NameInputs \subseteq Names \cup {NoName}
ASSUME BoundAssumption == MaxFaults \in Nat

VARIABLES
    rows,       \* the Category table
    cats,       \* the categories of the search sets, as id -> enabled
    shown,      \* {S} for a response with results of categories S just sent, {} for none
    told,       \* id -> the flag its last acknowledged update set (history)
    intents,    \* search request -> categories it has found something in
    faults,     \* statements that have failed
    running, connected, asked, bus, callbacks, answers    \* of MediaSearch

mediaVars == <<running, connected, asked, bus, callbacks, answers>>
vars == <<rows, cats, shown, told, intents, faults, mediaVars>>

\* SearchSet::findCategory and SearchManager::findCategory find it.
Known(id) == id \in DOMAIN cats

AudioOn == Known(Audio) /\ cats[Audio]

Media == INSTANCE MediaSearch WITH audioOn <- AudioOn

\* At most one of the values.
Member(values) == {{}} \cup {{v} : v \in values}

TypeOK ==
    /\ DOMAIN rows \subseteq Categories /\ rows \in [DOMAIN rows -> Row(Names)]
    /\ DOMAIN cats \subseteq Categories /\ cats \in [DOMAIN cats -> BOOLEAN]
    /\ shown \in Member(SUBSET Categories)
    /\ DOMAIN told \subseteq Categories /\ told \in [DOMAIN told -> BOOLEAN]
    /\ intents \in [Requests -> SUBSET Categories]
    /\ faults \in 0..MaxFaults
    /\ Media!TypeOK

Fails(oks) ==
    LET failed == Cardinality({k \in DOMAIN oks : ~oks[k]})
    IN  faults + failed <= MaxFaults /\ faults' = faults + failed

-----------------------------------------------------------------------------
(* JValueUtil::getValue                                                    *)

\* A member that is missing or of another type leaves the variable as it was.
GetValue(member, old) ==
    [given |-> member # {}, value |-> IF member = {} THEN old ELSE CHOOSE v \in member : TRUE]

\* A number that is no int is not given either, but leaves 0.
GetInt(member, old) ==
    IF member = {NotInt} THEN [given |-> FALSE, value |-> 0] ELSE GetValue(member, old)

Payload == [id : Member(Categories), enabled : Member(BOOLEAN),
            rank : Member(RankInputs \cup {NotInt}), name : Member(NameInputs)]

-----------------------------------------------------------------------------
(* updateCategory                                                          *)

Enabled(request) == GetValue(request.enabled, TRUE)
Rank(request)    == GetInt(request.rank, RankMax)
Name(request)    == GetValue(request.name, NoName).value

\* Errors 201 to 204; an id that is empty counts as missing.
Refused(request) ==
    LET enabled == Enabled(request)
        rank    == Rank(request)
    IN  \/ request.id = {}
        \/ ~enabled.given /\ ~rank.given
        \/ enabled.value /\ ~rank.given
        \/ ~enabled.value /\ rank.given

\* (variant: memory is switched whatever became of the table)
SwitchedAnyway(id, enabled, done) ==
    IF Known(id) THEN [cats EXCEPT ![id] = enabled] ELSE cats

\* (variant: memory is not switched)
SwitchedNever(id, enabled, done) == cats

\* Memory follows a table that was updated, in the flag alone.
Switched(id, enabled, done) ==
    IF done /\ Known(id) THEN [cats EXCEPT ![id] = enabled] ELSE cats

Without(function, id) == [i \in DOMAIN function \ {id} |-> function[i]]
With(function, id, value) ==
    [i \in DOMAIN function \cup {id} |-> IF i = id THEN value ELSE function[i]]

\* What clients have been told once an update of id got as far as the table: an
\* error 205 says nothing, nor does the answer about a category that only the table
\* knows, which has no returnValue.
Told(id, enabled, done) ==
    IF ~done THEN told
    ELSE IF Known(id) THEN With(told, id, enabled) ELSE Without(told, id)

UpdateCategory(request, shiftOk, writeOk) ==
    LET id      == CHOOSE i \in request.id : TRUE
        enabled == Enabled(request).value
        done    == Found(rows, id) /\ writeOk
    IN  /\ running
        /\ ~Refused(request)
        /\ Fails(<<shiftOk, writeOk>>)
        /\ rows' = Updated(rows, id, Rank(request).value, enabled, Name(request),
                           shiftOk, writeOk)
        /\ cats' = Switched(id, enabled, done)
        /\ told' = Told(id, enabled, done)
        /\ Media!Switch(AudioOn')
        /\ shown' = {}
        /\ UNCHANGED intents

-----------------------------------------------------------------------------
(* search                                                                   *)

\* (variant: a source is only asked when all of its categories are on)
FromDatabaseIfAllOn ==
    IF \A id \in DOMAIN cats \ {Audio} : cats[id]
    THEN DOMAIN cats \cap (Apps \cup {SamApps}) ELSE {}

\* The items of the Items table whose category is known and on in memory.  Every
\* application has items that match, and so has sam.apps.
FromDatabase ==
    {id \in DOMAIN cats \cap (Apps \cup {SamApps}) : cats[id]}

AnsweredNow == {r \in Requests : answers'[r] # answers[r]}

InAll(found, requests) == UNION {found[r] : r \in requests}

\* A request that is answered lists what was found in categories that are on in the
\* table then.
Respond(found) ==
    /\ shown' = IF AnsweredNow = {} THEN {}
                ELSE {InAll(found, AnsweredNow) \cap EnabledIds(rows)}
    /\ intents' = [r \in Requests |-> IF r \in AnsweredNow THEN {} ELSE found[r]]

Search(r) ==
    /\ UNCHANGED <<rows, cats, told, faults>>
    /\ Media!Search(r)
    /\ Respond([intents EXCEPT ![r] = FromDatabase])

\* No key, or one that is too short.
Refuse(r) ==
    /\ UNCHANGED <<rows, cats, told, faults, intents>>
    /\ Media!Refuse(r)
    /\ shown' = {}

\* Results of DB8 count for a request that still waits for them; the daemon may die
\* of those that nobody waits for.
Reply(r, t) ==
    /\ cats' \in {cats, EmptyTable}
    /\ UNCHANGED <<rows, told, faults>>
    /\ Media!Reply(r, t)
    /\ running' <=> cats' # EmptyTable
    /\ Respond([intents EXCEPT ![r] = @ \cup (IF <<r, t>> \in callbacks /\ AudioOn
                                               THEN {Audio} ELSE {})])

ReplyWithout(r, t) ==
    /\ UNCHANGED <<rows, cats, told, faults>>
    /\ Media!ReplyWithout(r, t)
    /\ Respond(intents)

OnServerStatus(up) ==
    /\ UNCHANGED <<rows, cats, told, faults>>
    /\ Media!OnServerStatus(up)
    /\ Respond(intents)

-----------------------------------------------------------------------------
(* The rest of the daemon, as far as it touches the categories             *)

\* adjustOrCreateCategory: the category takes over its row.  When the insert fails
\* there is none, and the category keeps the flag it was made with.
InTable(table, id, name, ok) == IF ok THEN AdjustOrCreate(table, id, name) ELSE table

InMemory(table, id) == id \in DOMAIN table => table[id].enabled

\* The application manager's client meets an application for the first time.
AddCategory(id, name, ok) ==
    /\ running /\ ~Known(id)
    /\ Fails(<<ok>>)
    /\ rows' = InTable(rows, id, name, ok)
    /\ cats' = With(cats, id, InMemory(rows, id))
    /\ shown' = {}
    /\ UNCHANGED <<told, intents, mediaVars>>

RemoveCategory(id) ==
    /\ running /\ Known(id)
    /\ cats' = Without(cats, id)
    /\ rows' = DeleteRow(rows, id)
    /\ shown' = {}
    /\ UNCHANGED <<told, intents, faults, mediaVars>>

\* A list of applications writes a category it knows back to the table, with the flag
\* and the rank it has in memory: the one of its row when it was registered, which the
\* shifts may have driven below 1, or the one it would have had but for a failing insert.
RefreshCategory(id, rank, name, shiftOk, writeOk) ==
    /\ running /\ Known(id)
    /\ Fails(<<shiftOk, writeOk>>)
    /\ rows' = Updated(rows, id, rank, cats[id], name, shiftOk, writeOk)
    /\ shown' = {}
    /\ UNCHANGED <<cats, told, intents, mediaVars>>

\* The daemon starts with sam.apps and the media plugin.
Start(name, samOk, audioOk) ==
    LET table == InTable(rows, SamApps, name, samOk)
    IN  /\ Fails(<<samOk, audioOk>>)
        /\ rows' = InTable(table, Audio, name, audioOk)
        /\ cats' = [id \in {SamApps, Audio} |->
                       InMemory(IF id = SamApps THEN rows ELSE table, id)]
        /\ Media!Start(AudioOn')
        /\ shown' = {}
        /\ UNCHANGED <<told, intents>>

Crash ==
    /\ cats' = EmptyTable
    /\ Media!Crash
    /\ intents' = [r \in Requests |-> {}]
    /\ shown' = {}
    /\ UNCHANGED <<rows, told, faults>>

-----------------------------------------------------------------------------

Init ==
    /\ rows = EmptyTable /\ cats = EmptyTable
    /\ shown = {} /\ told = EmptyTable
    /\ intents = [r \in Requests |-> {}]
    /\ faults = 0
    /\ Media!Init

Api ==
    \/ \E request \in Payload, shiftOk, writeOk \in BOOLEAN :
          UpdateCategory(request, shiftOk, writeOk)
    \/ \E r \in Requests : Search(r) \/ Refuse(r)

Others ==
    \/ \E r \in Requests, t \in Targets : Reply(r, t) \/ ReplyWithout(r, t)
    \/ \E up \in BOOLEAN : OnServerStatus(up)
    \/ \E id \in Apps, name \in Names, ok \in BOOLEAN : AddCategory(id, name, ok)
    \/ \E id \in Apps : RemoveCategory(id)
    \/ \E id \in Apps, rank \in MemoryRanks, name \in Names, shiftOk, writeOk \in BOOLEAN :
          RefreshCategory(id, rank, name, shiftOk, writeOk)
    \/ \E name \in Names, samOk, audioOk \in BOOLEAN : Start(name, samOk, audioOk)
    \/ Crash

Next == Api \/ Others

Spec == Init /\ [][Next]_vars

-----------------------------------------------------------------------------

SwitchIsAcknowledged ==
    \A id \in DOMAIN cats \cap DOMAIN cats' :
        \/ cats[id] = cats'[id] /\ (id \in DOMAIN rows => rows[id].enabled = rows'[id].enabled)
        \/ id \in DOMAIN told' /\ told'[id] = cats'[id]

ShownAsTold ==
    \A found \in shown', id \in DOMAIN told \cap DOMAIN cats \cap (Apps \cup {SamApps}) :
        id \in found <=> told[id]

\* What a client was told it switched is so, in the table and in memory, until an
\* update says otherwise: through failing statements, restarts, removals, lists and
\* requests of any shape (UnifiedSearch.cpp 141-193, Database.cpp 104-262).
AcknowledgedHolds ==
    \A id \in DOMAIN told :
        /\ id \in DOMAIN rows /\ rows[id].enabled = told[id]
        /\ id \in DOMAIN cats => cats[id] = told[id]

\* A category that is registered is never switched, in memory or in the table, unless
\* a client asked for it and is told so; an update that fails half way switches
\* neither (UnifiedSearch.cpp 177-193, Database.cpp 229-257).
OnlyAcknowledgedSwitch == [][SwitchIsAcknowledged]_vars

\* A search shows the categories of applications exactly as the last acknowledged
\* updates left them (SearchManager.cpp 124-157, UnifiedSearch.cpp 84-111).
SearchShowsWhatWasTold == [][ShownAsTold]_vars
=============================================================================
