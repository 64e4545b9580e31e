# Unified search: a verification project

TLA+ models of `com.webos.service.unifiedsearch`, the search daemon of webOS
(`src/`), the TLC configurations that check them, and theorems about them
proved with TLAPS. Paths below are those of the repository, `Database.cpp` for
`src/src/base/Database.cpp` and so on; `PROJECT.json` maps every definition to the
lines it is translated from.

## 1. The system

The daemon is one process with one glib main loop. Handlers of bus messages and
timers run one at a time and to their end; there is no second thread. What is
concurrent is outside: services come and go, applications are installed and
removed, users switch categories, and the process may be killed at any moment while
its SQLite file stays.

| Component | State | Operations |
|---|---|---|
| Category table (`base/Database.cpp`) | rows `categoryId, rank, enabled, name` in SQLite | `adjustOrCreateCategory`, `updateCategory`, `removeCategory`, `getCategories` |
| Item table (`base/Database.cpp`) | full-text rows, no key | `insertItem`, `removeItem`, `search` |
| Search sets (`core/SearchSet.cpp`, `core/Category.cpp`, `base/SearchManager.cpp`) | categories in memory, each with a copy of its row | `addSearchSet`, `addCategory`, `removeCategory`, `findCategory`, `search`, `loadPlugins` |
| Bus API (`bus/service/UnifiedSearch.cpp`) | none of its own; a response task for each request | `search`, `getCategories`, `updateCategory` |
| Bus client base (`core/LunaClient.cpp`) | connection flag, call ids, a map of calls and one of tasks | `call`, `cancel`, `_onResponse`, `_onServerStatus`, `initialize` |
| Application manager client (`bus/client/SAM.cpp`, `clients/Applications.cpp`) | the id of its subscription | `onServerStatusChanged`, `onListApps`, `addAppContents`, `reloadAppsByLocaleChange` |
| Application contents (`clients/AppContents.cpp`) | none but the items it writes | constructor, `createIndexes`, `getLabels`, `eraseCategory`, `generateIntent` |
| Settings client (`bus/client/SettingService.cpp`) | the locale last heard | `onServerStatusChanged`, `onLocaleChanged`, `updateLocaleInfo` |
| Media plugin (`plugins/media/`) | its search set, DB8 targets, tasks of searches under way | `DB8Source::search`, `DB8::find`, the destructors that hand results on |
| Main daemon (`MainDaemon.cpp`, `Main.cpp`) | the main loop, signal handlers | `initialize`, `start`, `stop`, `finalize`, `signal_handler` |
| Configuration (`conf/ConfFile.cpp`) | whether the daemon was respawned; a mark in `/tmp` | `onInitialization` |

**Interaction.** The application manager client subscribes to `listApps`. Its
handler writes items through `Database`, makes an `AppContents` for each web
application with an index, and registers that in its search set; `SearchSet` tells
`SearchManager`, which writes the Category table and copies the row back into the
category object. `updateCategory` of the bus API writes the table and then the
enabled flag of the object; `search` reads both, the objects to decide what to look
into and the table to decide what to show. The settings client starts a half-second
timer on a locale change that makes the application manager client subscribe again.
Every client inherits calls and connection handling from `LunaClient`.

**What is hard.** State kept twice (table and objects) with several writers; a
permutation of ranks maintained by range updates without a transaction; changes lost
while no subscription lives, a whole list after each; death between two inserts;
messages under way when a subscription is replaced; bare pointers to tasks on the
bus; responses sent by destructors; statements that fail, and requests of any shape;
a signal handler that may interrupt anything. `PROJECT.json` lists each hazard at its line.

**What makes each part correct.**

- *Category table*: ranks of enabled rows are 1..n, disabled rows are parked, each
  call changes the displayed list as its caller asked and nothing else.
- *Items and registration*: whatever interleaves, every visible installed
  application ends up with exactly one `sam.apps` item, and with a category and its
  contents when it brings an index; what the user chose stays.
- *Contents*: a built index holds each item read once, under each translation, and
  is that of one version unless another was installed while it was read.
- *Bus client*: a reply finds its task; nothing is kept for a finished call; within a
  connection an id cancels only its own call.
- *Search*: a reply of the media database finds the task its find was sent for.
- *Bus API*: what a client was told holds, in memory, in the table and in every search,
  whatever fails afterwards; nobody else switches a category.
- *Start and stop*: the database is there while it is used; clients are registered all or
  none; a process knows whether it was respawned; a stop signal ends the loop.

## 2. Modules

| Module | What it is |
|---|---|
| `CategoryTable`, `CategoryTableProofs` | the table's functions as operators on a function from ids to rows; lemmas about them |
| `CategoryDb` | state machine: any call, any argument, statements that may fail; a second specification for careful callers |
| `RankedList` | abstract: a list of what is on and a set of what is off |
| `CategoryDbProps`, `MCCategoryDb`, `CategoryDbProofs` | properties, and the order and the disabled ones `getCategories` shows; instance, theorems |
| `AppSync` | composition: application manager client, settings client, search sets, bus API's `updateCategory`, items, restart, with the services outside |
| `AppSyncProps`, `MCAppSync`, `AppSyncProofs`, `AppSyncItemsProofs` | properties (with `CategoryDb` instantiated as what its table must obey), instance, theorems |
| `AppIndex`, `MCAppIndex`, `AppIndexProofs` | building the index of one application; theorems |
| `LunaClient`, `MCLunaClient`, `LunaClientProofs` | calls, ids, tasks |
| `MediaSearch`, `MCMediaSearch` | who answers a search and who holds it open |
| `BusApi`, `MCBusApi`, `BusApiProofs` | composition: the bus API's methods `search` and `updateCategory` over the table, the categories in memory and `MediaSearch` (by `INSTANCE`), with failing statements; theorems |
| `Daemon`, `MCDaemon`, `DaemonProofs` | start, signals, stop, death, reboot; theorems |

Definitions whose comment says "variant" are deliberate mistakes. Each has the
parameters of the definition after it; put in its place it makes one of the
properties fail, which shows that the property depends on that code.

### CategoryTable and CategoryDb

`rows` is a function from the ids in the table to `[rank, enabled, name]`.
`AdjustOrCreate` keeps a known row and appends a new one at `MaxRank + 1`
(`Database.cpp` 104-156). `Updated` is `updateCategory` (181-262) in the order of the
code: look the row up (a negative rank means not found), count the enabled rows with
this one among them if it is to be enabled, clamp the rank asked for, shift a range
(`ShiftOthers`), write the row (`UpdatedRow`). The two writes have a success flag
each, because the code ignores the first one's result and rolls nothing back; with
both false the call is one that died before its first statement. `DeleteRow` looks
its statement up by name as the code does, and finds none (165-172).
`EmptyTable` is the file a first start creates.

`CarefulSpec` leaves out `updateCategory(enabled = false)` for a category that is off
already, and failing statements. Nothing in the bus API refuses that call, and
`SAM.cpp` makes it itself at each list (section 5). So `RanksExact` is about careful
callers, and `OnlyStraysBreakRanks` says what is true of all: whatever calls, and
whatever statements fail, an exact ranking is only broken by switching on a row that is
off without the big rank, or by a torn update itself. `TornUpdateIsSmall` bounds what
one torn update does.

### AppSync

The variables are the database (`rows`, `listed`, `indexed`, and `faults`, how many
statements on it have failed), what dies with the
daemon (`phase`, `cats`, `connected`, `handling`, `heard`, `timers`), the bus
(`sub`, `queue`, `statusQ`, `settings`) and the services (`svc`, `installed`,
`locale`). `listed[app]` counts the `sam.apps` items of an application, since
nothing but the order of calls keeps `insertItem` from adding a second one; `indexed`
holds applications whose contents are in the Items table.

`onListApps` is `BeginList` and one `ListOne` for each application, `Added`, and
`Removed`. A list is split so that `Crash` may fall between two applications; no other
handler may (`Idle`). `StatusChanged` is `onServerStatusChanged` after
`_onServerStatus` set the flag; `Subscribe` replaces the call, and messages of the
cancelled one are never delivered. `Start` and `LoadPlugins` are the order of
`MainDaemon::initialize`. `Results` is what a search that matches everything shows:
categories found in memory, on there, with items, and on in the table.

Each statement that writes the Category table may fail, up to `MaxFaults` times, and the
handler goes on as the code does. `AdjustOrCreateCategory` leaves a category registered,
with the rank and flag a row would have had, when the insert fails (`Database.cpp` 146-149);
`RefreshCategory` and `UpdateCategory` may lose the shift, the write or both (253-257, 291-295), and
`Applied` switches the object only when the update reached its row. A shift without its write is also
what a death between the two leaves, since `Crash` may follow at once.

External actions are what the application manager and the bus may do: serve the list,
tell changes to a live subscription in order, restart, and change the locale. They
are taken from how `SAM.cpp` and `SettingService.cpp` use them.

### AppIndex

`package` is the version installed, which `Update` may replace at any time, and `Crash` may
come between any two steps. `CreateIndexes` is the constructor up to the index file,
`ReadManifest` and `ReadLabels` are `getLabels`, one file in each step (a file that cannot be read is
one without keys), `LabelsRead` the test for labels after it, `IndexItem` and `EndIndexes` the loop of
`createIndexes`. `read` is history: the files and items read, which may be of several versions;
`mixed` says whether an update came between two of the reads. `display` is the title in the one object
that the code stores with every item (69, 112): `Titled` replaces it for each item that has
a known label and keeps it otherwise. `Known` is the loop that passes over labels without translation (`Among`).
`Expected` says what the index should be from the files and items alone: the last file of
a language has the word (`Says`), and each item that is `Wanted` is `Made`, in their order, without
the steps or the state they share. A label is stored with its English translation even when none is given
(100-104), but only when some file translates it (91-98).

### LunaClient

`callMap` and `taskMap` are `m_callMap` and `m_taskMap`; `bus` is the set of tasks the
bus holds a pointer to. `given` and `outdated` are history: the id each
caller is given, and whether a status message came since. `Cancel` is modelled as the class offers
it, though no code in the repository calls it. A task
object is used for one call, as `call` makes one each time. `Daemon` has the rest of
the class: `initialize`, its deferral, `setMainHandle` and `finalize`.

### MediaSearch

`callbacks` are the closures of finds that exist; the response task is held through
them. `Captured` is the set of closures that outlive `DB8::find`: none, because the
lambda at `DB8.cpp` 76 captures the parameter `callback` by reference. `Reply` with
results then uses a dead object, which the model takes as a choice between dying
and going on. `answers` counts the responses of a request, `Start` and `Crash` follow
the process. As it is, every request is answered in the step that asks, because no callback
outlives its find; that is the other side of the same mistake, and no property claims it.
Whether the audio category is on is `audioOn`, for which `BusApi` puts a predicate of its
categories (`AudioOn`).

### BusApi

`UpdateCategory` is the whole handler (`UnifiedSearch.cpp` 141-194). A request has an
optional member for each key it reads; `GetValue` and `GetInt` are
`JValueUtil::getValue`, which leaves the variable as it was when a member is missing or
of another type, but writes 0 for a number that is no `int` (66-70). `Refused` is errors
201 to 204; an update that does not reach its row is error 205; a category the table
knows and memory does not gets a response that says nothing (189).
`told` is history: the flag a client's last acknowledged update set. `Known` is
`findCategory`. Each statement that writes may fail, up to `MaxFaults` in a run:
`InTable` (the insert of a registration), the shift and the write of an update.
`Search` asks the Items table and the media source, whose callbacks are `MediaSearch`'s;
when the last reference to a request goes, `Respond` shows what was found in
categories that are on in the table *then*. The application manager's client appears as what
it does to categories: `AddCategory`, `RemoveCategory`, `RefreshCategory` (with any of `MemoryRanks`, the
ranks memory may hold, which may be 0 and less: a category takes over the rank of its row).
`getCategories` has no action: it only reads the table, and the list it shows is that of
`CategoryDbProps` (`DisplayOrder`, `Disabled`).

### Daemon

`stage` is where `main` is, `todo` the parts `initialize` or `finalize` has still to
go through, in the order of `MainDaemon.cpp`. Each part's step has the outcomes
its code has: the mark may be impossible to write, the database may fail to open (its handle
is closed and kept: `"dangling"`) or to be prepared, `attachToLoop` may throw, the plugin may not
load. A signal comes between any two steps; `Handle` is `signal_handler` to its end, `Hang`
its interrupting the main thread in a place where what it calls is not reentrant. Signals differ only in
whether the handler ignores them and whether they are caught yet. `Wake` and `EndIteration` are
an iteration of the loop, which looks at `quitting` at its end. `Crash` is any death,
`Reboot` clears `/tmp`.

## 3. What the runs show

| Run (cfg) | States | Shows |
|---|---|---|
| `table_careful` (`CategoryDbCareful`) | 168 | four categories, ranks asked for below, at, inside, at the end of and far beyond the list: ranks stay 1..n, disabled rows stay parked, and every call is a step of `RankedList` or none |
| `table_any` (`CategoryDbAny`) | 10 k | arbitrary calls, and failing statements in a table that is in order: what breaks an exact ranking, and how much one torn update does |
| `apps_items` (`AppSyncItems`) | 1.3 M | two applications, one with an unreadable index, two locales, three messages under way: a live subscription brings items and categories to what is installed |
| `apps_flags` (`AppSyncFlags`) | 290 k | one application, a user and a failing statement: memory and table agree on what is on, only the user changes it, and what is installed and on is found |
| `apps_live` (`AppSyncLive`) | 82 k | when the environment comes to rest the daemon settles on what is installed, even if a statement on a category failed; the table sees only calls of `CategoryDb`, failing ones included |
| `index` (`AppIndex`) | 12 k | fifteen versions of an application, one installed after the other at any moment: a built index is the one expected of what was read, half of one is a prefix of it, and each result has one title in every language |
| `bus_client` (`LunaClient`) | 900 | four calls: ids, maps and bus agree |
| `bus_api` (`BusApi`) | 69 k | requests of every shape, one failing statement anywhere, restarts, lists, removals, a slow DB8: what clients were told holds and is what searches show |
| `daemon` (`Daemon`) | 2 000 | start and stop with every failure of a part, signals at every step, death and reboot |
| `apps_lost` (`AppSyncLost`) | – | violation: a row that is in the table is reported missing, with careful clients |
| `apps_erased` (`AppSyncErased`) | – | violation: a removed category keeps its items |
| `media_dead` (`MediaSearchDead`) | – | violation: a find outlives the callback it was sent with |

**Bounds.** Four categories are one more than the places a move can disturb (the one
moved, one between, one beyond). `RankMax` is 999999 in the table's own runs as in the
code, and 3 to 6 in the composed ones so that TLC can enumerate the ranks memory may
write back (`DbRanks`, `MemoryRanks`, from -1 on); what matters of it is that it exceeds the number of
categories. `MaxQueue`, `MaxStatus`, `MaxLocale` bound what is under way on the bus: with
three messages a list, a change before and one after it are in flight together; with
two status messages the service is down and up again before the daemon hears of
either; one locale change may be pending or have its timer running. `apps_flags` has two categories and `RankMax = 3`. `apps_live`, where each step is also compared with
every call of `CategoryDb`, has no client of the API: its one call is `Updated`, the operator the list uses, and the theorem
covers it. The one-application
instances set `Audio = samapps`, that is, leave out the media category, whose row
`apps_items` covers. There the ranks a client may send are 0 and `RankMax`, either end
of a list of two, `apps_lost` adds 1 to 3 and the media category.
`MaxFaults = 1` in `apps_flags` and `apps_live` lets any one statement fail at any moment, the insert of a
registration among them; in `bus_api`, a second failure meets a state one failure
led to only after the caller was told, which `told` then does not hold; the theorems of
section 4 have no such bound. One application besides `sam.apps` and the media category
is the least with which a category may be unknown, known, removed and back.
`MaxStarts = 3` processes of one boot: one that leaves the mark, one that may die before,
one after both.
Runs without `NameInputs` have no client of the API, which no item depends on.
`answers` stops at 2, "more than once". `SYMMETRY` is used where
tasks or requests differ in nothing, and never with liveness.

**Fairness** (`AppSync!Fairness`). Weak fairness of each handler: the glib loop runs
every source that is ready, in order of arrival, and a handler once begun finishes.
`Start` is weakly fair since the bus starts the service (`files/sysbus`, a static
service). `ServeList` is weakly fair: the application manager, while it lives, answers
a request. `Daemon` has `WF_vars(Main)`, the scheduler running the process:
`Main` is what the main thread does by itself, no event of the loop among it. Nothing is
assumed of the environment: `EventuallySettled` concludes only
for behaviours in which it comes to rest with the service running.

## 4. What is proved

`CategoryTableProofs` has the lemmas the others share: the types of what each function of
the table returns, and which flags it may touch (`CreationAddsOneRow`, `UpdateSetsOneFlag`,
`NothingDeleted`), without a word about ranks.

`CategoryDbProofs`, for any set of ids smaller than `RankMax`, any names and any ranks
asked for:

- `TypeCorrect`: `Spec => []TypeOK`, failing statements included.
- `CarefulCallersKeepRanks`: `CarefulSpec => [](RanksExact /\ DisabledParked)`. The
  inductive invariant is `TypeOK /\ RanksExact /\ DisabledParked`: exactness alone is
  not inductive, since enabling a row shifts what lies between its old rank and the new
  one, and only a parked old rank makes that "everything from the new place on". The
  argument: in an exact ranking every rank of 1..n is held (`EveryRankHeld`, by
  counting a bijection), so the largest is n (`MaxRankIsCount`) and a new row
  appended goes to n + 1; `ShiftMakesRoom` says in arithmetic that the range shifted keeps
  distinct ranks distinct and frees the new place; `SwitchOffExact` and
  `PlaceExact` apply it.
- `StraysAlone`: whichever statements fail, `Spec => OnlyStraysBreakRanks`. No
  invariant is needed but the types: a call whose statements work is covered by the same
  lemmas, any other is a torn update or leaves the table alone.
- `TornIsSmallAlways`: `Spec => TornUpdateIsSmall`, with no bound on how many statements
  fail, where the run has `OneFaultSpec`. Without the shift the row written meets at most the one
  category that held its rank; without the write the range shifted meets only the row that was
  to move. Either way there is at most one tie.
- `CarefulCallersSeeAList`: `CarefulSpec => ImplementsRankedList`. The mapping takes the list
  to be the enabled ids in the order of their ranks (`DisplayOrder`), a choice that exact
  ranks determine (`OrderIsRanked`, `OrderIs`): a sequence with each id at its rank is *the* order. `Removal` and
  `Insertion` say place by place what taking out and putting in do to any sequence, and each kind of
  call is then compared with its operation by places and ranks: `CreateAppends`, `SwitchOffParks` and, for
  a move or a switch on, `PlaceAfterMove` with `UpdatePlaces`.

`LunaClientProofs`, for any set of tasks:

- `TypeCorrect`, `RepliesFindTheirTask` (`TaskOutlivesCall` and `NothingLeaks`),
  `IdsMeanOneCall` (`IdMeansOneCall`). The inductive invariant adds to
  these `Filed` (a task on the bus has a current id and its entries are under it) and
  `Unused` (a task no call was made with is nowhere), without which a new call might
  reuse a number or a task in use.

`BusApiProofs`, for any applications, names, ranks, requests, targets and number of
failing statements:

- `AcknowledgementsHold`, `SwitchesAreAcknowledged` and `SearchesShowWhatWasTold`. The inductive invariant `IInv` adds to the invariants checked
  `FlagsAgree` (a category in memory and its row have the same flag when both are
  there: a category whose insert failed has no row), `OnlyWhileRunning` and
  `AnsweredAtOnce` (between two steps no callback is left, so that no request is open). `Told`
  and `Switched` change the same id to the same flag in the same step.
- `TypeCorrect` (`TypeOK`), from `IInv /\ Typed`. With any number of applications the table is
  still finite, as it has a row only for categories that were registered.

`AppSyncProofs`, for any applications, titles, ranks and bounds on what is under way:

- `TypeCorrect` (`TypeOK`) and `TableIsCategoryDb`: with any rank allowed to a caller
  (`DbRanks = Int`), `Spec => CallsTheTable`, the table being `CategoryDb`'s under the
  identity mapping. The inductive invariant is `TypeOK /\ TimersPaid`: each reload timer is
  paid for by a locale change that `LocaleSet` let through, the first locale heard being extra
  and starting none. Each handler then makes one call with arguments of the right types, or none
  (`RegistrationTyped`, `RefreshTyped`, `ClientSound`, `NothingDeleted`), so what `StraysAlone` says of
  arbitrary calls holds of the daemon.
- `MemoryAgreesWithTable` (`EnabledAgrees`) and `OnlyClientsSwitch` (`ChoiceIsUsers`). The
  inductive invariant `FlagsInv` adds that rows and categories are tables whose rows have the three
  fields, and that the two flags agree where a category has both. A category enters memory with the
  flag of its row, or without a row when its insert failed; no row ever leaves; what a list
  writes back is the flag both share; an update whose write fails changes neither; so each step that is
  no client's keeps every flag.

`AppSyncItemsProofs`, for the same, and so for any number of messages under way:

- `ItemsInStep` (`ItemsFollowManager`), `ContentsInStep` (`InstalledAreComing`) and
  `InstalledFound` (`InstalledAreFound`). The inductive invariant `ItemsInv` has `Delivery` (nothing
  is asked for before the loop runs, and a subscription just asked for has no messages), `Registry` (what
  is registered is indexed, `sam.apps` is registered while the daemon is up) and `InStep`.
- `InStep` says of each application by itself what the properties say of all of them together.
  The entries that bring an application are the rest of the list being handled and those of the messages; an entry lasts
  if no later message erases the application, as a list does to all and a removal to one.
  While the subscription lives, an installed application is where it belongs with no lasting entry and
  no erasing message, or has exactly one lasting entry and a free place to come to (no item, or a
  message that erases it); one that is not installed has no lasting entry, and its place
  is or will be free. Exactly one is what rules out both the lost and the doubled item.
- `MessageTaken`, `MessageTold` and `EntryTaken` say what a step does to these sets: taking a message
  renames the places of those behind it, adding one adds an entry or ends those it erases. A new
  list brings each installed application once since the manager's list has no id twice.

`DaemonProofs`, for any number of processes of a boot and of reboots:

- `TypeCorrect` (`TypeOK`), `TablesWhileUsed` (`DatabaseWhileUsed`), `ClientsAllOrNobody`
  (`AllOrNobody`) and `MarkedOnce` (`RespawnedComesLater`). The inductive invariant `IInv` is
  `TypeOK /\ Progress /\ Marked`: `todo` is what is left of its order after some number of
  parts, and that number says what the parts look like (`PartsAfter` for `initialize`, `PartsLeft`
  for `finalize`): which clients were made, that they are all registered or all put off, whether the
  database was opened. The properties are not inductive alone: that the search sets come after the database
  is a fact about where `initialize` is. `Marked` ties the mark in `/tmp` to the number of
  processes since the boot, since a death may fall anywhere between finding and making it.

`AppIndexProofs`, for any keys, folders, languages and versions, of any number of files and items:

- `BuiltAsExpected` (`BuiltIsExpected`), `HalfAsExpected` (`HalfIsPrefix`), `OneTitleShown`
  (`TitlesShown`) and `TypeCorrect` (`TypeOK`). The inductive invariant `IInv` says that
  `allLabels` are what the files read so far say (`Gathered`), that some number of the items read are done:
  `stored` is what they make (`Indexed`), `todo` the rest while the loop runs; and, unless an update came
  in between, that what was read is a first part of the manifest of the installed version, or all of one version (`ReadOfOne`). That half an index is a
  part of the expected one is not inductive alone: it does not say which item is next.
- What a loop computes is proved by its turns. The library's induction theorems have an
  operator parameter, which the provers cannot instantiate; instead, `LeastNumber` (from the library's
  well-foundedness of the numbers) gives the first turn at which something went wrong, and
  `EachTurn` and `LoopEnds` conclude that what each turn keeps holds at the end, and that
  the loop has a result. `KeptIs` then says what a loop that passes over elements keeps. The files are
  read in steps of the daemon: `FileGathered` says that a file more keeps the labels what the last file
  of each language says, `LabelsAre` what that means for a key.
- `ItemIsExpected` compares what `IndexItem` stores with `Made`, item by item; `IndexedTurn` and
  `IndexedIsPrefix` put them together; `TranslationsTell` says that each key translated has
  one text in each language that has any, and always an English one.

The assumptions are the named `ASSUME`s of the modules, which TLC evaluates in the
runs. Each invariant and action property of a passing run and the refinements are theorems.
Only model-checked: `EventuallySettled` and `StopEnds`,
liveness, as the prover reasons about neither fairness nor ENABLED.

## 5. Where the code differs from what it says

Checked by runs (quotes and lines in `PROJECT.json` under `findings`):

- `apps_lost`: a list of applications updates every category it knows, those that are
  off too. Such an update is no "going to disable" (`Database.cpp` 229-243), so the row takes
  a small rank in place of `RANK_MAX`. Switching it on and off again shifts the wrong range,
  and a rank may fall below zero, which is read as "no matched category". Clients that disable
  what is off do the same harm; this run has none.
- `apps_erased`: the delete statement is prepared under one name and looked up under
  another, so rows and items of a removed application stay.
- `media_dead`: a find's callback is captured by reference and gone when its reply
  comes. Responses go out without media results.

Stated in `AppSyncProps`, `Daemon` and `AppIndex`, listed by no run; put in the place of a
cfg's properties, each has a short counterexample:

- `ListKeepsOrder`: the category object keeps the rank of its registration, and the
  next list writes it back (`SAM.cpp` 96): the user's order is undone.
- `RemovedAreNotFound`: a list clears the `sam.apps` items, not the categories and contents
  of applications uninstalled while nobody was subscribed (`SAM.cpp` 79).
- `TitlesCurrent`: a category registered by the reload itself takes the title of its row,
  the old one (`Database.cpp` 120-124).
- `DefaultActionKept` (`Daemon`): "we don't change the default action" (`Main.cpp` 78),
  but the handler replaces it. A signal to stop during initialization calls
  `g_main_loop_quit` on a loop that does not run, which `g_main_loop_run` forgets.
- `AllLabelsFound`: resource files of a region replace the labels of their language
  (`AppContents.cpp` 226).

Visible in the models, with no property of their own:

- `updateCategory` of a category that only the table knows changes the table and answers
  without `returnValue` (`UnifiedSearch.cpp` 189): in `BusApi` the answer withdraws what the
  client was told before.
- A database that does not open is closed, its handle kept, and the daemon goes on
  (`Database.cpp` 57-66, `MainDaemon.cpp` 46): in `Daemon` the loop runs with `"dangling"`, which
  `DatabaseWhileUsed` has to allow.
- An exception of `attachToLoop` is swallowed (`UnifiedSearch.cpp` 46-50): a daemon without a
  service runs on, its clients put off for good; `AllOrNobody` says that this is the only
  other case.
- The signal handler allocates, logs and reads a file (`Main.cpp` 43): interrupting the same in the main
  thread it may hang (`Hang`). `StopEnds` accepts that as an end, so it says only that a stop is not
  lost by the loop.
- The insert of a registration may fail and leave a category in memory without a row (`Database.cpp`
  146-149), which a search looks into and does not show; `EnabledAgrees` and `InstalledAreFound` are
  stated so that they say nothing of its row.

## 6. What is not modelled

- The full-text query of `Database::search`, the conversion of items to intents, JSON
  and text forms: no property here is about what matches.
- Failing statements on items, and files of an index that fail to be read once and not the next time; application manager messages without an id (nothing in the
  repository sends one); "updated" changes, whose handler does nothing.
- Sources that keep their callback beyond `search`: there is none.
- What destructors do at exit with code of a closed plugin.
- `Configd` (never instantiated), the content of the two JSON files (one path, which nobody
  overrides here), logging, the utilities nobody calls (`LinuxProcess`, `Time`, schemas),
  build and bus files.

## 7. Plan

The order puts the shared, persistent state first. Done, each with its proofs: the table and its
abstraction; the composition around it; contents; calls; the bus API and the searches
below it; start and stop.

What is left is to let statements on items fail too, in `AppSync` with the list that
repairs what they leave, and in `AppIndex`, where an item whose insert failed is missing until the
next start.
