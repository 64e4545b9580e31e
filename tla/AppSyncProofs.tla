--------------------------- MODULE AppSyncProofs ---------------------------
(***************************************************************************)
(* The daemon's state is well formed, all that happens to the Category     *)
(* table are the calls CategoryDb offers, and the flag of a category in    *)
(* memory and the flag of its row agree, for any applications.             *)
(*                                                                         *)
(* The number of reload timers is bounded because each is paid for by a    *)
(* locale change that LocaleSet let through; the first locale heard is     *)
(* not one of them, and starts no timer.  The flags agree because a        *)
(* category enters memory with the row it has, or would have had but for a *)
(* failing insert; no row ever leaves; what a list writes back is the flag *)
(* in memory, so the one in the row already; and what fails writes no      *)
(* flag.                                                                   *)
(***************************************************************************)
EXTENDS AppSyncProps, CategoryTableProofs, SequenceTheorems, FiniteSetTheorems, TLAPS

\* Nothing is pending while the daemon is down; the locale first heard is extra.
TimersPaid ==
    /\ phase = "down" => heard = NoName /\ settings = <<>>
    /\ heard = NoName => timers = 0 /\ Len(settings) <= MaxLocale + 1
    /\ heard # NoName => Len(settings) + timers <= MaxLocale

IInv == TypeOK /\ TimersPaid

\* A step that does to the table what one call does to it, or nothing; memory may bring
\* any rank to such a call.
OneCall == DbRanks = Int => rows' = rows \/ Db!Next

-----------------------------------------------------------------------------
(* Types of what is handled.                                               *)

LEMMA CategoriesFinite == IsFiniteSet(Categories) /\ Cardinality(Categories) \in Nat
  <1>1. IsFiniteSet(Indexed)
    BY AppsAssumption, FiniteAssumption, FS_Subset
  <1>2. IsFiniteSet({SamApps, Audio})
    <2>1. {SamApps, Audio} = {SamApps} \cup {Audio}
      OBVIOUS
    <2>2. IsFiniteSet({SamApps}) /\ IsFiniteSet({Audio})
      BY FS_Singleton
    <2> QED
      BY <2>1, <2>2, FS_Union
  <1>3. IsFiniteSet(Categories)
    BY <1>1, <1>2, FS_Union DEF Categories
  <1> QED
    BY <1>3, FS_CardinalityType

LEMMA EnabledFinite == ASSUME TypeOK PROVE IsFiniteSet(EnabledIds(rows))
  <1>1. EnabledIds(rows) \in SUBSET Categories
    BY DEF TypeOK, EnabledIds
  <1> QED
    BY <1>1, CategoriesFinite, FS_Subset

\* CategoryDb has the same functions on tables.
LEMMA SameCounting == ASSUME NEW S PROVE Db!Max(S) = Max(S) /\ Db!Cardinality(S) = Cardinality(S)
  <1>1. Db!Max(S) = Max(S)
    BY DEF Max, Db!Max
  <1>2. Db!Cardinality(S) = Cardinality(S)
    BY DEF Cardinality, Db!Cardinality
  <1> QED
    BY <1>1, <1>2

LEMMA SameCreation ==
    ASSUME NEW t, NEW id, NEW name
    PROVE  Db!AdjustOrCreate(t, id, name) = AdjustOrCreate(t, id, name)
  BY SameCounting DEF AdjustOrCreate, NewRow, MaxRank, EnabledIds,
         Db!AdjustOrCreate, Db!NewRow, Db!MaxRank, Db!EnabledIds

LEMMA SameUpdate ==
    ASSUME NEW t, NEW id, NEW rank, NEW enabled, NEW name, NEW shiftOk, NEW writeOk
    PROVE  Db!Updated(t, id, rank, enabled, name, shiftOk, writeOk)
             = Updated(t, id, rank, enabled, name, shiftOk, writeOk)
  <1>1. /\ Db!Found(t, id) = Found(t, id)
        /\ Db!SwitchesOff(t, id, enabled) = SwitchesOff(t, id, enabled)
    BY DEF Found, SwitchesOff, Db!Found, Db!SwitchesOff
  <1>2. Db!ReRanged(t, id, rank, enabled) = ReRanged(t, id, rank, enabled)
    BY SameCounting DEF ReRanged, CountEnabled, EnabledIds, Clamp,
           Db!ReRanged, Db!CountEnabled, Db!EnabledIds, Db!Clamp
  <1>3. \A value, start, end :
           Db!UpdateRanks(t, value, start, end) = UpdateRanks(t, value, start, end)
    BY DEF UpdateRanks, Db!UpdateRanks
  <1>4. Db!ShiftOthers(t, id, rank, enabled) = ShiftOthers(t, id, rank, enabled)
    BY <1>1, <1>2, <1>3 DEF ShiftOthers, Db!ShiftOthers
  <1>5. Db!UpdatedRow(t, id, rank, enabled, name) = UpdatedRow(t, id, rank, enabled, name)
    BY <1>1, <1>2 DEF UpdatedRow, Db!UpdatedRow
  <1> QED
    BY <1>1, <1>4, <1>5 DEF Updated, Db!Updated

\* Tables stay tables, and no more statements fail than may.
TablesTyped ==
    /\ faults \in 0..MaxFaults
    /\ DOMAIN rows \subseteq Categories /\ rows \in [DOMAIN rows -> Row(Names)]
    /\ DOMAIN cats \subseteq Categories /\ cats \in [DOMAIN cats -> Row(Names)]

LEMMA FailsTyped ==
    ASSUME TypeOK
    PROVE  /\ \A ok \in BOOLEAN : Fails(<<ok>>) => faults' \in 0..MaxFaults
           /\ \A shiftOk, writeOk \in BOOLEAN :
                 Fails(<<shiftOk, writeOk>>) => faults' \in 0..MaxFaults
  <1>1. ASSUME NEW oks, NEW n \in Nat, DOMAIN oks = 1..n, Fails(oks)
        PROVE  faults' \in 0..MaxFaults
    <2> DEFINE failing == {k \in DOMAIN oks : ~oks[k]}
    <2>1. IsFiniteSet(1..n)
      BY FS_Interval
    <2>2. failing \in SUBSET (1..n)
      BY <1>1
    <2>3. Cardinality(failing) \in Nat
      BY <2>1, <2>2, FS_Subset, FS_CardinalityType
    <2>4. faults + Cardinality(failing) <= MaxFaults /\ faults' = faults + Cardinality(failing)
      BY <1>1 DEF Fails
    <2>5. faults \in Nat /\ MaxFaults \in Nat
      BY BoundAssumption DEF TypeOK
    <2> HIDE DEF failing
    <2> QED
      BY <2>3, <2>4, <2>5
  <1>2. \A ok \in BOOLEAN : DOMAIN <<ok>> = 1..1
    OBVIOUS
  <1>3. \A shiftOk, writeOk \in BOOLEAN : DOMAIN <<shiftOk, writeOk>> = 1..2
    OBVIOUS
  <1>4. ASSUME NEW ok \in BOOLEAN, Fails(<<ok>>) PROVE faults' \in 0..MaxFaults
    BY <1>1, <1>2, <1>4
  <1>5. ASSUME NEW shiftOk \in BOOLEAN, NEW writeOk \in BOOLEAN, Fails(<<shiftOk, writeOk>>)
        PROVE  faults' \in 0..MaxFaults
    BY <1>1, <1>3, <1>5
  <1> QED
    BY <1>4, <1>5

\* A registered category is given a row, in the table or in memory only.
LEMMA RegistrationTyped ==
    ASSUME TypeOK, NEW id \in Categories, NEW name \in Names, NEW ok \in BOOLEAN,
           AdjustOrCreateCategory(id, name, ok)
    PROVE  TablesTyped' /\ OneCall
  <1> DEFINE table == AdjustOrCreate(rows, id, name)
  <1>1. /\ Fails(<<ok>>)
        /\ rows' = IF ok THEN table ELSE rows
        /\ cats' = Registered(cats, table, id)
    BY DEF AdjustOrCreateCategory
  <1>2. table \in [DOMAIN rows \cup {id} -> Row(Names)]
    BY EnabledFinite, CreationTyped DEF TypeOK
  <1>3. Db!Next
    BY <1>1, SameCreation DEF Db!Next, Db!Call, Db!AdjustOrCreateCategory
  <1> HIDE DEF table
  <1>4. DOMAIN table = DOMAIN rows \cup {id} /\ table[id] \in Row(Names)
    BY <1>2
  <1>5. cats' \in [DOMAIN cats \cup {id} -> Row(Names)]
    BY <1>1, <1>4 DEF Registered, TypeOK
  <1>6. DOMAIN rows' \subseteq Categories /\ rows' \in [DOMAIN rows' -> Row(Names)]
    BY <1>1, <1>2 DEF TypeOK
  <1>7. faults' \in 0..MaxFaults
    BY <1>1, FailsTyped
  <1> QED
    BY <1>3, <1>5, <1>6, <1>7 DEF TablesTyped, TypeOK, OneCall

LEMMA AddCategoryTyped ==
    ASSUME TypeOK, NEW id \in Categories, NEW name \in Names, AddCategory(id, name)
    PROVE  TablesTyped' /\ OneCall
  <1>1. CASE id \in DOMAIN cats
    BY <1>1 DEF AddCategory, TablesTyped, TypeOK, OneCall
  <1>2. CASE id \notin DOMAIN cats
    BY <1>2, RegistrationTyped DEF AddCategory
  <1> QED
    BY <1>1, <1>2

LEMMA RemoveCategoryTyped ==
    ASSUME TypeOK, NEW id, RemoveCategory(id), faults' = faults
    PROVE  TablesTyped' /\ OneCall
  <1>1. rows' = rows
    BY NothingDeleted DEF RemoveCategory
  <1>2. CASE id \in DOMAIN cats
    BY <1>1, <1>2 DEF RemoveCategory, TablesTyped, TypeOK, OneCall
  <1>3. CASE id \notin DOMAIN cats
    BY <1>1, <1>3 DEF RemoveCategory, TablesTyped, TypeOK, OneCall
  <1> QED
    BY <1>2, <1>3

\* An update of any category with any rank keeps the table typed.
LEMMA RowsUpdated ==
    ASSUME TypeOK, NEW id \in Categories, NEW rank \in Int, NEW enabled \in BOOLEAN,
           NEW name \in Names \cup {NoName}, NEW shiftOk \in BOOLEAN, NEW writeOk \in BOOLEAN,
           Fails(<<shiftOk, writeOk>>),
           rows' = Updated(rows, id, rank, enabled, name, shiftOk, writeOk)
    PROVE  /\ rows' \in [DOMAIN rows -> Row(Names)] /\ OneCall
           /\ faults' \in 0..MaxFaults
  <1>1. IsFiniteSet(EnabledIds(rows)) /\ RankMax \in Int /\ rows \in [DOMAIN rows -> Row(Names)]
    BY EnabledFinite, RankAssumption DEF TypeOK
  <1>2. Updated(rows, id, rank, enabled, name, shiftOk, writeOk) \in [DOMAIN rows -> Row(Names)]
    BY <1>1, UpdateTyped
  <1>3. rows' = Db!Updated(rows, id, rank, enabled, name, shiftOk, writeOk)
    BY SameUpdate
  <1>4. ASSUME DbRanks = Int PROVE Db!Next
    BY <1>3, <1>4 DEF Db!Next, Db!Call, Db!UpdateCategory
  <1> QED
    BY <1>2, <1>4, FailsTyped DEF OneCall

-----------------------------------------------------------------------------
(* The rest of the state, and the handlers.                                *)

RestTyped ==
    /\ listed \in [Apps -> Nat] /\ indexed \subseteq Readable
    /\ phase \in {"down", "starting", "running"} /\ connected \in BOOLEAN
    /\ handling \in Seq(AppEntry)
    /\ heard \in Titles \cup {NoName} /\ timers \in 0..MaxLocale
    /\ sub \in {"none", "asked", "live", "lost"}
    /\ queue \in Seq(Message) /\ statusQ \in Seq(BOOLEAN) /\ settings \in Seq(Titles)
    /\ svc \in BOOLEAN /\ installed \subseteq Apps /\ locale \in Titles

LEMMA TwoParts == TablesTyped' /\ RestTyped' => TypeOK'
  BY DEF TypeOK, TablesTyped, RestTyped

\* What every step keeps.
Sound == IInv' /\ OneCall

\* A step that leaves timers, locales and the daemon's phase alone, and the tables
\* typed, has only the rest to account for.
LEMMA LocaleUntouched ==
    ASSUME IInv, TablesTyped' /\ OneCall, RestTyped', UNCHANGED <<phase, heard, timers, settings>>
    PROVE  Sound
  BY TwoParts DEF IInv, TimersPaid, Sound

LEMMA TablesUntouched == ASSUME IInv, UNCHANGED <<rows, cats, faults>> PROVE TablesTyped' /\ OneCall
  BY DEF IInv, TypeOK, TablesTyped, OneCall

\* An item of sam.apps more, or none.
LEMMA ItemsTyped ==
    ASSUME IInv, NEW id \in Apps
    PROVE  /\ AddToDatabase(id) => listed' \in [Apps -> Nat]
           /\ RemoveFromDatabase(id) => listed' \in [Apps -> Nat]
  <1>1. listed \in [Apps -> Nat]
    BY DEF IInv, TypeOK
  <1>2. Inserted(id) \in [Apps -> Nat]
    BY <1>1 DEF Inserted
  <1>3. [listed EXCEPT ![id] = 0] \in [Apps -> Nat]
    BY <1>1
  <1> QED
    BY <1>1, <1>2, <1>3 DEF AddToDatabase, RemoveFromDatabase

LEMMA NothingPending ==
    /\ 0 \in 0..MaxLocale /\ MaxLocale \in Nat /\ 0 \in 0..MaxFaults
    /\ <<>> \in Seq(Message) /\ <<>> \in Seq(AppEntry) /\ <<>> \in Seq(BOOLEAN)
    /\ <<>> \in Seq(Titles)
  <1>1. MaxLocale \in Nat /\ MaxFaults \in Nat
    BY BoundAssumption
  <1> QED
    BY <1>1

LEMMA NoItemsTyped == NoItems \in [Apps -> Nat]
  BY DEF NoItems

\* New contents, and the category that goes with them.
LEMMA ContentsTyped ==
    ASSUME IInv, NEW app \in AppEntry, AddAppContents(app)
    PROVE  TablesTyped' /\ OneCall /\ indexed' \subseteq Readable
  <1>1. app.id \in Apps /\ app.title \in Names
    BY DEF AppEntry, Names
  <1>2. CASE app.id \in Indexed
    <2>1. app.id \in Categories
      BY <1>2 DEF Categories
    <2>2. TablesTyped' /\ OneCall
      BY <1>1, <1>2, <2>1, AddCategoryTyped DEF AddAppContents, IInv
    <2>3. indexed' \subseteq Readable
      BY <1>2 DEF AddAppContents, IndexesCreated, IInv, TypeOK
    <2> QED
      BY <2>2, <2>3
  <1>3. CASE app.id \notin Indexed
    BY <1>3, TablesUntouched DEF AddAppContents, IInv, TypeOK
  <1> QED
    BY <1>2, <1>3

\* A list writes a category back with its rank, whatever that has become.
LEMMA RefreshTyped ==
    ASSUME IInv, NEW app \in AppEntry, app.id \in DOMAIN cats,
           RefreshCategory(app)
    PROVE  TablesTyped' /\ OneCall /\ indexed' \subseteq Readable
  <1> DEFINE category == [cats[app.id] EXCEPT !.name = app.title]
  <1>1. cats' = [cats EXCEPT ![app.id] = category] /\ indexed' = indexed
    BY DEF RefreshCategory
  <1>0. PICK shiftOk \in BOOLEAN, writeOk \in BOOLEAN :
           /\ Fails(<<shiftOk, writeOk>>)
           /\ rows' = Updated(rows, app.id, category.rank, category.enabled, category.name,
                              shiftOk, writeOk)
    BY DEF RefreshCategory
  <1>2. app.id \in Categories /\ cats[app.id] \in Row(Names) /\ app.title \in Names
    BY DEF IInv, TypeOK, AppEntry, Names
  <1>3. category \in Row(Names)
    BY <1>2 DEF Row
  <1>4. category.rank \in Int /\ category.enabled \in BOOLEAN /\ category.name \in Names
    BY <1>3 DEF Row
  <1> HIDE DEF category
  <1>5. rows' \in [DOMAIN rows -> Row(Names)] /\ OneCall /\ faults' \in 0..MaxFaults
    BY <1>0, <1>2, <1>4, RowsUpdated DEF IInv
  <1>6. cats' \in [DOMAIN cats -> Row(Names)]
    BY <1>1, <1>3 DEF IInv, TypeOK
  <1> QED
    BY <1>1, <1>5, <1>6 DEF TablesTyped, IInv, TypeOK

\* The message at the head is of the kind the handler is for.
LEMMA Received ==
    ASSUME IInv, NEW kind, Receives(kind)
    PROVE  /\ Head(queue) \in Message /\ Tail(queue) \in Seq(Message)
           /\ kind = "list" => Head(queue).apps \in Seq(AppEntry)
           /\ kind \in {"added", "removed"} => Head(queue).app \in AppEntry
  <1>1. Head(queue) \in Message /\ Tail(queue) \in Seq(Message)
    BY HeadTailProperties DEF IInv, TypeOK, Receives
  <1>2. Head(queue).kind = kind
    BY DEF Receives
  <1> QED
    BY <1>1, <1>2 DEF Message

LEMMA HandlerSound == ASSUME IInv, Handler PROVE Sound
  <1>1. CASE BeginList
    <2>1. UNCHANGED <<rows, cats, faults>> /\ UNCHANGED <<phase, heard, timers, settings>>
      BY <1>1 DEF BeginList, envVars
    <2>2. RestTyped'
      BY <1>1, Received, NoItemsTyped DEF BeginList, IInv, TypeOK, RestTyped, envVars
    <2> QED
      BY <2>1, <2>2, TablesUntouched, LocaleUntouched
  <1>2. CASE ListOne
    <2> DEFINE app == Head(handling)
    <2>1. app \in AppEntry /\ Tail(handling) \in Seq(AppEntry)
      BY <1>2, HeadTailProperties DEF ListOne, IInv, TypeOK
    <2>2. app.id \in Apps
      BY <2>1 DEF AppEntry
    <2>3. /\ AddToDatabase(app.id)
          /\ IF app.id \in DOMAIN cats THEN RefreshCategory(app) ELSE AddAppContents(app)
      BY <1>2 DEF ListOne
    <2> HIDE DEF app
    <2>4. listed' \in [Apps -> Nat]
      BY <2>2, <2>3, ItemsTyped
    <2>5. TablesTyped' /\ OneCall /\ indexed' \subseteq Readable
      BY <2>1, <2>3, RefreshTyped, ContentsTyped
    <2>6. UNCHANGED <<phase, heard, timers, settings>>
      BY <1>2 DEF ListOne, busVars
    <2>7. RestTyped'
      BY <1>2, <2>1, <2>4, <2>5 DEF ListOne, IInv, TypeOK, RestTyped, busVars, envVars, app
    <2> QED
      BY <2>5, <2>6, <2>7, LocaleUntouched
  <1>3. CASE Added
    <2> DEFINE app == Head(queue).app
    <2>1. app \in AppEntry /\ Tail(queue) \in Seq(Message)
      BY <1>3, Received DEF Added
    <2>2. app.id \in Apps
      BY <2>1 DEF AppEntry
    <2>3. AddToDatabase(app.id) /\ AddAppContents(app)
      BY <1>3 DEF Added
    <2> HIDE DEF app
    <2>4. listed' \in [Apps -> Nat] /\ TablesTyped' /\ OneCall /\ indexed' \subseteq Readable
      BY <2>1, <2>2, <2>3, ItemsTyped, ContentsTyped
    <2>5. UNCHANGED <<phase, heard, timers, settings>>
      BY <1>3 DEF Added
    <2>6. RestTyped'
      BY <1>3, <2>1, <2>4 DEF Added, IInv, TypeOK, RestTyped, envVars
    <2> QED
      BY <2>4, <2>5, <2>6, LocaleUntouched
  <1>4. CASE Removed
    <2> DEFINE id == Head(queue).app.id
    <2>1. id \in Apps /\ Tail(queue) \in Seq(Message)
      BY <1>4, Received DEF Removed, AppEntry
    <2>2. RemoveFromDatabase(id) /\ RemoveCategory(id) /\ faults' = faults
      BY <1>4 DEF Removed
    <2> HIDE DEF id
    <2>3. listed' \in [Apps -> Nat] /\ TablesTyped' /\ OneCall
      BY <2>1, <2>2, ItemsTyped, RemoveCategoryTyped DEF IInv
    <2>4. UNCHANGED <<phase, heard, timers, settings>>
      BY <1>4 DEF Removed
    <2>5. RestTyped'
      BY <1>4, <2>1, <2>3 DEF Removed, IInv, TypeOK, RestTyped, envVars
    <2> QED
      BY <2>3, <2>4, <2>5, LocaleUntouched
  <1> QED
    BY <1>1, <1>2, <1>3, <1>4 DEF Handler

-----------------------------------------------------------------------------
(* Start, subscription and locale.                                         *)

LEMMA StartSound == ASSUME IInv, Start PROVE Sound
  <1>1. TablesTyped' /\ OneCall
    BY RegistrationTyped DEF Start, SearchSetAdded, IInv, Categories, Names
  <1>2. settings' = <<locale>> /\ statusQ' = <<svc>> /\ listed' = NoItems
    BY DEF Start, SubscribeSettings, RegisterServerStatus, ApplicationsMade
  <1>3. settings' \in Seq(Titles) /\ Len(settings') = 1 /\ statusQ' \in Seq(BOOLEAN)
    BY <1>2 DEF IInv, TypeOK
  <1>4. RestTyped'
    BY <1>2, <1>3, NoItemsTyped DEF Start, IInv, TypeOK, RestTyped, envVars
  <1>5. TimersPaid'
    BY <1>3, NothingPending DEF Start, IInv, TimersPaid
  <1> QED
    BY <1>1, <1>4, <1>5, TwoParts DEF Sound, IInv

LEMMA LoadPluginsSound == ASSUME IInv, LoadPlugins PROVE Sound
  <1>1. TablesTyped' /\ OneCall
    BY AddCategoryTyped DEF LoadPlugins, IInv, Categories, Names
  <1>2. RestTyped'
    BY DEF LoadPlugins, IInv, TypeOK, RestTyped, busVars, envVars
  <1>3. TimersPaid'
    BY DEF LoadPlugins, IInv, TimersPaid, busVars
  <1> QED
    BY <1>1, <1>2, <1>3, TwoParts DEF Sound, IInv

LEMMA SubscriptionSound ==
    ASSUME IInv, StatusChanged \/ ReloadAppsByLocaleChange
    PROVE  Sound
  <1>1. UNCHANGED <<rows, cats, faults>>
    BY DEF StatusChanged, ReloadAppsByLocaleChange, dbVars
  <1>2. statusQ' \in Seq(BOOLEAN) /\ connected' \in BOOLEAN
    BY HeadTailProperties DEF StatusChanged, ReloadAppsByLocaleChange, IInv, TypeOK
  <1> DEFINE Fresh == sub' \in {"none", "asked", "live", "lost"} /\ queue' \in Seq(Message)
  <1>3. Fresh
    <2>1. Subscribe \/ Cancel => Fresh
      BY NothingPending DEF Subscribe, Cancel
    <2>2. UNCHANGED <<sub, queue>> => Fresh
      BY DEF IInv, TypeOK
    <2>3. Subscribe \/ Cancel \/ UNCHANGED <<sub, queue>>
      BY DEF StatusChanged, ReloadAppsByLocaleChange
    <2> QED
      BY <2>1, <2>2, <2>3
  <1>4. timers' \in 0..MaxLocale /\ timers' <= timers /\ (timers = 0 => timers' = 0)
    <2>1. timers \in 0..MaxLocale /\ MaxLocale \in Nat
      BY NothingPending DEF IInv, TypeOK
    <2>2. timers' = timers \/ (timers > 0 /\ timers' = timers - 1)
      BY DEF StatusChanged, ReloadAppsByLocaleChange
    <2> QED
      BY <2>1, <2>2
  <1>5. UNCHANGED <<listed, indexed, phase, handling, heard, settings, svc, installed, locale>>
    BY DEF StatusChanged, ReloadAppsByLocaleChange, dbVars, envVars
  <1>6. RestTyped'
    BY <1>2, <1>3, <1>4, <1>5 DEF IInv, TypeOK, RestTyped
  <1>7. Len(settings) \in Nat /\ timers \in Nat /\ timers' \in Nat /\ MaxLocale \in Nat
    BY <1>4, NothingPending DEF IInv, TypeOK
  <1>8. TimersPaid'
    BY <1>4, <1>5, <1>7 DEF IInv, TimersPaid
  <1> QED
    BY <1>1, <1>6, <1>8, TablesUntouched, TwoParts DEF Sound, IInv

LEMMA LocaleChangedSound == ASSUME IInv, LocaleChanged PROVE Sound
  <1>1. UNCHANGED <<rows, cats, faults>>
    BY DEF LocaleChanged, dbVars
  <1>2. /\ Head(settings) \in Titles /\ Tail(settings) \in Seq(Titles)
        /\ Len(Tail(settings)) = Len(settings) - 1
    BY HeadTailProperties DEF LocaleChanged, IInv, TypeOK
  <1>3. /\ settings' = Tail(settings) /\ heard' = Head(settings) /\ phase' = phase
        /\ timers' = IF heard \notin {NoName, heard'} THEN timers + 1 ELSE timers
        /\ phase = "running"
    BY DEF LocaleChanged, Idle
  <1>4. heard' # NoName
    BY <1>2, <1>3, NameAssumption DEF Names
  <1>5. Len(settings) \in Nat /\ Len(settings') \in Nat /\ timers \in Nat /\ MaxLocale \in Nat
        /\ Len(settings') = Len(settings) - 1
    BY <1>2, <1>3, NothingPending DEF IInv, TypeOK
  <1>6. timers' \in 0..MaxLocale /\ Len(settings') + timers' <= MaxLocale
    <2>1. CASE heard = NoName
      <3>1. timers' = 0 /\ Len(settings) <= MaxLocale + 1
        BY <1>3, <2>1 DEF IInv, TimersPaid
      <3> QED
        BY <1>5, <3>1
    <2>2. CASE heard # NoName
      <3>1. timers' \in {timers, timers + 1} /\ Len(settings) + timers <= MaxLocale
        BY <1>3, <2>2 DEF IInv, TimersPaid
      <3> QED
        BY <1>5, <3>1
    <2> QED
      BY <2>1, <2>2
  <1>7. TimersPaid'
    BY <1>3, <1>4, <1>6 DEF TimersPaid
  <1>8. RestTyped'
    BY <1>2, <1>3, <1>6 DEF LocaleChanged, IInv, TypeOK, RestTyped, dbVars, envVars
  <1> QED
    BY <1>1, <1>7, <1>8, TablesUntouched, TwoParts DEF Sound, IInv

-----------------------------------------------------------------------------
(* The services, and death.                                                *)

LEMMA EntryTyped == ASSUME IInv, NEW id \in Apps PROVE Entry(id) \in AppEntry
  BY DEF IInv, TypeOK, Entry, AppEntry

\* Whatever the order, the list served is one of applications.
LEMMA ListTyped ==
    ASSUME IInv, NEW ids \in SetToSeqs(installed)
    PROVE  Entries(ids) \in Seq(AppEntry)
  <1>1. IsFiniteSet(installed)
    BY FiniteAssumption, FS_Subset DEF IInv, TypeOK
  <1>2. Cardinality(installed) \in Nat
    BY <1>1, FS_CardinalityType
  <1>3. ids \in [1..Cardinality(installed) -> installed]
    BY DEF SetToSeqs
  <1>4. \A k \in DOMAIN ids : Entry(ids[k]) \in AppEntry
    BY <1>3, EntryTyped DEF IInv, TypeOK
  <1>5. Entries(ids) \in [1..Cardinality(installed) -> AppEntry]
    BY <1>3, <1>4 DEF Entries
  <1> QED
    BY <1>2, <1>5, SeqDef

LEMMA ServeListSound == ASSUME IInv, ServeList PROVE Sound
  <1>1. UNCHANGED <<rows, cats, faults>> /\ UNCHANGED <<phase, heard, timers, settings>>
    BY DEF ServeList, dbVars, selfVars
  <1>2. PICK ids \in SetToSeqs(installed) :
           queue' = Append(queue, [kind |-> "list", apps |-> Entries(ids)])
    BY DEF ServeList
  <1>3. [kind |-> "list", apps |-> Entries(ids)] \in Message
    BY ListTyped DEF Message
  <1>4. queue' \in Seq(Message)
    BY <1>2, <1>3, AppendProperties DEF IInv, TypeOK
  <1>5. RestTyped'
    BY <1>4 DEF ServeList, IInv, TypeOK, RestTyped, dbVars, selfVars, envVars
  <1> QED
    BY <1>1, <1>5, TablesUntouched, LocaleUntouched

LEMMA TellTyped ==
    ASSUME IInv, NEW id \in Apps, NEW kind \in {"added", "removed"}, Tell(kind, id)
    PROVE  queue' \in Seq(Message)
  <1>1. [kind |-> kind, app |-> Entry(id)] \in Message
    BY EntryTyped DEF Message
  <1>2. queue \in Seq(Message)
    BY DEF IInv, TypeOK
  <1>3. Append(queue, [kind |-> kind, app |-> Entry(id)]) \in Seq(Message)
    BY <1>1, <1>2, AppendProperties
  <1> QED
    BY <1>2, <1>3 DEF Tell

LEMMA EnvironmentSound == ASSUME IInv, Environment PROVE Sound
  <1>1. CASE Crash
    <2>1. TablesTyped' /\ OneCall
      BY <1>1 DEF Crash, dbVars, EmptyTable, IInv, TypeOK, TablesTyped, OneCall
    <2>2. RestTyped'
      BY <1>1, NothingPending DEF Crash, IInv, TypeOK, RestTyped, dbVars, envVars
    <2>3. Len(settings') = 0
      BY <1>1 DEF Crash
    <2>4. TimersPaid'
      BY <1>1, <2>3, NothingPending DEF Crash, TimersPaid
    <2> QED
      BY <2>1, <2>2, <2>4, TwoParts DEF Sound, IInv
  <1>2. CASE ServiceFlips
    <2>1. UNCHANGED <<rows, cats, faults>> /\ UNCHANGED <<phase, heard, timers, settings>>
      BY <1>2 DEF ServiceFlips, dbVars, selfVars
    <2>2. svc' \in BOOLEAN
      BY <1>2 DEF ServiceFlips, IInv, TypeOK
    <2>3. statusQ' \in Seq(BOOLEAN)
      BY <1>2, <2>2, AppendProperties DEF ServiceFlips, IInv, TypeOK
    <2>4. RestTyped'
      BY <1>2, <2>2, <2>3 DEF ServiceFlips, IInv, TypeOK, RestTyped, dbVars, selfVars
    <2> QED
      BY <2>1, <2>4, TablesUntouched, LocaleUntouched
  <1>3. ASSUME NEW id \in Apps, Install(id) \/ Uninstall(id)
        PROVE  Sound
    <2>1. UNCHANGED <<rows, cats, faults>> /\ UNCHANGED <<phase, heard, timers, settings>>
      BY <1>3 DEF Install, Uninstall, dbVars, selfVars
    <2>2. queue' \in Seq(Message)
      BY <1>3, TellTyped DEF Install, Uninstall
    <2>3. RestTyped'
      BY <1>3, <2>2 DEF Install, Uninstall, IInv, TypeOK, RestTyped, dbVars, selfVars
    <2> QED
      BY <2>1, <2>3, TablesUntouched, LocaleUntouched
  <1>4. ASSUME NEW new \in Titles, LocaleSet(new)
        PROVE  Sound
    <2>1. UNCHANGED <<rows, cats, faults>> /\ UNCHANGED <<phase, heard, timers>>
      BY <1>4 DEF LocaleSet, dbVars, selfVars
    <2>2. settings' \in Seq(Titles) /\ Len(settings') <= Len(settings) + 1
          /\ (phase = "down" => settings' = settings)
      BY <1>4, AppendProperties DEF LocaleSet, IInv, TypeOK
    <2>3. Len(settings) \in Nat /\ Len(settings') \in Nat /\ timers \in Nat /\ MaxLocale \in Nat
      BY <2>2, NothingPending DEF IInv, TypeOK
    <2>4. Len(settings) + timers < MaxLocale
      BY <1>4 DEF LocaleSet
    <2>5. TimersPaid'
      BY <2>1, <2>2, <2>3, <2>4 DEF IInv, TimersPaid
    <2>6. RestTyped'
      BY <1>4, <2>2 DEF LocaleSet, IInv, TypeOK, RestTyped, dbVars, selfVars
    <2> QED
      BY <2>1, <2>5, <2>6, TablesUntouched, TwoParts DEF Sound, IInv
  <1> QED
    BY <1>1, <1>2, <1>3, <1>4 DEF Environment

\* A client's update writes the flag, and nothing else, into memory.
LEMMA ClientSound == ASSUME IInv, Client PROVE Sound
  <1>1. PICK id \in Categories, rank \in RankInputs \cup {0, RankMax}, enabled \in BOOLEAN,
             name \in NameInputs : UpdateCategory(id, rank, enabled, name)
    BY DEF Client
  <1>2. rank \in Int /\ name \in Names \cup {NoName}
    BY RankAssumption, NameAssumption
  <1>3. PICK shiftOk \in BOOLEAN, writeOk \in BOOLEAN :
           /\ Fails(<<shiftOk, writeOk>>)
           /\ rows' = Updated(rows, id, rank, enabled, name, shiftOk, writeOk)
           /\ cats' = Applied(id, enabled, Found(rows, id) /\ writeOk)
    BY <1>1 DEF UpdateCategory
  <1>4. rows' \in [DOMAIN rows -> Row(Names)] /\ OneCall /\ faults' \in 0..MaxFaults
    BY <1>2, <1>3, RowsUpdated DEF IInv
  <1>5. cats' \in [DOMAIN cats -> Row(Names)]
    <2>1. \A i \in DOMAIN cats : [cats[i] EXCEPT !.enabled = enabled] \in Row(Names)
      BY DEF IInv, TypeOK, Row
    <2> QED
      BY <1>3, <2>1 DEF Applied, Registers, IInv, TypeOK
  <1>6. TablesTyped' /\ OneCall
    BY <1>4, <1>5 DEF TablesTyped, IInv, TypeOK
  <1>7. RestTyped' /\ UNCHANGED <<phase, heard, timers, settings>>
    BY <1>1 DEF UpdateCategory, IInv, TypeOK, RestTyped, busVars, envVars
  <1> QED
    BY <1>6, <1>7, LocaleUntouched

-----------------------------------------------------------------------------
(* The types and the table.                                                *)

LEMMA InitSound == Init => IInv /\ Db!Init
  <1> SUFFICES ASSUME Init PROVE IInv /\ Db!Init
    OBVIOUS
  <1>1. TypeOK
    BY NothingPending DEF Init, TypeOK, EmptyTable
  <1>2. TimersPaid
    BY NothingPending DEF Init, TimersPaid
  <1>3. Db!Init
    BY DEF Init, EmptyTable, Db!Init, Db!EmptyTable
  <1> QED
    BY <1>1, <1>2, <1>3 DEF IInv

LEMMA NextSound == IInv /\ [Next]_vars => IInv' /\ OneCall
  <1> SUFFICES ASSUME IInv, [Next]_vars PROVE Sound
    BY DEF Sound
  <1>1. CASE UNCHANGED vars
    <2>1. UNCHANGED <<rows, cats, faults>> /\ UNCHANGED <<phase, heard, timers, settings>>
      BY <1>1 DEF vars, dbVars, selfVars, busVars
    <2>2. RestTyped'
      BY <1>1 DEF vars, dbVars, selfVars, busVars, envVars, IInv, TypeOK, RestTyped
    <2> QED
      BY <2>1, <2>2, TablesUntouched, LocaleUntouched
  <1>2. CASE Step
    BY <1>2, StartSound, LoadPluginsSound, HandlerSound, SubscriptionSound,
       LocaleChangedSound, ServeListSound DEF Step
  <1>3. CASE Environment
    BY <1>3, EnvironmentSound
  <1>4. CASE Client
    BY <1>4, ClientSound
  <1> QED
    BY <1>1, <1>2, <1>3, <1>4 DEF Next

LEMMA AlwaysSound == Spec => []IInv
  <1>1. IInv /\ [Next]_vars => IInv'
    BY NextSound
  <1> QED
    BY <1>1, InitSound, PTL DEF Spec

\* For any applications, services and clients, the tables hold rows of known
\* categories, the bus delivers what the handlers expect, and no more reload timers run
\* than locale changes were told of (SAM.cpp, SettingService.cpp, Database.cpp).
THEOREM TypeCorrect == Spec => []TypeOK
  <1>1. IInv => TypeOK
    BY DEF IInv
  <1> QED
    BY <1>1, AlwaysSound, PTL

\* Whatever the daemon, the services and the clients do, and whenever it dies, the
\* Category table goes through nothing but calls of CategoryDb (SAM.cpp 77-147,
\* SearchManager.cpp 51-112, UnifiedSearch.cpp 141-194).
THEOREM TableIsCategoryDb == ASSUME DbRanks = Int PROVE Spec => CallsTheTable
  <1>1. IInv /\ [Next]_vars => IInv' /\ [Db!Next]_rows
    BY NextSound DEF OneCall
  <1> QED
    BY <1>1, InitSound, PTL DEF Spec, CallsTheTable, Db!Spec

-----------------------------------------------------------------------------
(* The flags.                                                              *)

FlagsInv == IsTable(rows) /\ IsTable(cats) /\ EnabledAgrees

\* What a step that is no client's does to rows and categories.
Kept == FlagsInv' /\ FlagsKept

LEMMA InitFlags == Init => FlagsInv
  BY DEF Init, FlagsInv, IsTable, EmptyTable, EnabledAgrees

LEMMA NothingChanges == FlagsInv /\ UNCHANGED <<rows, cats>> => Kept
  BY DEF FlagsInv, Kept, EnabledAgrees, FlagsKept

\* A category registered with the row it has, or would have had, agrees with it.
LEMMA RegistrationKeeps ==
    ASSUME FlagsInv, NEW id, NEW name, NEW ok \in BOOLEAN,
           AdjustOrCreateCategory(id, name, ok)
    PROVE  Kept
  <1> DEFINE table == AdjustOrCreate(rows, id, name)
  <1>1. rows' = (IF ok THEN table ELSE rows) /\ cats' = Registered(cats, table, id)
    BY DEF AdjustOrCreateCategory
  <1>2. RowAdded(rows, table, id)
    BY CreationAddsOneRow DEF FlagsInv
  <1>3. id \in DOMAIN table
    BY DEF AdjustOrCreate
  <1> HIDE DEF table
  <1>4. /\ DOMAIN cats' = DOMAIN cats \cup {id}
        /\ cats' = [i \in DOMAIN cats' |-> cats'[i]]
        /\ \A i \in DOMAIN cats' : cats'[i] = IF i = id THEN table[i] ELSE cats[i]
    BY <1>1 DEF Registered
  <1>5. IsTable(table) /\ DOMAIN rows \subseteq DOMAIN table
        /\ \A i \in DOMAIN rows : table[i] = rows[i]
    BY <1>2 DEF RowAdded
  <1>6. DOMAIN table \subseteq DOMAIN rows \cup {id}
    BY <1>2 DEF RowAdded
  <1>7. IsTable(rows') /\ DOMAIN rows \subseteq DOMAIN rows' /\ DOMAIN rows' \subseteq DOMAIN table
        /\ \A i \in DOMAIN rows' : rows'[i] = table[i]
    BY <1>1, <1>5 DEF FlagsInv
  <1>8. IsTable(cats')
    BY <1>3, <1>4, <1>5 DEF IsTable, FlagsInv
  <1>9. ASSUME NEW i \in DOMAIN cats' \cap DOMAIN rows' PROVE cats'[i].enabled = rows'[i].enabled
    BY <1>4, <1>5, <1>6, <1>7 DEF EnabledAgrees, FlagsInv
  <1>10. FlagsKept
    BY <1>5, <1>7 DEF FlagsKept
  <1> QED
    BY <1>7, <1>8, <1>9, <1>10 DEF Kept, FlagsInv, EnabledAgrees

LEMMA AddCategoryKeeps ==
    ASSUME FlagsInv, NEW id, NEW name, AddCategory(id, name)
    PROVE  Kept
  <1>1. CASE id \in DOMAIN cats
    BY <1>1, NothingChanges DEF AddCategory
  <1>2. CASE id \notin DOMAIN cats
    BY <1>2, RegistrationKeeps DEF AddCategory
  <1> QED
    BY <1>1, <1>2

\* Removing a category forgets it in memory, and nowhere else.
LEMMA RemoveCategoryKeeps ==
    ASSUME FlagsInv, NEW id, RemoveCategory(id)
    PROVE  Kept
  <1>1. CASE id \notin DOMAIN cats
    BY <1>1, NothingChanges DEF RemoveCategory
  <1>2. CASE id \in DOMAIN cats
    <2>1. rows' = rows /\ cats' = [i \in DOMAIN cats \ {id} |-> cats[i]]
      BY <1>2, NothingDeleted DEF RemoveCategory
    <2> QED
      BY <2>1 DEF FlagsInv, IsTable, Kept, EnabledAgrees, FlagsKept
  <1> QED
    BY <1>1, <1>2

\* A list writes back the flag that memory and row share.
LEMMA RefreshKeeps ==
    ASSUME FlagsInv, NEW app, app.id \in DOMAIN cats, RefreshCategory(app)
    PROVE  Kept
  <1> DEFINE id       == app.id
             category == [cats[id] EXCEPT !.name = app.title]
  <1>1. PICK shiftOk \in BOOLEAN, writeOk \in BOOLEAN :
           rows' = Updated(rows, id, category.rank, category.enabled, category.name,
                           shiftOk, writeOk)
    BY DEF RefreshCategory
  <1>0. cats' = [cats EXCEPT ![id] = category]
    BY DEF RefreshCategory
  <1>2. IsRow(cats[id])
    BY DEF FlagsInv, IsTable
  <1>3. IsRow(category) /\ category.enabled = cats[id].enabled
    BY <1>2 DEF IsRow
  <1>4. category.enabled \in BOOLEAN
    BY <1>3 DEF IsRow
  <1> HIDE DEF category, id
  <1>5. FlagSet(rows, rows', id, Found(rows, id) /\ writeOk, category.enabled)
    BY <1>1, <1>4, UpdateSetsOneFlag DEF FlagsInv
  <1>6. id \in DOMAIN cats
    BY DEF id
  <1>7. id \in DOMAIN rows => cats[id].enabled = rows[id].enabled
    BY <1>6 DEF FlagsInv, EnabledAgrees
  <1>8. IsTable(rows') /\ DOMAIN rows' = DOMAIN rows
        /\ \A i \in DOMAIN rows : rows'[i].enabled = rows[i].enabled
    BY <1>3, <1>5, <1>7 DEF FlagSet
  <1>9. /\ DOMAIN cats' = DOMAIN cats /\ IsTable(cats')
        /\ \A i \in DOMAIN cats : cats'[i].enabled = cats[i].enabled
    BY <1>0, <1>3, <1>6 DEF FlagsInv, IsTable
  <1> QED
    BY <1>8, <1>9 DEF FlagsInv, Kept, EnabledAgrees, FlagsKept

LEMMA AddContentsKeeps ==
    ASSUME FlagsInv, NEW app, AddAppContents(app)
    PROVE  Kept
  <1>1. CASE app.id \in Indexed
    BY <1>1, AddCategoryKeeps DEF AddAppContents
  <1>2. CASE app.id \notin Indexed
    BY <1>2, NothingChanges DEF AddAppContents
  <1> QED
    BY <1>1, <1>2

LEMMA HandlerKeeps ==
    ASSUME FlagsInv, Handler
    PROVE  Kept
  <1>1. CASE BeginList
    BY <1>1, NothingChanges DEF BeginList
  <1>2. CASE ListOne
    <2>1. CASE Head(handling).id \in DOMAIN cats
      BY <1>2, <2>1, RefreshKeeps DEF ListOne
    <2>2. CASE Head(handling).id \notin DOMAIN cats
      BY <1>2, <2>2, AddContentsKeeps DEF ListOne
    <2> QED
      BY <2>1, <2>2
  <1>3. CASE Added
    BY <1>3, AddContentsKeeps DEF Added
  <1>4. CASE Removed
    BY <1>4, RemoveCategoryKeeps DEF Removed
  <1> QED
    BY <1>1, <1>2, <1>3, <1>4 DEF Handler

LEMMA StepKeeps ==
    ASSUME FlagsInv, Step
    PROVE  Kept
  <1>1. CASE Start
    <2>1. PICK ok \in BOOLEAN : AdjustOrCreateCategory(SamApps, BuiltinName, ok)
      BY <1>1 DEF Start, SearchSetAdded
    <2> QED
      BY <2>1, RegistrationKeeps
  <1>2. CASE LoadPlugins
    BY <1>2, AddCategoryKeeps DEF LoadPlugins
  <1>3. CASE Handler
    BY <1>3, HandlerKeeps
  <1>4. CASE StatusChanged \/ ReloadAppsByLocaleChange \/ LocaleChanged \/ ServeList
    BY <1>4, NothingChanges
       DEF StatusChanged, ReloadAppsByLocaleChange, LocaleChanged, ServeList, dbVars, selfVars
  <1> QED
    BY <1>1, <1>2, <1>3, <1>4 DEF Step

\* The services change nothing here; a death leaves the rows.
LEMMA EnvironmentKeeps ==
    ASSUME FlagsInv, Environment
    PROVE  Kept
  <1>1. CASE Crash
    <2>1. rows' = rows /\ cats' = EmptyTable
      BY <1>1 DEF Crash, dbVars
    <2> QED
      BY <2>1 DEF FlagsInv, Kept, IsTable, EmptyTable, EnabledAgrees, FlagsKept
  <1>2. CASE ServiceFlips
    BY <1>2, NothingChanges DEF ServiceFlips, dbVars, selfVars
  <1>3. ASSUME NEW id \in Apps, Install(id) \/ Uninstall(id)
        PROVE  Kept
    BY <1>3, NothingChanges DEF Install, Uninstall, dbVars, selfVars
  <1>4. ASSUME NEW new \in Titles, LocaleSet(new)
        PROVE  Kept
    BY <1>4, NothingChanges DEF LocaleSet, dbVars, selfVars
  <1> QED
    BY <1>1, <1>2, <1>3, <1>4 DEF Environment

\* A client's update switches row and category together, or neither.
LEMMA ClientAgrees ==
    ASSUME FlagsInv, Client
    PROVE  FlagsInv'
  <1>1. PICK id \in Categories, rank \in RankInputs \cup {0, RankMax}, enabled \in BOOLEAN,
             name \in NameInputs : UpdateCategory(id, rank, enabled, name)
    BY DEF Client
  <1>2. PICK shiftOk \in BOOLEAN, writeOk \in BOOLEAN :
           /\ rows' = Updated(rows, id, rank, enabled, name, shiftOk, writeOk)
           /\ cats' = Applied(id, enabled, Found(rows, id) /\ writeOk)
    BY <1>1 DEF UpdateCategory
  <1>3. FlagSet(rows, rows', id, Found(rows, id) /\ writeOk, enabled)
    BY <1>2, UpdateSetsOneFlag DEF FlagsInv
  <1>4. CASE Found(rows, id) /\ writeOk /\ id \in DOMAIN cats
    <2>1. cats' = [cats EXCEPT ![id].enabled = enabled]
      BY <1>2, <1>4 DEF Applied, Registers
    <2>2. /\ DOMAIN cats' = DOMAIN cats /\ cats' = [i \in DOMAIN cats' |-> cats'[i]]
          /\ \A i \in DOMAIN cats :
                cats'[i] = IF i = id THEN [cats[i] EXCEPT !.enabled = enabled] ELSE cats[i]
      BY <2>1 DEF FlagsInv, IsTable
    <2>3. \A i \in DOMAIN cats : IsRow(cats[i])
      BY DEF FlagsInv, IsTable
    <2>4. \A i \in DOMAIN cats :
             IsRow(cats'[i]) /\ cats'[i].enabled = IF i = id THEN enabled ELSE cats[i].enabled
      BY <2>2, <2>3 DEF IsRow
    <2> QED
      BY <1>3, <1>4, <2>2, <2>4 DEF FlagSet, FlagsInv, IsTable, EnabledAgrees
  <1>5. CASE ~(Found(rows, id) /\ writeOk /\ id \in DOMAIN cats)
    <2>1. cats' = cats
      BY <1>2, <1>5 DEF Applied, Registers
    <2> QED
      BY <1>3, <1>5, <2>1 DEF FlagSet, FlagsInv, EnabledAgrees
  <1> QED
    BY <1>4, <1>5

LEMMA NextKeeps == FlagsInv /\ [Next]_vars => FlagsInv' /\ (FlagsKept \/ Client)
  <1> SUFFICES ASSUME FlagsInv, [Next]_vars
               PROVE  FlagsInv' /\ (FlagsKept \/ Client)
    OBVIOUS
  <1>1. CASE Step \/ Environment \/ UNCHANGED vars
    BY <1>1, StepKeeps, EnvironmentKeeps, NothingChanges DEF Kept, vars, dbVars, selfVars
  <1>2. CASE Client
    BY <1>2, ClientAgrees
  <1> QED
    BY <1>1, <1>2 DEF Next

LEMMA FlagsAlways == Spec => []FlagsInv
  <1>1. FlagsInv /\ [Next]_vars => FlagsInv'
    BY NextKeeps
  <1> QED
    BY <1>1, InitFlags, PTL DEF Spec

-----------------------------------------------------------------------------

\* For any applications and messages, and whatever statements fail, a category that is
\* registered and has a row is on in both or off in both (UnifiedSearch.cpp 180-190,
\* SAM.cpp 89-97, 126-147, Database.cpp 104-156).
THEOREM MemoryAgreesWithTable == Spec => []EnabledAgrees
  <1>1. FlagsInv => EnabledAgrees
    BY DEF FlagsInv
  <1> QED
    BY <1>1, FlagsAlways, PTL

\* For any applications and messages, nothing but a client of the bus API switches a
\* category (SAM.cpp 94-97, Database.cpp 112-122).
THEOREM OnlyClientsSwitch == Spec => ChoiceIsUsers
  <1>1. FlagsInv /\ [Next]_vars => [FlagsKept \/ Client]_vars
    BY NextKeeps
  <1> QED
    BY <1>1, FlagsAlways, PTL DEF Spec, ChoiceIsUsers
=============================================================================
