------------------------------ MODULE AppIndex ------------------------------
(***************************************************************************)
(* Building the search items of an application (AppContents.cpp).          *)
(*                                                                         *)
(* The application's index names items by label keys; its resources        *)
(* translate the keys, one file for each language or region.  An item is   *)
(* stored under all translations of its labels, and titled by those of its *)
(* first label.  Whenever an AppContents is made it erases the items of    *)
(* its category, reads the index, the manifest of the resources and their  *)
(* files, and stores the items one at a time.  Another process may install *)
(* another version between any two of the reads, and the daemon may die    *)
(* at any moment.                                                          *)
(* A definition marked "variant" is the one after it with a mistake in it. *)
(***************************************************************************)
EXTENDS Integers, FiniteSets, Sequences, SequencesExt

CONSTANTS
    Keys,        \* label keys
    Folders,     \* where resource files are, such as "ko" or "en/GB"
    LanguageOf,  \* folder -> language, its path up to the "/"
    English,     \* "en"
    Unheard,     \* the language of a user for which no file is, or of no user yet
    Packages     \* versions of the application

Languages == {LanguageOf[f] : f \in Folders} \cup {English}

\* A version has a manifest that names string files, the keys each file translates, none
\* for one that cannot be read, and an index of items: whether they have a "path" or an
\* "extra", and their labels.
Items == [launches : BOOLEAN, labels : Seq(Keys)]
Package == [manifest : Seq(Folders), labels : [Folders -> SUBSET Keys], items : Seq(Items)]

\* What was read of one or of several versions.
Files == [folder : Folders, keys : SUBSET Keys]
Reading == [files : Seq(Files), items : Seq(Items)]

ASSUME PackagesAssumption == Packages \subseteq Package
ASSUME LanguageAssumption == DOMAIN LanguageOf = Folders

VARIABLES
    package,   \* the version installed
    phase,     \* "down", then "manifest" and "labels" while they are read, "building", "built"
    left,      \* the string files still to read
    allLabels, \* key -> its translations, as pairs of a language and a text
    display,   \* the title in the object that all items are stored with, one after the other
    todo,      \* items still to index
    stored,    \* the items of the category in the Items table
    read,      \* what was read since the last erasure (history)
    mixed      \* whether an update fell between two of the reads (history)

vars == <<package, phase, left, allLabels, display, todo, stored, read, mixed>>

\* What a file says for a key; a key may stand for itself.
Text(key, folder) == <<key, folder>>
Itself(key) == <<key>>

TypeOK ==
    /\ package \in Packages /\ read \in Reading /\ mixed \in BOOLEAN
    /\ phase \in {"down", "manifest", "labels", "building", "built"}
    /\ left \in Seq(Folders)
    /\ \A key \in Keys : {t[1] : t \in allLabels[key]} \subseteq Languages
    /\ todo \in Seq(Items)
    /\ \A k \in DOMAIN stored : stored[k].title # {} /\ stored[k].value # {}

-----------------------------------------------------------------------------

Overwritten(translations, language, text) ==
    {t \in translations : t[1] # language} \cup {<<language, text>>}

\* (variant: the folder is taken for the language)
AddFileByFolder(labels, file) ==
    [key \in Keys |->
        IF key \in file.keys
        THEN Overwritten(labels[key], file.folder, Text(key, file.folder))
        ELSE labels[key]]

\* A later file of the same language overwrites.
AddFile(labels, file) ==
    [key \in Keys |->
        IF key \in file.keys
        THEN Overwritten(labels[key], LanguageOf[file.folder], Text(key, file.folder))
        ELSE labels[key]]

NoLabels == [key \in Keys |-> {}]

\* A loop that keeps the elements of a set and passes over the others, turn by turn.
KeptAfter(s, S) ==
    LET kept[n \in 0..Len(s)] ==
            IF n = 0 THEN <<>>
            ELSE IF s[n] \in S THEN Append(kept[n - 1], s[n]) ELSE kept[n - 1]
    IN  kept

Among(s, S) == KeptAfter(s, S)[Len(s)]

\* (variant: a label without an English translation has none)
WithEnglishMissing(key) == allLabels[key]

\* A label without an English translation is its own.
WithEnglish(key) ==
    IF \E t \in allLabels[key] : t[1] = English THEN allLabels[key]
    ELSE allLabels[key] \cup {<<English, Itself(key)>>}

\* (variant: labels without a translation are not passed over)
KnownAll(item) == item.labels

Known(item) == Among(item.labels, {key \in Keys : allLabels[key] # {}})

\* An item that launches nothing, or that nothing would find, is not stored.
Skipped(item) == ~item.launches \/ Known(item) = <<>>

\* (variant: the title is put once)
TitledOnce(item) ==
    IF item.launches /\ Known(item) # <<>> /\ display = {}
    THEN WithEnglish(Known(item)[1]) ELSE display

\* The first label found gives the title; without any, that of the item before stays.
Titled(item) ==
    IF item.launches /\ Known(item) # <<>> THEN WithEnglish(Known(item)[1]) ELSE display

SearchItem(item) ==
    [title |-> Titled(item),
     value |-> UNION {{t[2] : t \in WithEnglish(key)} : key \in ToSet(Known(item))}]

\* generateIntent: the texts an item shows as its title to a user of the language.
ShownTitle(item, language) ==
    LET In(l) == {t[2] : t \in {u \in item.title : u[1] = l}}
    IN  IF In(language) # {} THEN In(language) ELSE In(English)

-----------------------------------------------------------------------------

\* (variant: the old items stay)
ErasedNone == stored

\* eraseCategory
Erased == <<>>

\* The constructor, up to the index file: its items.
CreateIndexes ==
    /\ phase \in {"down", "built"}
    /\ phase' = "manifest"
    /\ stored' = Erased
    /\ allLabels' = NoLabels
    /\ read' = [files |-> <<>>, items |-> package.items] /\ mixed' = FALSE
    /\ UNCHANGED <<package, left, display, todo>>

\* getLabels: the manifest, then one file after the other.
ReadManifest ==
    /\ phase = "manifest"
    /\ phase' = "labels"
    /\ left' = package.manifest
    /\ UNCHANGED <<package, allLabels, display, todo, stored, read, mixed>>

FileOf(version, folder) == [folder |-> folder, keys |-> version.labels[folder]]

ReadLabels ==
    /\ phase = "labels" /\ left # <<>>
    /\ LET file == FileOf(package, Head(left))
       IN  /\ allLabels' = AddFile(allLabels, file)
           /\ read' = [read EXCEPT !.files = Append(@, file)]
    /\ left' = Tail(left)
    /\ UNCHANGED <<package, phase, display, todo, stored, mixed>>

\* Nothing is indexed without labels.
LabelsRead ==
    /\ phase = "labels" /\ left = <<>>
    /\ LET labelled == \E key \in Keys : allLabels[key] # {}
       IN  /\ todo' = IF labelled THEN read.items ELSE <<>>
           /\ phase' = IF labelled THEN "building" ELSE "built"
    /\ UNCHANGED <<package, left, allLabels, display, stored, read, mixed>>

IndexItem ==
    /\ phase = "building" /\ todo # <<>>
    /\ stored' = IF Skipped(Head(todo)) THEN stored
                 ELSE Append(stored, SearchItem(Head(todo)))
    /\ display' = Titled(Head(todo))
    /\ todo' = Tail(todo)
    /\ UNCHANGED <<package, phase, left, allLabels, read, mixed>>

EndIndexes ==
    /\ phase = "building" /\ todo = <<>>
    /\ phase' = "built" /\ display' = {}
    /\ UNCHANGED <<package, left, allLabels, todo, stored, read, mixed>>

\* What the daemon had in memory is gone.
Crash ==
    /\ phase # "down"
    /\ phase' = "down" /\ left' = <<>> /\ display' = {} /\ todo' = <<>>
    /\ UNCHANGED <<package, allLabels, stored, read, mixed>>

\* Another version is installed (external).
Update(other) ==
    /\ package' = other
    /\ mixed' = (mixed \/ (phase \in {"manifest", "labels"} /\ other # package))
    /\ UNCHANGED <<phase, left, allLabels, display, todo, stored, read>>

Init ==
    /\ package \in Packages
    /\ phase = "down" /\ left = <<>> /\ display = {} /\ todo = <<>> /\ stored = <<>>
    /\ allLabels = NoLabels
    /\ read = [files |-> <<>>, items |-> <<>>] /\ mixed = FALSE

Next ==
    \/ CreateIndexes \/ ReadManifest \/ ReadLabels \/ LabelsRead
    \/ IndexItem \/ EndIndexes \/ Crash
    \/ \E other \in Packages : Update(other)

Spec == Init /\ [][Next]_vars

-----------------------------------------------------------------------------

\* What the files that were read say: the last file of a language has the word.
Says(p, key, language) ==
    LET Tells(k) == key \in p.files[k].keys /\ LanguageOf[p.files[k].folder] = language
        telling == {k \in DOMAIN p.files : Tells(k)}
    IN  {Text(key, p.files[k].folder) : k \in {j \in telling : \A i \in telling : i <= j}}

Translated(p) == {key \in Keys : \E language \in Languages : Says(p, key, language) # {}}

Translations(p, key) ==
    (UNION {{language} \X Says(p, key, language) : language \in Languages})
    \cup IF Says(p, key, English) = {} THEN {<<English, Itself(key)>>} ELSE {}

\* The places of an item's labels that have a translation.
Keyed(p, item) == {k \in DOMAIN item.labels : item.labels[k] \in Translated(p)}

Wanted(p, item) == item.launches /\ Keyed(p, item) # {}

Made(p, item) ==
    LET First == CHOOSE k \in Keyed(p, item) : \A j \in Keyed(p, item) : k <= j
    IN  [title |-> Translations(p, item.labels[First]),
         value |-> {t[2] : t \in UNION {Translations(p, item.labels[k]) : k \in Keyed(p, item)}}]

Expected(p) ==
    LET wanted == Among(p.items, {item \in ToSet(p.items) : Wanted(p, item)})
    IN  [k \in DOMAIN wanted |-> Made(p, wanted[k])]

\* What one version gives that is read in one go.
Whole(version) ==
    [files |-> [k \in DOMAIN version.manifest |-> FileOf(version, version.manifest[k])],
     items |-> version.items]

\* However often the daemon died half way, and whatever was indexed before, an index
\* that was built holds exactly the items that were read, each once, under every
\* translation of each of its labels; and what was read is one version, unless another
\* was installed between two of the reads (AppContents.cpp 25-142, 181-231).
BuiltIsExpected ==
    phase = "built" =>
        /\ stored = Expected(read)
        /\ mixed \/ \E version \in Packages : read = Whole(version)

\* Half an index, found by a search or after a death, holds nothing but items that
\* were read last, and none twice (AppContents.cpp 25-33, 130-137).
HalfIsPrefix == IsPrefix(stored, Expected(read))

\* A search result has exactly one title, and one the item is found by, in whatever
\* language the user's settings are, or before the settings are heard
\* (AppContents.cpp 100-113, 144-165, SettingService.cpp 96-112).
TitlesShown ==
    \A k \in DOMAIN stored, language \in Languages \cup {Unheard} :
        \E text \in stored[k].value : ShownTitle(stored[k], language) = {text}

\* "Get ALL labels from app's resource files" (AppContents.cpp 174): whatever text some
\* file has for a label of an item, the item is stored under it.
AllLabelsFound ==
    phase = "built" =>
        \A k \in DOMAIN read.files, j \in DOMAIN read.items :
            LET item == read.items[j]
            IN  item.launches =>
                    \A key \in read.files[k].keys \cap ToSet(item.labels) :
                        \E s \in DOMAIN stored :
                            Text(key, read.files[k].folder) \in stored[s].value
=============================================================================
