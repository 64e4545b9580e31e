---------------------------- MODULE BusApiProofs ----------------------------
(***************************************************************************)
(* What clients are told holds, whatever the categories, the ranks asked   *)
(* for, the number of failing statements and of searches.                  *)
(*                                                                         *)
(* The argument: the flag of a category in memory and the flag of its row  *)
(* are the same whenever both are there, each statement of the table       *)
(* touches the flag of one row at most, and no callback outlives a search. *)
(***************************************************************************)
EXTENDS BusApi, CategoryTableProofs, TLAPS

\* A registration whose insert fails leaves the table alone.
LEMMA RegistrationAddsOneRow ==
    ASSUME NEW t, IsTable(t), NEW id, NEW name, NEW ok
    PROVE  RowAdded(t, InTable(t, id, name, ok), id)
  <1>1. RowAdded(t, t, id)
    BY DEF RowAdded
  <1> QED
    BY <1>1, CreationAddsOneRow DEF InTable

-----------------------------------------------------------------------------
(* The invariant.                                                          *)

Shapes ==
    /\ IsTable(rows)
    /\ cats \in [DOMAIN cats -> BOOLEAN]
    /\ told \in [DOMAIN told -> BOOLEAN]

FlagsAgree == \A id \in DOMAIN cats \cap DOMAIN rows : cats[id] = rows[id].enabled

OnlyWhileRunning == ~running => DOMAIN cats = {}

\* What was asked was answered, and no callback is left to answer again.
AnsweredAtOnce ==
    /\ callbacks = {}
    /\ answers = [r \in Requests |-> IF r \in asked THEN 1 ELSE 0]
    /\ asked \subseteq Requests

IInv ==
    /\ Shapes /\ FlagsAgree /\ OnlyWhileRunning /\ AcknowledgedHolds /\ AnsweredAtOnce
    /\ DOMAIN intents = Requests

LEMMA InitInv == Init => IInv
  BY DEF Init, Media!Init, IInv, Shapes, IsTable, FlagsAgree, OnlyWhileRunning,
         AcknowledgedHolds, AnsweredAtOnce, EmptyTable

-----------------------------------------------------------------------------
(* Requests to search.                                                     *)

\* Nobody is answered when no callback goes.
LEMMA NobodyAnswered ==
    ASSUME AnsweredAtOnce, NEW gone, Media!End(gone), asked' = asked
    PROVE  AnsweredAtOnce' /\ answers' = answers
  <1>1. callbacks' = {}
    BY DEF AnsweredAtOnce, Media!End
  <1>2. Media!Waiting(callbacks) \ Media!Waiting(callbacks') = {}
    BY DEF AnsweredAtOnce, Media!Waiting
  <1>3. answers' = [r \in Requests |-> answers[r]]
    BY <1>2 DEF Media!End, Media!Answered
  <1>4. answers' = answers
    BY <1>3 DEF AnsweredAtOnce
  <1> QED
    BY <1>1, <1>4 DEF AnsweredAtOnce

\* A search is answered by its handler.
LEMMA SearchAnswers ==
    ASSUME AnsweredAtOnce, NEW r \in Requests, Media!Search(r) \/ Media!Refuse(r)
    PROVE  /\ AnsweredAtOnce' /\ r \notin asked
           /\ answers' = [answers EXCEPT ![r] = 1]
  <1>1. r \notin asked /\ asked' = asked \cup {r} /\ callbacks' = {}
    BY DEF AnsweredAtOnce, Media!Search, Media!Refuse, Media!Captured
  <1>2. Media!Waiting(callbacks') = {}
    BY <1>1 DEF Media!Waiting
  <1>3. Media!Answered({r})
    <2>1. {r} \ Media!Waiting(callbacks') = {r}
      BY <1>2
    <2> QED
      BY <2>1 DEF Media!Search, Media!Refuse
  <1>4. answers' = [q \in Requests |-> IF q = r THEN 1 ELSE answers[q]]
    BY <1>1, <1>3 DEF Media!Answered, AnsweredAtOnce
  <1> QED
    BY <1>1, <1>4 DEF AnsweredAtOnce

\* Whatever happens to the searches, they stay answered at once.
LEMMA MediaStep ==
    ASSUME IInv, [Next]_vars
    PROVE  AnsweredAtOnce'
  <1>1. ASSUME UNCHANGED <<asked, callbacks, answers>>
        PROVE  AnsweredAtOnce'
    BY <1>1 DEF IInv, AnsweredAtOnce
  <1>2. ASSUME NEW request, NEW shiftOk, NEW writeOk,
               UpdateCategory(request, shiftOk, writeOk)
        PROVE  AnsweredAtOnce'
    BY <1>1, <1>2 DEF UpdateCategory, Media!Switch
  <1>3. ASSUME NEW r \in Requests, Search(r) \/ Refuse(r)
        PROVE  AnsweredAtOnce'
    BY <1>3, SearchAnswers DEF Search, Refuse, IInv
  <1>4. ASSUME NEW r, NEW t, Reply(r, t) \/ ReplyWithout(r, t)
        PROVE  AnsweredAtOnce'
    <2>1. CASE Media!Crash
      BY <2>1 DEF IInv, AnsweredAtOnce, Media!Crash
    <2>2. CASE Media!End({<<r, t>>}) /\ asked' = asked
      BY <2>2, NobodyAnswered DEF IInv
    <2> QED
      BY <1>4, <2>1, <2>2
         DEF Reply, ReplyWithout, Media!Reply, Media!ReplyWithout
  <1>5. ASSUME NEW up, OnServerStatus(up)
        PROVE  AnsweredAtOnce'
    BY <1>5, NobodyAnswered DEF OnServerStatus, Media!OnServerStatus, IInv
  <1>6. ASSUME NEW name, NEW samOk, NEW audioOk, Start(name, samOk, audioOk)
        PROVE  AnsweredAtOnce'
    BY <1>1, <1>6 DEF Start, Media!Start
  <1>7. ASSUME Crash
        PROVE  AnsweredAtOnce'
    BY <1>7 DEF Crash, Media!Crash, IInv, AnsweredAtOnce
  <1>8. ASSUME UNCHANGED mediaVars
        PROVE  AnsweredAtOnce'
    BY <1>1, <1>8 DEF mediaVars
  <1> QED
    BY <1>2, <1>3, <1>4, <1>5, <1>6, <1>7, <1>8
       DEF Next, Api, Others, AddCategory, RemoveCategory, RefreshCategory, vars

-----------------------------------------------------------------------------
(* The flags.                                                              *)

\* What each step that touches the categories has to show.
Kept == Shapes' /\ FlagsAgree' /\ OnlyWhileRunning' /\ AcknowledgedHolds' /\ SwitchIsAcknowledged

LEMMA UpdateKeeps ==
    ASSUME IInv, NEW request \in Payload, NEW shiftOk \in BOOLEAN, NEW writeOk \in BOOLEAN,
           UpdateCategory(request, shiftOk, writeOk)
    PROVE  Kept
  <1> DEFINE id      == CHOOSE i \in request.id : TRUE
             enabled == Enabled(request).value
             done    == Found(rows, id) /\ writeOk
  <1>1. enabled \in BOOLEAN
    BY DEF Payload, Member, Enabled, GetValue
  <1>2. FlagSet(rows, rows', id, done, enabled)
    BY <1>1, UpdateSetsOneFlag DEF UpdateCategory, IInv, Shapes
  <1>3. /\ cats' = Switched(id, enabled, done)
        /\ told' = Told(id, enabled, done)
        /\ running /\ running' = running
    BY DEF UpdateCategory, Media!Switch
  <1>4. done => id \in DOMAIN rows
    BY DEF Found
  <1> HIDE DEF id, enabled, done
  <1>5. /\ cats' \in [DOMAIN cats -> BOOLEAN] /\ DOMAIN cats' = DOMAIN cats
        /\ \A i \in DOMAIN cats : cats'[i] = IF i = id /\ done THEN enabled ELSE cats[i]
    BY <1>1, <1>3 DEF Switched, Known, IInv, Shapes
  <1>6. /\ told' \in [DOMAIN told' -> BOOLEAN]
        /\ ~done => told' = told
        /\ done /\ id \in DOMAIN cats =>
              /\ DOMAIN told' = DOMAIN told \cup {id}
              /\ \A i \in DOMAIN told' : told'[i] = IF i = id THEN enabled ELSE told[i]
        /\ done /\ id \notin DOMAIN cats =>
              /\ DOMAIN told' = DOMAIN told \ {id}
              /\ \A i \in DOMAIN told' : told'[i] = told[i]
    BY <1>1, <1>3 DEF Told, Known, With, Without, IInv, Shapes
  <1>7. Shapes' /\ OnlyWhileRunning'
    BY <1>2, <1>3, <1>5, <1>6 DEF FlagSet, Shapes, OnlyWhileRunning
  <1>8. FlagsAgree'
    BY <1>2, <1>5 DEF FlagSet, FlagsAgree, IInv
  <1>9. AcknowledgedHolds'
    BY <1>2, <1>4, <1>5, <1>6 DEF FlagSet, AcknowledgedHolds, IInv
  <1>10. SwitchIsAcknowledged
    BY <1>2, <1>5, <1>6 DEF FlagSet, SwitchIsAcknowledged
  <1> QED
    BY <1>7, <1>8, <1>9, <1>10 DEF Kept

LEMMA AddKeeps ==
    ASSUME IInv, NEW id, NEW name, NEW ok, AddCategory(id, name, ok)
    PROVE  Kept
  <1>1. RowAdded(rows, rows', id)
    BY RegistrationAddsOneRow DEF AddCategory, Known, IInv, Shapes
  <1>2. /\ InMemory(rows, id) \in BOOLEAN
        /\ id \in DOMAIN rows => InMemory(rows, id) = rows[id].enabled
        /\ id \notin DOMAIN rows => InMemory(rows, id) = TRUE
    BY DEF InMemory, IInv, Shapes, IsTable, IsRow
  <1>3. /\ id \notin DOMAIN cats /\ running /\ running' = running /\ told' = told
        /\ cats' = With(cats, id, InMemory(rows, id))
    BY DEF AddCategory, Known, mediaVars
  <1>4. /\ cats' \in [DOMAIN cats' -> BOOLEAN] /\ DOMAIN cats' = DOMAIN cats \cup {id}
        /\ \A i \in DOMAIN cats' : cats'[i] = IF i = id THEN InMemory(rows, id) ELSE cats[i]
    BY <1>2, <1>3 DEF With, IInv, Shapes
  <1>5. Shapes' /\ OnlyWhileRunning'
    BY <1>1, <1>3, <1>4 DEF RowAdded, Shapes, OnlyWhileRunning, IInv
  <1>6. FlagsAgree'
    BY <1>1, <1>2, <1>3, <1>4 DEF RowAdded, FlagsAgree, IInv
  <1>7. AcknowledgedHolds'
    BY <1>1, <1>2, <1>3, <1>4 DEF RowAdded, AcknowledgedHolds, IInv
  <1>8. SwitchIsAcknowledged
    BY <1>1, <1>3, <1>4 DEF RowAdded, SwitchIsAcknowledged
  <1> QED
    BY <1>5, <1>6, <1>7, <1>8 DEF Kept

LEMMA RemoveKeeps ==
    ASSUME IInv, NEW id, RemoveCategory(id)
    PROVE  Kept
  <1>1. rows' = rows /\ told' = told /\ running /\ running' = running
    BY NothingDeleted DEF RemoveCategory, Known, mediaVars
  <1>2. /\ cats' \in [DOMAIN cats' -> BOOLEAN] /\ DOMAIN cats' = DOMAIN cats \ {id}
        /\ \A i \in DOMAIN cats' : cats'[i] = cats[i]
    BY DEF RemoveCategory, Known, Without, IInv, Shapes
  <1> QED
    BY <1>1, <1>2
       DEF Kept, IInv, Shapes, FlagsAgree, OnlyWhileRunning, AcknowledgedHolds,
           SwitchIsAcknowledged

LEMMA RefreshKeeps ==
    ASSUME IInv, NEW id, NEW rank, NEW name, NEW shiftOk, NEW writeOk,
           RefreshCategory(id, rank, name, shiftOk, writeOk)
    PROVE  Kept
  <1>1. id \in DOMAIN cats /\ cats[id] \in BOOLEAN
    BY DEF RefreshCategory, Known, IInv, Shapes
  <1>2. FlagSet(rows, rows', id, Found(rows, id) /\ writeOk, cats[id])
    BY <1>1, UpdateSetsOneFlag DEF RefreshCategory, Known, IInv, Shapes
  <1>3. /\ IsTable(rows') /\ DOMAIN rows' = DOMAIN rows
        /\ \A i \in DOMAIN rows : rows'[i].enabled = rows[i].enabled
    BY <1>1, <1>2 DEF FlagSet, IInv, FlagsAgree
  <1>4. cats' = cats /\ told' = told /\ running /\ running' = running
    BY DEF RefreshCategory, mediaVars
  <1> QED
    BY <1>3, <1>4
       DEF Kept, IInv, Shapes, FlagsAgree, OnlyWhileRunning, AcknowledgedHolds,
           SwitchIsAcknowledged

LEMMA StartKeeps ==
    ASSUME IInv, NEW name, NEW samOk, NEW audioOk, Start(name, samOk, audioOk)
    PROVE  Kept
  <1> DEFINE table == InTable(rows, SamApps, name, samOk)
  <1>1. RowAdded(rows, table, SamApps)
    BY RegistrationAddsOneRow DEF IInv, Shapes
  <1> HIDE DEF table
  <1>2. RowAdded(table, rows', Audio)
    <2>1. IsTable(table) /\ rows' = InTable(table, Audio, name, audioOk)
      BY <1>1 DEF RowAdded, Start, table
    <2> QED
      BY <2>1, RegistrationAddsOneRow
  <1>3. /\ ~running /\ running' = TRUE /\ told' = told
        /\ cats' = [id \in {SamApps, Audio} |->
                       InMemory(IF id = SamApps THEN rows ELSE table, id)]
    BY DEF Start, Media!Start, table
  <1>4. SamApps # Audio
    BY IdsAssumption
  <1>5. ASSUME NEW t, IsTable(t), NEW id
        PROVE  /\ InMemory(t, id) \in BOOLEAN
               /\ id \in DOMAIN t => InMemory(t, id) = t[id].enabled
               /\ id \notin DOMAIN t => InMemory(t, id) = TRUE
    BY <1>5 DEF InMemory, IsTable, IsRow
  <1>6. /\ cats' \in [DOMAIN cats' -> BOOLEAN] /\ DOMAIN cats' = {SamApps, Audio}
        /\ cats'[SamApps] = InMemory(rows, SamApps)
        /\ cats'[Audio] = InMemory(table, Audio)
    <2>1. InMemory(rows, SamApps) \in BOOLEAN /\ InMemory(table, Audio) \in BOOLEAN
      BY <1>1, <1>5 DEF RowAdded, IInv, Shapes
    <2> QED
      BY <1>3, <1>4, <2>1
  <1>7. \A id \in DOMAIN cats' \cap DOMAIN rows' : cats'[id] = rows'[id].enabled
    <2>1. SamApps \in DOMAIN rows' => cats'[SamApps] = rows'[SamApps].enabled
      <3>1. SamApps \in DOMAIN rows' => SamApps \in DOMAIN table /\ rows'[SamApps] = table[SamApps]
        BY <1>2, <1>4 DEF RowAdded
      <3>2. /\ SamApps \in DOMAIN rows => InMemory(rows, SamApps) = rows[SamApps].enabled
            /\ SamApps \notin DOMAIN rows => InMemory(rows, SamApps) = TRUE
        BY <1>5 DEF IInv, Shapes
      <3>3. /\ SamApps \in DOMAIN rows => table[SamApps] = rows[SamApps]
            /\ SamApps \in DOMAIN table \ DOMAIN rows => table[SamApps].enabled = TRUE
        BY <1>1 DEF RowAdded
      <3> QED
        BY <1>6, <3>1, <3>2, <3>3
    <2>2. Audio \in DOMAIN rows' => cats'[Audio] = rows'[Audio].enabled
      <3>1. IsTable(table)
        BY <1>1 DEF RowAdded
      <3>2. /\ Audio \in DOMAIN table => InMemory(table, Audio) = table[Audio].enabled
            /\ Audio \notin DOMAIN table => InMemory(table, Audio) = TRUE
        BY <1>5, <3>1
      <3>3. /\ Audio \in DOMAIN table => rows'[Audio] = table[Audio]
            /\ Audio \in DOMAIN rows' \ DOMAIN table => rows'[Audio].enabled = TRUE
        BY <1>2 DEF RowAdded
      <3> QED
        BY <1>6, <3>2, <3>3
    <2> QED
      BY <1>6, <2>1, <2>2
  <1>8. \A id \in DOMAIN rows : id \in DOMAIN rows' /\ rows'[id] = rows[id]
    BY <1>1, <1>2 DEF RowAdded
  <1>9. Shapes' /\ FlagsAgree' /\ OnlyWhileRunning'
    BY <1>2, <1>3, <1>6, <1>7 DEF RowAdded, IInv, Shapes, FlagsAgree, OnlyWhileRunning
  <1>10. AcknowledgedHolds'
    BY <1>3, <1>7, <1>8 DEF IInv, AcknowledgedHolds
  <1>11. SwitchIsAcknowledged
    BY <1>3 DEF IInv, OnlyWhileRunning, SwitchIsAcknowledged
  <1> QED
    BY <1>9, <1>10, <1>11 DEF Kept

\* A search, a reply of DB8 and the end of the daemon leave the table alone.
LEMMA OthersKeep ==
    ASSUME IInv, UNCHANGED <<rows, told>>,
           (cats' = cats /\ running' = running) \/ cats' = EmptyTable
    PROVE  Kept
  <1>1. EmptyTable = [i \in {} |-> NoName] /\ DOMAIN EmptyTable = {}
    BY DEF EmptyTable
  <1>2. CASE cats' = cats /\ running' = running
    BY <1>2 DEF Kept, IInv, Shapes, FlagsAgree, OnlyWhileRunning, AcknowledgedHolds,
                SwitchIsAcknowledged
  <1>3. CASE cats' = EmptyTable
    <2>1. DOMAIN cats' = {} /\ cats' \in [DOMAIN cats' -> BOOLEAN]
      BY <1>1, <1>3
    <2> QED
      BY <2>1 DEF Kept, IInv, Shapes, FlagsAgree, OnlyWhileRunning, AcknowledgedHolds,
                  SwitchIsAcknowledged
  <1> QED
    BY <1>2, <1>3

LEMMA KeptByNext ==
    ASSUME IInv, [Next]_vars
    PROVE  Kept
  <1>1. ASSUME NEW request \in Payload, NEW shiftOk \in BOOLEAN, NEW writeOk \in BOOLEAN,
               UpdateCategory(request, shiftOk, writeOk)
        PROVE  Kept
    BY <1>1, UpdateKeeps
  <1>2. ASSUME NEW r, Search(r) \/ Refuse(r)
        PROVE  Kept
    BY <1>2, OthersKeep DEF Search, Refuse, Media!Search, Media!Refuse
  <1>3. ASSUME NEW r, NEW t, Reply(r, t) \/ ReplyWithout(r, t)
        PROVE  Kept
    <2>1. CASE Reply(r, t)
      <3>1. running
        BY <2>1 DEF Reply, Media!Reply
      <3>2. cats' \in {cats, EmptyTable} /\ (running' <=> cats' # EmptyTable)
        BY <2>1 DEF Reply
      <3>3. running' = running \/ running' = FALSE
        BY <2>1 DEF Reply, Media!Reply, Media!Crash
      <3> QED
        BY <2>1, <3>1, <3>2, <3>3, OthersKeep DEF Reply
    <2>2. CASE ReplyWithout(r, t)
      BY <2>2, OthersKeep DEF ReplyWithout, Media!ReplyWithout
    <2> QED
      BY <1>3, <2>1, <2>2
  <1>4. ASSUME NEW up, OnServerStatus(up)
        PROVE  Kept
    BY <1>4, OthersKeep DEF OnServerStatus, Media!OnServerStatus
  <1>5. ASSUME NEW id, NEW name, NEW ok, AddCategory(id, name, ok)
        PROVE  Kept
    BY <1>5, AddKeeps
  <1>6. ASSUME NEW id, RemoveCategory(id)
        PROVE  Kept
    BY <1>6, RemoveKeeps
  <1>7. ASSUME NEW id, NEW rank, NEW name, NEW shiftOk, NEW writeOk,
               RefreshCategory(id, rank, name, shiftOk, writeOk)
        PROVE  Kept
    BY <1>7, RefreshKeeps
  <1>8. ASSUME NEW name, NEW samOk, NEW audioOk, Start(name, samOk, audioOk)
        PROVE  Kept
    BY <1>8, StartKeeps
  <1>9. CASE Crash
    BY <1>9, OthersKeep DEF Crash
  <1>10. CASE UNCHANGED vars
    BY <1>10, OthersKeep DEF vars, mediaVars
  <1> QED
    BY <1>1, <1>2, <1>3, <1>4, <1>5, <1>6, <1>7, <1>8, <1>9, <1>10 DEF Next, Api, Others

\* Requests keep their place in the map of what was found.
LEMMA IntentsKept ==
    ASSUME IInv, [Next]_vars
    PROVE  DOMAIN intents' = Requests
  <1>1. ASSUME NEW found, Respond(found)
        PROVE  DOMAIN intents' = Requests
    BY <1>1 DEF Respond
  <1>2. CASE UNCHANGED intents
    BY <1>2 DEF IInv
  <1>3. ASSUME Crash
        PROVE  DOMAIN intents' = Requests
    BY <1>3 DEF Crash
  <1> QED
    BY <1>1, <1>2, <1>3
       DEF Next, Api, Others, UpdateCategory, Search, Refuse, Reply, ReplyWithout,
           OnServerStatus, AddCategory, RemoveCategory, RefreshCategory, Start, vars

LEMMA NextInv == IInv /\ [Next]_vars => IInv'
  BY KeptByNext, MediaStep, IntentsKept DEF IInv, Kept

-----------------------------------------------------------------------------
(* What a search shows.                                                    *)

LEMMA SearchShows ==
    ASSUME IInv, NEW r \in Requests, Search(r)
    PROVE  ShownAsTold
  <1>1. answers' = [answers EXCEPT ![r] = 1] /\ answers[r] = 0
    BY SearchAnswers DEF Search, IInv, AnsweredAtOnce
  <1>2. AnsweredNow = {r}
    BY <1>1 DEF IInv, AnsweredAtOnce, AnsweredNow
  <1> DEFINE found == [intents EXCEPT ![r] = FromDatabase]
  <1>3. found[r] = FromDatabase
    BY DEF IInv
  <1>4. Respond(found)
    BY DEF Search
  <1> HIDE DEF found
  <1>5. shown' = {FromDatabase \cap EnabledIds(rows)}
    <2>1. InAll(found, AnsweredNow) = FromDatabase
      BY <1>2, <1>3 DEF InAll
    <2> QED
      BY <1>2, <1>4, <2>1 DEF Respond
  <1>6. ASSUME NEW id \in DOMAIN told \cap DOMAIN cats \cap (Apps \cup {SamApps})
        PROVE  id \in FromDatabase \cap EnabledIds(rows) <=> told[id]
    <2>1. cats[id] = told[id] /\ id \in DOMAIN rows /\ rows[id].enabled = told[id]
      BY <1>6 DEF IInv, AcknowledgedHolds
    <2>2. told[id] \in BOOLEAN
      BY <1>6 DEF IInv, Shapes
    <2>3. id \in FromDatabase <=> cats[id] = TRUE
      BY <1>6, <2>1, <2>2 DEF FromDatabase
    <2>4. id \in EnabledIds(rows) <=> rows[id].enabled = TRUE
      BY <2>1, <2>2 DEF EnabledIds
    <2> QED
      BY <2>1, <2>2, <2>3, <2>4
  <1> QED
    BY <1>5, <1>6 DEF ShownAsTold

LEMMA NobodyShown ==
    ASSUME NEW found, Respond(found), answers' = answers
    PROVE  shown' = {}
  <1>1. AnsweredNow = {}
    BY DEF AnsweredNow
  <1> QED
    BY <1>1 DEF Respond

LEMMA NextShows ==
    ASSUME IInv, Next
    PROVE  ShownAsTold
  <1>1. ASSUME shown' = {}
        PROVE  ShownAsTold
    BY <1>1 DEF ShownAsTold
  <1>2. ASSUME NEW r \in Requests, Search(r)
        PROVE  ShownAsTold
    BY <1>2, SearchShows
  <1>3. ASSUME NEW r, NEW t, Reply(r, t) \/ ReplyWithout(r, t)
        PROVE  ShownAsTold
    <2>1. CASE Media!Crash
      <3>1. answers' = answers
        BY <2>1 DEF Media!Crash
      <3> QED
        BY <1>1, <1>3, <3>1, NobodyShown DEF Reply, ReplyWithout
    <2>2. CASE Media!End({<<r, t>>}) /\ asked' = asked
      <3>1. answers' = answers
        BY <2>2, NobodyAnswered DEF IInv
      <3> QED
        BY <1>1, <1>3, <3>1, NobodyShown DEF Reply, ReplyWithout
    <2> QED
      BY <1>3, <2>1, <2>2
         DEF Reply, ReplyWithout, Media!Reply, Media!ReplyWithout
  <1>4. ASSUME NEW up, OnServerStatus(up)
        PROVE  ShownAsTold
    <2>1. answers' = answers
      BY <1>4, NobodyAnswered DEF OnServerStatus, Media!OnServerStatus, IInv
    <2> QED
      BY <1>1, <1>4, <2>1, NobodyShown DEF OnServerStatus
  <1> QED
    BY <1>1, <1>2, <1>3, <1>4
       DEF Next, Api, Others, UpdateCategory, Refuse, AddCategory, RemoveCategory,
           RefreshCategory, Start, Crash

-----------------------------------------------------------------------------
(* The types.                                                              *)

\* What the invariant above leaves open of the types.  The table is finite, however
\* many applications there are, as it has a row for each that was met.
DataTyped ==
    /\ DOMAIN rows \subseteq Categories /\ IsFiniteSet(DOMAIN rows)
    /\ rows \in [DOMAIN rows -> Row(Names)]
    /\ DOMAIN cats \subseteq Categories /\ DOMAIN told \subseteq Categories
    /\ faults \in 0..MaxFaults

ResponseTyped ==
    /\ shown \in Member(SUBSET Categories)
    /\ intents \in [Requests -> SUBSET Categories]

BusTyped == running \in BOOLEAN /\ connected \in BOOLEAN /\ bus \subseteq Requests \X Targets

Typed == DataTyped /\ ResponseTyped /\ BusTyped

LEMMA TypesComplete == IInv /\ Typed => TypeOK
  <1> SUFFICES ASSUME IInv, Typed PROVE TypeOK
    OBVIOUS
  <1>1. /\ cats \in [DOMAIN cats -> BOOLEAN] /\ told \in [DOMAIN told -> BOOLEAN]
        /\ AudioOn \in BOOLEAN
    BY DEF IInv, Shapes, AudioOn, Known
  <1>2. /\ asked \subseteq Requests /\ callbacks = {}
        /\ answers \in [Requests -> 0..2]
    BY DEF IInv, AnsweredAtOnce
  <1>3. Media!TypeOK
    BY <1>1, <1>2 DEF Typed, BusTyped, Media!TypeOK, Media!Finds
  <1> QED
    BY <1>1, <1>3 DEF Typed, DataTyped, ResponseTyped, TypeOK

LEMMA InitTyped == Init => Typed
  <1> SUFFICES ASSUME Init PROVE Typed
    OBVIOUS
  <1>1. DOMAIN EmptyTable = {} /\ EmptyTable \in [{} -> Row(Names)]
    BY DEF EmptyTable
  <1>2. DataTyped
    BY <1>1, BoundAssumption, FS_EmptySet DEF Init, DataTyped
  <1>3. ResponseTyped /\ BusTyped
    BY DEF Init, Media!Init, ResponseTyped, BusTyped, Member
  <1> QED
    BY <1>2, <1>3 DEF Typed

\* Of a request of any shape, what reaches the table has its type.
LEMMA RequestTyped ==
    ASSUME NEW request \in Payload
    PROVE  /\ Enabled(request).value \in BOOLEAN
           /\ Rank(request).value \in Int
           /\ Name(request) \in Names \cup {NoName}
           /\ ~Refused(request) => (CHOOSE i \in request.id : TRUE) \in Categories
  <1>1. ASSUME NEW S, NEW member \in Member(S), NEW old
        PROVE  /\ GetValue(member, old).value \in S \cup {old}
               /\ member # {} => (CHOOSE v \in member : TRUE) \in S
    BY DEF Member, GetValue
  <1>2. Enabled(request).value \in BOOLEAN
    BY DEF Payload, Member, Enabled, GetValue
  <1>3. Rank(request).value \in Int
    <2>1. request.rank \in Member(RankInputs \cup {NotInt})
      BY DEF Payload
    <2>2. CASE request.rank = {NotInt}
      BY <2>2 DEF Rank, GetInt
    <2>3. CASE request.rank # {NotInt}
      <3>1. request.rank \in Member(RankInputs)
        BY <2>1, <2>3 DEF Member
      <3>2. Rank(request).value = GetValue(request.rank, RankMax).value
        BY <2>3 DEF Rank, GetInt
      <3>3. Rank(request).value \in RankInputs \cup {RankMax}
        BY <1>1, <3>1, <3>2
      <3>4. \A rank \in RankInputs \cup {RankMax} : rank \in Int
        BY RankAssumption
      <3> QED
        BY <3>3, <3>4
    <2> QED
      BY <2>2, <2>3
  <1>4. Name(request) \in Names \cup {NoName}
    BY <1>1, NameAssumption DEF Payload, Name
  <1>5. ~Refused(request) => (CHOOSE i \in request.id : TRUE) \in Categories
    BY <1>1 DEF Payload, Refused
  <1> QED
    BY <1>2, <1>3, <1>4, <1>5

\* However many statements of a call fail, the count of failures stays in its bound.
LEMMA FailuresCounted ==
    ASSUME faults \in 0..MaxFaults, NEW oks, NEW n \in Nat, DOMAIN oks = 1..n, Fails(oks)
    PROVE  faults' \in 0..MaxFaults
  <1> DEFINE failed == {k \in DOMAIN oks : ~oks[k]}
  <1>1. IsFiniteSet(failed)
    <2>1. IsFiniteSet(1..n)
      BY FS_Interval
    <2> QED
      BY <2>1, FS_Subset
  <1>2. Cardinality(failed) \in Nat
    BY <1>1, FS_CardinalityType
  <1>3. faults + Cardinality(failed) <= MaxFaults /\ faults' = faults + Cardinality(failed)
    BY DEF Fails
  <1> HIDE DEF failed
  <1> QED
    BY <1>2, <1>3, BoundAssumption

\* A registration leaves a table of typed rows.
LEMMA RegistrationTyped ==
    ASSUME NEW t, DOMAIN t \subseteq Categories, IsFiniteSet(DOMAIN t),
           t \in [DOMAIN t -> Row(Names)],
           NEW id \in Categories, NEW name \in Names, NEW ok \in BOOLEAN
    PROVE  /\ DOMAIN InTable(t, id, name, ok) \subseteq Categories
           /\ IsFiniteSet(DOMAIN InTable(t, id, name, ok))
           /\ InTable(t, id, name, ok) \in [DOMAIN InTable(t, id, name, ok) -> Row(Names)]
  <1>1. IsFiniteSet(EnabledIds(t))
    BY FS_Subset DEF EnabledIds
  <1>2. AdjustOrCreate(t, id, name) \in [DOMAIN t \cup {id} -> Row(Names)]
    BY <1>1, CreationTyped
  <1>3. IsFiniteSet(DOMAIN t \cup {id})
    BY FS_AddElement
  <1> QED
    BY <1>2, <1>3 DEF InTable

\* An update leaves a table of typed rows.
LEMMA RowsUpdated ==
    ASSUME DataTyped, NEW id, NEW rank \in Int, NEW enabled \in BOOLEAN,
           NEW name \in Names \cup {NoName}, NEW shiftOk \in BOOLEAN, NEW writeOk \in BOOLEAN,
           rows' = Updated(rows, id, rank, enabled, name, shiftOk, writeOk)
    PROVE  /\ DOMAIN rows' \subseteq Categories /\ IsFiniteSet(DOMAIN rows')
           /\ rows' \in [DOMAIN rows' -> Row(Names)]
  <1>1. IsFiniteSet(EnabledIds(rows))
    BY FS_Subset DEF EnabledIds, DataTyped
  <1>2. RankMax \in Int
    BY RankAssumption
  <1>3. rows' \in [DOMAIN rows -> Row(Names)]
    BY <1>1, <1>2, UpdateTyped DEF DataTyped
  <1> QED
    BY <1>3 DEF DataTyped

LEMMA DataStep ==
    ASSUME IInv, DataTyped, [Next]_vars
    PROVE  DataTyped'
  <1>1. ASSUME UNCHANGED <<rows, told, faults>>, cats' \in {cats, EmptyTable}
        PROVE  DataTyped'
    BY <1>1 DEF DataTyped, EmptyTable
  <1>2. ASSUME NEW request \in Payload, NEW shiftOk \in BOOLEAN, NEW writeOk \in BOOLEAN,
               UpdateCategory(request, shiftOk, writeOk)
        PROVE  DataTyped'
    <2> DEFINE id      == CHOOSE i \in request.id : TRUE
               enabled == Enabled(request).value
               done    == Found(rows, id) /\ writeOk
    <2>1. id \in Categories
      BY <1>2, RequestTyped DEF UpdateCategory
    <2>2. /\ rows' = Updated(rows, id, Rank(request).value, enabled, Name(request),
                             shiftOk, writeOk)
          /\ cats' = Switched(id, enabled, done)
          /\ told' = Told(id, enabled, done)
          /\ Fails(<<shiftOk, writeOk>>)
      BY <1>2 DEF UpdateCategory
    <2>3. enabled \in BOOLEAN /\ Rank(request).value \in Int
          /\ Name(request) \in Names \cup {NoName}
      BY RequestTyped
    <2> HIDE DEF id, enabled, done
    <2>4. /\ DOMAIN rows' \subseteq Categories /\ IsFiniteSet(DOMAIN rows')
          /\ rows' \in [DOMAIN rows' -> Row(Names)]
      BY <2>2, <2>3, RowsUpdated
    <2>5. DOMAIN cats' \subseteq Categories
      BY <2>2 DEF Switched, DataTyped
    <2>6. DOMAIN told' \subseteq Categories
      BY <2>1, <2>2 DEF Told, With, Without, DataTyped
    <2>7. faults' \in 0..MaxFaults
      <3>1. DOMAIN <<shiftOk, writeOk>> = 1..2
        OBVIOUS
      <3> QED
        BY <2>2, <3>1, FailuresCounted DEF DataTyped
    <2> QED
      BY <2>4, <2>5, <2>6, <2>7 DEF DataTyped
  <1>3. ASSUME NEW id \in Apps, NEW name \in Names, NEW ok \in BOOLEAN,
               AddCategory(id, name, ok)
        PROVE  DataTyped'
    <2>1. id \in Categories
      BY DEF Categories
    <2>2. /\ rows' = InTable(rows, id, name, ok) /\ told' = told
          /\ cats' = With(cats, id, InMemory(rows, id)) /\ Fails(<<ok>>)
      BY <1>3 DEF AddCategory
    <2>3. /\ DOMAIN rows' \subseteq Categories /\ IsFiniteSet(DOMAIN rows')
          /\ rows' \in [DOMAIN rows' -> Row(Names)]
      BY <2>1, <2>2, RegistrationTyped DEF DataTyped
    <2>4. DOMAIN cats' \subseteq Categories
      BY <2>1, <2>2 DEF With, DataTyped
    <2>5. faults' \in 0..MaxFaults
      <3>1. DOMAIN <<ok>> = 1..1
        OBVIOUS
      <3> QED
        BY <2>2, <3>1, FailuresCounted DEF DataTyped
    <2> QED
      BY <2>2, <2>3, <2>4, <2>5 DEF DataTyped
  <1>4. ASSUME NEW id \in Apps, RemoveCategory(id)
        PROVE  DataTyped'
    <2>1. rows' = rows /\ told' = told /\ faults' = faults
          /\ DOMAIN cats' = DOMAIN cats \ {id}
      BY <1>4, NothingDeleted DEF RemoveCategory, Without
    <2> QED
      BY <2>1 DEF DataTyped
  <1>5. ASSUME NEW id \in Apps, NEW rank \in MemoryRanks, NEW name \in Names,
               NEW shiftOk \in BOOLEAN, NEW writeOk \in BOOLEAN,
               RefreshCategory(id, rank, name, shiftOk, writeOk)
        PROVE  DataTyped'
    <2>1. cats[id] \in BOOLEAN
      BY <1>5 DEF RefreshCategory, Known, IInv, Shapes
    <2>2. /\ rows' = Updated(rows, id, rank, cats[id], name, shiftOk, writeOk)
          /\ cats' = cats /\ told' = told /\ Fails(<<shiftOk, writeOk>>)
      BY <1>5 DEF RefreshCategory
    <2>3. rank \in Int
      BY RankAssumption
    <2>4. /\ DOMAIN rows' \subseteq Categories /\ IsFiniteSet(DOMAIN rows')
          /\ rows' \in [DOMAIN rows' -> Row(Names)]
      BY <2>1, <2>2, <2>3, RowsUpdated
    <2>5. faults' \in 0..MaxFaults
      <3>1. DOMAIN <<shiftOk, writeOk>> = 1..2
        OBVIOUS
      <3> QED
        BY <2>2, <3>1, FailuresCounted DEF DataTyped
    <2> QED
      BY <2>2, <2>4, <2>5 DEF DataTyped
  <1>6. ASSUME NEW name \in Names, NEW samOk \in BOOLEAN, NEW audioOk \in BOOLEAN,
               Start(name, samOk, audioOk)
        PROVE  DataTyped'
    <2> DEFINE table == InTable(rows, SamApps, name, samOk)
    <2>1. SamApps \in Categories /\ Audio \in Categories
      BY DEF Categories
    <2>2. /\ DOMAIN table \subseteq Categories /\ IsFiniteSet(DOMAIN table)
          /\ table \in [DOMAIN table -> Row(Names)]
      BY <2>1, RegistrationTyped DEF DataTyped
    <2>3. /\ rows' = InTable(table, Audio, name, audioOk) /\ told' = told
          /\ DOMAIN cats' = {SamApps, Audio} /\ Fails(<<samOk, audioOk>>)
      BY <1>6 DEF Start
    <2> HIDE DEF table
    <2>4. /\ DOMAIN rows' \subseteq Categories /\ IsFiniteSet(DOMAIN rows')
          /\ rows' \in [DOMAIN rows' -> Row(Names)]
      BY <2>1, <2>2, <2>3, RegistrationTyped
    <2>5. faults' \in 0..MaxFaults
      <3>1. DOMAIN <<samOk, audioOk>> = 1..2
        OBVIOUS
      <3> QED
        BY <2>3, <3>1, FailuresCounted DEF DataTyped
    <2> QED
      BY <2>1, <2>3, <2>4, <2>5 DEF DataTyped
  <1>7. ASSUME NEW r, NEW t, Search(r) \/ Refuse(r) \/ Reply(r, t) \/ ReplyWithout(r, t)
        PROVE  DataTyped'
    BY <1>1, <1>7 DEF Search, Refuse, Reply, ReplyWithout
  <1>8. ASSUME NEW up, OnServerStatus(up)
        PROVE  DataTyped'
    BY <1>1, <1>8 DEF OnServerStatus
  <1>9. CASE Crash
    BY <1>1, <1>9 DEF Crash
  <1>10. CASE UNCHANGED vars
    BY <1>1, <1>10 DEF vars
  <1> QED
    BY <1>2, <1>3, <1>4, <1>5, <1>6, <1>7, <1>8, <1>9, <1>10 DEF Next, Api, Others

\* A response names categories of the table.
LEMMA ResponseListsCategories ==
    ASSUME DataTyped, NEW found \in [Requests -> SUBSET Categories], Respond(found)
    PROVE  ResponseTyped'
  <1>1. EnabledIds(rows) \subseteq Categories
    BY DEF DataTyped, EnabledIds
  <1>2. InAll(found, AnsweredNow) \cap EnabledIds(rows) \in SUBSET Categories
    BY <1>1
  <1>3. shown' \in Member(SUBSET Categories)
    BY <1>2 DEF Respond, Member
  <1>4. intents' \in [Requests -> SUBSET Categories]
    BY DEF Respond
  <1> QED
    BY <1>3, <1>4 DEF ResponseTyped

LEMMA ResponseStep ==
    ASSUME DataTyped, ResponseTyped, [Next]_vars
    PROVE  ResponseTyped'
  <1>1. ASSUME shown' = {}, intents' = intents
        PROVE  ResponseTyped'
    BY <1>1 DEF ResponseTyped, Member
  <1>2. ASSUME NEW r \in Requests, Search(r)
        PROVE  ResponseTyped'
    <2>1. FromDatabase \subseteq Categories
      BY DEF FromDatabase, Categories
    <2>2. [intents EXCEPT ![r] = FromDatabase] \in [Requests -> SUBSET Categories]
      BY <2>1 DEF ResponseTyped
    <2> QED
      BY <1>2, <2>2, ResponseListsCategories DEF Search
  <1>3. ASSUME NEW r \in Requests, NEW t, Reply(r, t)
        PROVE  ResponseTyped'
    <2> DEFINE more == IF <<r, t>> \in callbacks /\ AudioOn THEN {Audio} ELSE {}
    <2>1. more \subseteq Categories
      BY DEF Categories
    <2>2. Respond([intents EXCEPT ![r] = @ \cup more])
      BY <1>3 DEF Reply
    <2> HIDE DEF more
    <2>3. [intents EXCEPT ![r] = @ \cup more] \in [Requests -> SUBSET Categories]
      BY <2>1 DEF ResponseTyped
    <2> QED
      BY <2>2, <2>3, ResponseListsCategories
  <1>4. ASSUME Respond(intents)
        PROVE  ResponseTyped'
    BY <1>4, ResponseListsCategories DEF ResponseTyped
  <1>5. CASE Crash
    BY <1>5 DEF Crash, ResponseTyped, Member
  <1>6. CASE UNCHANGED vars
    BY <1>6 DEF vars, ResponseTyped
  <1> QED
    BY <1>1, <1>2, <1>3, <1>4, <1>5, <1>6
       DEF Next, Api, Others, UpdateCategory, Refuse, ReplyWithout, OnServerStatus,
           AddCategory, RemoveCategory, RefreshCategory, Start

LEMMA BusStep ==
    ASSUME BusTyped, [Next]_vars
    PROVE  BusTyped'
  <1>1. ASSUME running' \in {running, TRUE, FALSE}, connected' \in {connected, TRUE, FALSE},
               bus' \subseteq bus
        PROVE  BusTyped'
    BY <1>1 DEF BusTyped
  <1>2. ASSUME NEW r \in Requests, Media!Search(r)
        PROVE  BusTyped'
    <2>1. Media!Sent(r) \subseteq Requests \X Targets
      BY DEF Media!Sent
    <2> QED
      BY <1>2, <2>1 DEF Media!Search, BusTyped
  <1>3. ASSUME NEW r, Media!Refuse(r)
        PROVE  BusTyped'
    BY <1>1, <1>3 DEF Media!Refuse
  <1>4. ASSUME Media!Crash
        PROVE  BusTyped'
    BY <1>1, <1>4 DEF Media!Crash
  <1>5. ASSUME NEW r, NEW t, Media!Reply(r, t) \/ Media!ReplyWithout(r, t)
        PROVE  BusTyped'
    BY <1>1, <1>4, <1>5 DEF Media!Reply, Media!ReplyWithout
  <1>6. ASSUME NEW up \in BOOLEAN, Media!OnServerStatus(up)
        PROVE  BusTyped'
    BY <1>1, <1>6 DEF Media!OnServerStatus
  <1>7. ASSUME NEW on, Media!Switch(on) \/ Media!Start(on)
        PROVE  BusTyped'
    BY <1>1, <1>7 DEF Media!Switch, Media!Start
  <1>8. ASSUME UNCHANGED mediaVars
        PROVE  BusTyped'
    BY <1>1, <1>8 DEF mediaVars
  <1> QED
    BY <1>2, <1>3, <1>4, <1>5, <1>6, <1>7, <1>8
       DEF Next, Api, Others, vars, UpdateCategory, Search, Refuse, Reply, ReplyWithout,
           OnServerStatus, AddCategory, RemoveCategory, RefreshCategory, Start, Crash

-----------------------------------------------------------------------------

THEOREM Invariance == Spec => []IInv
  <1>1. Init => IInv
    BY InitInv
  <1>2. IInv /\ [Next]_vars => IInv'
    BY NextInv
  <1> QED
    BY <1>1, <1>2, PTL DEF Spec

\* What a client was told it switched is so in the table and in memory, for any number
\* of applications, requests of any shape and statements that fail at any time
\* (UnifiedSearch.cpp 141-193, Database.cpp 104-262).
THEOREM AcknowledgementsHold == Spec => []AcknowledgedHolds
  BY Invariance, PTL DEF IInv

\* Nothing but an update that is acknowledged switches a registered category
\* (UnifiedSearch.cpp 177-193, Database.cpp 229-257).
THEOREM SwitchesAreAcknowledged == Spec => OnlyAcknowledgedSwitch
  <1>1. IInv /\ [Next]_vars => [SwitchIsAcknowledged]_vars
    BY KeptByNext DEF Kept
  <1> QED
    BY <1>1, Invariance, PTL DEF Spec, OnlyAcknowledgedSwitch

\* A search shows an application's category as the last acknowledged update left it
\* (SearchManager.cpp 124-157, UnifiedSearch.cpp 84-111).
THEOREM SearchesShowWhatWasTold == Spec => SearchShowsWhatWasTold
  <1>1. IInv /\ [Next]_vars => [ShownAsTold]_vars
    BY NextShows
  <1> QED
    BY <1>1, Invariance, PTL DEF Spec, SearchShowsWhatWasTold

\* Whatever a request holds, however the statements fail and the searches end, the table
\* holds typed rows of known categories, and a response lists such categories only
\* (UnifiedSearch.cpp 59-193, JValueUtil.cpp 60-88).
THEOREM TypeCorrect == Spec => []TypeOK
  <1>1. IInv /\ Typed /\ [Next]_vars => Typed'
    BY DataStep, ResponseStep, BusStep DEF Typed
  <1>2. IInv /\ Typed => TypeOK
    BY TypesComplete
  <1> QED
    BY <1>1, <1>2, InitTyped, Invariance, PTL DEF Spec
=============================================================================
