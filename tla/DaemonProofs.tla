---------------------------- MODULE DaemonProofs ----------------------------
(***************************************************************************)
(* What holds while the daemon starts, runs and stops, for any number of   *)
(* processes of a boot.                                                    *)
(*                                                                         *)
(* The argument: how far initialize has come says what the parts look      *)
(* like, and a death takes them all back to nothing.  The mark is the only *)
(* thing a process leaves; it has it made only when it found none.         *)
(***************************************************************************)
EXTENDS Daemon, SequenceTheorems, TLAPS

-----------------------------------------------------------------------------
(* The inductive invariant.                                                *)

\* What is left of an order when k of its parts are done.
Left(order, k) == SubSeq(order, k + 1, Len(order))

NoParts ==
    /\ respawned = FALSE /\ database = "none"
    /\ handle = FALSE /\ deferred = {} /\ subscribed = [c \in Clients |-> 0] /\ sets = {}

\* The clients that exist after k parts.
Made(k) ==
    (IF k >= 5 THEN {"SettingService"} ELSE {})
    \cup (IF k >= 6 THEN {"SAM"} ELSE {})
    \cup (IF k >= 7 THEN {"DB8"} \cap sets ELSE {})

\* All of them are registered, or all are put off.
ClientsAfter(k) ==
    /\ k < 4 => ~handle
    /\ "SettingService" \notin sets
    /\ k < 7 => "DB8" \notin sets
    /\ IF handle
       THEN /\ deferred = {} /\ ("SAM" \in sets <=> k >= 6)
            /\ subscribed = [c \in Clients |-> IF c \in Made(k) THEN 1 ELSE 0]
       ELSE /\ deferred = Made(k) /\ "SAM" \notin sets
            /\ subscribed = [c \in Clients |-> 0]

Opened == {"ready", "unprepared", "dangling"}

PartsAfter(k) ==
    /\ k = 0 => respawned = FALSE
    /\ k = 1 => (respawned <=> mark)
    /\ k < 2 /\ mark => starts > 1
    /\ IF k < 3 THEN database = "none" ELSE database \in Opened
    /\ ClientsAfter(k)

\* The registrations main has ended after k parts of finalize; DB8 keeps its own.
PartsLeft(k) ==
    /\ IF k < 4 THEN database \in Opened ELSE database = "closed"
    /\ subscribed \in [Clients -> 0..1]
    /\ k >= 2 => subscribed["SAM"] = 0
    /\ k >= 3 => subscribed["SettingService"] = 0

Progress ==
    /\ busy => stage = "loop"
    /\ stage \in {"down", "main"} => todo = <<>> /\ NoParts
    /\ stage = "main" /\ mark => starts > 1
    /\ stage = "initialize" => \E k \in 0..7 : todo = Left(InitOrder, k) /\ PartsAfter(k)
    /\ stage = "loop" => todo = <<>> /\ PartsAfter(7)
    /\ stage = "finalize" => \E k \in 0..4 : todo = Left(FinalOrder, k) /\ PartsLeft(k)

\* Made once; a process that was respawned was started after that.
Marked ==
    /\ marks = IF mark THEN 1 ELSE 0
    /\ mark \/ stage # "down" => starts >= 1
    /\ respawned => mark /\ starts > 1

IInv == TypeOK /\ Progress /\ Marked

-----------------------------------------------------------------------------
(* The parts still to be done.                                             *)

LEMMA Orders ==
    /\ InitOrder \in Seq(Parts) /\ Len(InitOrder) = 7
    /\ FinalOrder \in Seq(Parts) /\ Len(FinalOrder) = 4
  <1>1. Len(InitOrder) = 7 /\ Len(FinalOrder) = 4
    BY DEF InitOrder, FinalOrder
  <1>2. Parts = {"ConfFile", "respawnMark", "Database", "UnifiedSearch",
                 "SettingService", "SAM", "SearchManager"}
    BY DEF Parts, InitOrder
  <1>3. InitOrder \in Seq(Parts) /\ FinalOrder \in Seq(Parts)
    BY <1>2 DEF InitOrder, FinalOrder
  <1> QED
    BY <1>1, <1>3

LEMMA NothingLeft == <<>> \in Seq(Parts) /\ Len(<<>>) <= Len(InitOrder)
  BY Orders

LEMMA LeftIsDone ==
    ASSUME NEW S, NEW order \in Seq(S), NEW k \in 0..Len(order)
    PROVE  /\ Left(order, k) \in Seq(S) /\ Len(Left(order, k)) = Len(order) - k
           /\ Left(order, 0) = order
           /\ Left(order, k) = <<>> <=> k = Len(order)
           /\ k < Len(order) => /\ Head(Left(order, k)) = order[k + 1]
                                /\ Tail(Left(order, k)) = Left(order, k + 1)
  <1>1. Len(order) \in Nat
    OBVIOUS
  <1>2. Left(order, 0) = order
    BY SubSeqFull DEF Left
  <1>3. Left(order, k) \in Seq(S) /\ Len(Left(order, k)) = Len(order) - k
    <2>1. \A i \in k + 1 .. Len(order) : i \in 1..Len(order)
      BY <1>1
    <2>2. \A i \in k + 1 .. Len(order) : order[i] \in S
      BY <2>1, ElementOfSeq
    <2> QED
      BY <1>1, <2>2, SubSeqProperties DEF Left
  <1>4. Left(order, k) = <<>> <=> k = Len(order)
    BY <1>1, <1>3, EmptySeq
  <1>5. ASSUME k < Len(order)
        PROVE  /\ Head(Left(order, k)) = order[k + 1]
               /\ Tail(Left(order, k)) = Left(order, k + 1)
    <2>1. k + 1 \in 1..Len(order) /\ Len(order) \in k + 1 .. Len(order)
      BY <1>1, <1>5
    <2> QED
      BY <2>1, HeadTailOfSubSeq DEF Left
  <1> QED
    BY <1>2, <1>3, <1>4, <1>5

-----------------------------------------------------------------------------
(* initialize and finalize, one part at a time.                            *)

\* The part at the head of what is left is the one whose turn it is.
LEMMA PartOfInitialize ==
    ASSUME NEW k \in 0..6, todo = Left(InitOrder, k), InitializePart
    PROVE  /\ k = 0 => InitializeConfFile
           /\ k = 1 => InitializeMark
           /\ k = 2 => InitializeDatabase
           /\ k = 3 => InitializeUnifiedSearch
           /\ k = 4 => InitializeSettingService
           /\ k = 5 => InitializeSAM
           /\ k = 6 => InitializeSearchManager
  <1> DEFINE order == InitOrder
  <1>0. order \in Seq(Parts) /\ k \in 0..Len(order) /\ k < Len(order)
    BY Orders
  <1> HIDE DEF order
  <1>1. Head(todo) = InitOrder[k + 1]
    BY <1>0, LeftIsDone DEF order
  <1>2. /\ InitOrder[1] = "ConfFile" /\ InitOrder[2] = "respawnMark"
        /\ InitOrder[3] = "Database" /\ InitOrder[4] = "UnifiedSearch"
        /\ InitOrder[5] = "SettingService" /\ InitOrder[6] = "SAM"
        /\ InitOrder[7] = "SearchManager"
    BY DEF InitOrder
  <1> QED
    BY <1>1, <1>2 DEF InitializePart

LEMMA PartOfFinalize ==
    ASSUME NEW k \in 0..3, todo = Left(FinalOrder, k), FinalizePart
    PROVE  /\ k = 0 => FinalizeSearchManager
           /\ k = 1 => FinalizeClient("SAM")
           /\ k = 2 => FinalizeClient("SettingService")
           /\ k = 3 => FinalizeDatabase
  <1> DEFINE order == FinalOrder
  <1>0. order \in Seq(Parts) /\ k \in 0..Len(order) /\ k < Len(order)
    BY Orders
  <1> HIDE DEF order
  <1>1. Head(todo) = FinalOrder[k + 1]
    BY <1>0, LeftIsDone DEF order
  <1>2. /\ FinalOrder[1] = "SearchManager" /\ FinalOrder[2] = "SAM"
        /\ FinalOrder[3] = "SettingService" /\ FinalOrder[4] = "Database"
    BY DEF FinalOrder
  <1> QED
    BY <1>1, <1>2 DEF FinalizePart, Clients

\* A client that is made joins those registered, or those put off.
LEMMA ClientInitialized ==
    ASSUME TypeOK, NEW k \in 4..6, ClientsAfter(k), NEW c \in Clients \ Made(k),
           InitializeClient(c), handle' = handle
    PROVE  IF handle
           THEN /\ deferred' = {}
                /\ subscribed' = [d \in Clients |-> IF d \in Made(k) \cup {c} THEN 1 ELSE 0]
           ELSE /\ deferred' = Made(k) \cup {c}
                /\ subscribed' = [d \in Clients |-> 0]
  <1>1. CASE handle
    <2>1. /\ subscribed' = [d \in Clients |-> subscribed[d] + (IF d \in {c} THEN 1 ELSE 0)]
          /\ deferred' = deferred \ {c}
      BY <1>1 DEF InitializeClient, Ready, Register
    <2>2. /\ deferred = {}
          /\ subscribed = [d \in Clients |-> IF d \in Made(k) THEN 1 ELSE 0]
      BY <1>1 DEF ClientsAfter
    <2>3. \A d \in Clients : subscribed'[d] = IF d \in Made(k) \cup {c} THEN 1 ELSE 0
      BY <2>1, <2>2
    <2> QED
      BY <1>1, <2>1, <2>2, <2>3
  <1>2. CASE ~handle
    BY <1>2 DEF InitializeClient, Ready, ClientsAfter
  <1> QED
    BY <1>1, <1>2

\* initialize goes on from part k to the next.
LEMMA PartDone ==
    ASSUME IInv, NEW k \in 0..6, PartsAfter(k), todo = Left(InitOrder, k), InitializePart,
           stage = "initialize"
    PROVE  PartsAfter(k + 1)'
  <1>1. CASE k = 0
    BY <1>1, PartOfInitialize
       DEF InitializeConfFile, IsFile, PartsAfter, ClientsAfter, Made, boot
  <1>2. CASE k = 1
    BY <1>2, PartOfInitialize
       DEF InitializeMark, CreateFile, PartsAfter, ClientsAfter, Made, parts
  <1>3. CASE k = 2
    BY <1>3, PartOfInitialize
       DEF InitializeDatabase, PartsAfter, ClientsAfter, Made, Opened, boot
  <1>4. CASE k = 3
    <2>1. InitializeUnifiedSearch
      BY <1>4, PartOfInitialize
    <2>2. /\ handle = FALSE /\ deferred = {} /\ Made(3) = {} /\ Made(4) = {}
          /\ subscribed = [c \in Clients |-> 0] /\ sets' = sets /\ database' = database
          /\ database \in Opened
      BY <1>4, <2>1 DEF InitializeUnifiedSearch, PartsAfter, ClientsAfter, Made, IInv, TypeOK
    <2>3. deferred' = {} /\ subscribed' = [c \in Clients |-> 0] /\ handle' \in BOOLEAN
      <3>1. CASE SetMainHandle
        <4>1. /\ handle' = TRUE /\ deferred' = {}
              /\ subscribed' = [c \in Clients |-> subscribed[c] + (IF c \in {} THEN 1 ELSE 0)]
          BY <2>2, <3>1 DEF SetMainHandle, Register
        <4>2. \A c \in Clients : subscribed[c] = 0
          BY <2>2
        <4>3. \A c \in Clients : subscribed[c] + (IF c \in {} THEN 1 ELSE 0) = 0
          BY <4>2
        <4> QED
          BY <4>1, <4>3
      <3>2. CASE UNCHANGED <<handle, deferred, subscribed>>
        BY <2>2, <3>2
      <3> QED
        BY <2>1, <3>1, <3>2 DEF InitializeUnifiedSearch
    <2> QED
      BY <1>4, <2>2, <2>3 DEF PartsAfter, ClientsAfter, Made
  <1>5. CASE k = 4
    <2>1. InitializeSettingService
      BY <1>5, PartOfInitialize
    <2>2. Made(4) = {} /\ Made(5) = {"SettingService"} /\ Made(5)' = {"SettingService"}
      BY DEF Made
    <2> QED
      BY <1>5, <2>1, <2>2, ClientInitialized
         DEF InitializeSettingService, PartsAfter, ClientsAfter, IInv, Clients, boot
  <1>6. CASE k = 5
    <2>1. InitializeSAM
      BY <1>6, PartOfInitialize
    <2>2. Made(5) = {"SettingService"} /\ Made(6)' = {"SettingService", "SAM"}
      BY DEF Made
    <2> QED
      BY <1>6, <2>1, <2>2, ClientInitialized
         DEF InitializeSAM, Ready, PartsAfter, ClientsAfter, IInv, Clients, boot
  <1>7. CASE k = 6
    <2>1. InitializeSearchManager
      BY <1>7, PartOfInitialize
    <2>2. Made(6) = {"SettingService", "SAM"}
          /\ Made(7)' = {"SettingService", "SAM"} \cup ({"DB8"} \cap sets')
      BY DEF Made
    <2>3. CASE LoadPlugin
      BY <1>7, <2>1, <2>2, <2>3, ClientInitialized
         DEF InitializeSearchManager, LoadPlugin, PartsAfter, ClientsAfter, IInv, Clients, boot
    <2>4. CASE UNCHANGED <<deferred, subscribed, sets>>
      <3>1. Made(7)' = Made(6)
        BY <1>7, <2>2, <2>4 DEF PartsAfter, ClientsAfter
      <3> QED
        BY <1>7, <2>1, <2>4, <3>1
           DEF InitializeSearchManager, PartsAfter, ClientsAfter, boot
    <2> QED
      BY <2>1, <2>3, <2>4 DEF InitializeSearchManager
  <1> QED
    BY <1>1, <1>2, <1>3, <1>4, <1>5, <1>6, <1>7

-----------------------------------------------------------------------------
(* The inductive invariant is one.                                         *)

LEMMA InitialIsInductive == Init => IInv
  <1> SUFFICES ASSUME Init PROVE IInv
    OBVIOUS
  <1>1. TypeOK
    <2>1. /\ todo \in Seq(Parts) /\ Len(todo) <= Len(InitOrder)
          /\ subscribed \in [Clients -> 0..2] /\ 0 \in 0..MaxStarts
      BY StartsAssumption, NothingLeft DEF Init
    <2> QED
      BY <2>1 DEF Init, TypeOK
  <1>2. Progress
    BY DEF Init, Progress, NoParts
  <1>3. Marked
    BY DEF Init, Marked
  <1> QED
    BY <1>1, <1>2, <1>3 DEF IInv

\* A death leaves nothing of the process, so what it leaves on /tmp decides.
LEMMA GoneIsInductive ==
    ASSUME Gone, {marks', starts'} \subseteq 0..MaxStarts, mark' \in BOOLEAN,
           marks' = IF mark' THEN 1 ELSE 0, mark' => starts' >= 1
    PROVE  IInv'
  <1>1. TypeOK'
    <2>1. todo' \in Seq(Parts) /\ Len(todo') <= Len(InitOrder)
      BY NothingLeft DEF Gone
    <2>2. subscribed' \in [Clients -> 0..2]
      BY DEF Gone
    <2> QED
      BY <2>1, <2>2 DEF Gone, TypeOK
  <1>2. Progress'
    BY DEF Gone, Progress, NoParts
  <1>3. Marked'
    BY DEF Gone, Marked
  <1> QED
    BY <1>1, <1>2, <1>3 DEF IInv

\* A process of this boot goes.
LEMMA DeathIsInductive ==
    ASSUME IInv, Gone, UNCHANGED boot
    PROVE  IInv'
  BY GoneIsInductive DEF IInv, TypeOK, Marked, boot

\* Steps of main outside initialize and finalize.
LEMMA MainIsInductive ==
    ASSUME IInv,
           Start \/ CatchIgnored \/ CatchStopping \/ BeginInitialize \/ Run \/ Wake
    PROVE  IInv'
  <1>1. CASE Start
    <2>0. marks \in 0..MaxStarts /\ starts \in 0..MaxStarts /\ starts' = starts + 1
          /\ starts < MaxStarts /\ MaxStarts \in Nat
      BY <1>1, StartsAssumption DEF Start, IInv, TypeOK
    <2>1. TypeOK'
      <3>1. marks' \in 0..MaxStarts /\ starts' \in 0..MaxStarts
        BY <1>1, <2>0 DEF Start
      <3> QED
        BY <1>1, <3>1 DEF Start, IInv, TypeOK, signals, parts
    <2>2. starts \in Nat /\ (mark => starts >= 1)
      BY <2>0 DEF IInv, Marked
    <2>3. Progress'
      BY <1>1, <2>2 DEF Start, IInv, Progress, NoParts, signals, parts
    <2>4. Marked'
      BY <1>1, <2>2 DEF Start, IInv, Marked, signals, parts
    <2> QED
      BY <2>1, <2>3, <2>4 DEF IInv
  <1>2. CASE CatchIgnored \/ CatchStopping
    <2>1. TypeOK'
      BY <1>2 DEF CatchIgnored, CatchStopping, IInv, TypeOK, Signals, signals, parts, boot
    <2>2. Progress'
      BY <1>2 DEF CatchIgnored, CatchStopping, IInv, Progress, NoParts, signals, parts, boot
    <2>3. Marked'
      BY <1>2 DEF CatchIgnored, CatchStopping, IInv, Marked, signals, parts, boot
    <2> QED
      BY <2>1, <2>2, <2>3 DEF IInv
  <1>3. CASE BeginInitialize
    <2>1. TypeOK'
      BY <1>3, Orders DEF BeginInitialize, IInv, TypeOK, signals, parts, boot
    <2>2. todo' = Left(InitOrder, 0)
      BY <1>3, Orders, LeftIsDone DEF BeginInitialize
    <2>3. PartsAfter(0)
      BY <1>3 DEF BeginInitialize, IInv, Progress, NoParts, PartsAfter, ClientsAfter, Made
    <2>4. PartsAfter(0)'
      BY <1>3, <2>3 DEF BeginInitialize, PartsAfter, ClientsAfter, Made, parts, boot
    <2>5. Progress'
      BY <1>3, <2>2, <2>4 DEF BeginInitialize, IInv, Progress
    <2>6. Marked'
      BY <1>3 DEF BeginInitialize, IInv, Marked, signals, parts, boot
    <2> QED
      BY <2>1, <2>5, <2>6 DEF IInv
  <1>4. CASE Run
    <2>1. TypeOK'
      BY <1>4 DEF Run, IInv, TypeOK, signals, parts, boot
    <2>2. PICK k \in 0..7 : todo = Left(InitOrder, k) /\ PartsAfter(k)
      BY <1>4 DEF Run, IInv, Progress
    <2>3. InitOrder \in Seq(Parts) /\ k \in 0..Len(InitOrder) /\ Len(InitOrder) = 7
      BY <2>2, Orders
    <2>4. k = 7
      BY <1>4, <2>2, <2>3, LeftIsDone DEF Run
    <2>5. PartsAfter(7)'
      BY <1>4, <2>2, <2>4 DEF Run, PartsAfter, ClientsAfter, Made, parts, boot
    <2>6. Progress'
      BY <1>4, <2>5 DEF Run, IInv, Progress
    <2>7. Marked'
      BY <1>4 DEF Run, IInv, Marked, signals, parts, boot
    <2> QED
      BY <2>1, <2>6, <2>7 DEF IInv
  <1>5. CASE Wake
    <2>1. TypeOK'
      BY <1>5 DEF Wake, IInv, TypeOK, main, signals, parts, boot
    <2>2. PartsAfter(7)'
      BY <1>5 DEF Wake, IInv, Progress, PartsAfter, ClientsAfter, Made, parts, boot
    <2>3. Progress'
      BY <1>5, <2>2 DEF Wake, IInv, Progress, main
    <2>4. Marked'
      BY <1>5 DEF Wake, IInv, Marked, main, signals, parts, boot
    <2> QED
      BY <2>1, <2>3, <2>4 DEF IInv
  <1> QED
    BY <1>1, <1>2, <1>3, <1>4, <1>5

\* The mark is made by a process that has not found it.
LEMMA MarkedWhileInitializing ==
    ASSUME IInv, NEW k \in 0..6, PartsAfter(k), todo = Left(InitOrder, k), InitializePart,
           stage = "initialize", stage' = stage
    PROVE  Marked' /\ starts' = starts
  <1>1. starts \in 0..MaxStarts /\ marks \in 0..MaxStarts /\ mark \in BOOLEAN /\ starts >= 1
    BY DEF IInv, TypeOK, Marked
  <1>2. CASE k = 0
    BY <1>1, <1>2, PartOfInitialize
       DEF InitializeConfFile, IsFile, PartsAfter, IInv, Marked, boot
  <1>3. CASE k = 1
    <2>1. InitializeMark /\ (respawned <=> mark)
      BY <1>3, PartOfInitialize DEF PartsAfter
    <2>2. /\ respawned' = respawned /\ starts' = starts
          /\ marks = IF mark THEN 1 ELSE 0
          /\ respawned => mark /\ starts > 1
      BY <2>1 DEF InitializeMark, IInv, Marked, parts
    <2>3. CASE respawned
      BY <1>1, <2>1, <2>2, <2>3 DEF InitializeMark, Marked
    <2>4. CASE ~respawned
      <3>1. \/ mark' = TRUE /\ marks' = 1
            \/ mark' = mark /\ marks' = marks
        BY <2>1, <2>2, <2>4 DEF InitializeMark, CreateFile
      <3>2. marks' = (IF mark' THEN 1 ELSE 0) /\ ~respawned'
        BY <2>2, <2>4, <3>1
      <3> QED
        BY <1>1, <2>2, <3>2 DEF Marked
    <2> QED
      BY <2>3, <2>4
  <1>4. CASE k \in 2..6
    <2>1. UNCHANGED <<boot, respawned>>
      BY <1>4, PartOfInitialize
         DEF InitializeDatabase, InitializeUnifiedSearch, InitializeSettingService,
             InitializeSAM, InitializeSearchManager
    <2> QED
      BY <1>1, <2>1 DEF IInv, Marked, boot
  <1> QED
    BY <1>2, <1>3, <1>4

LEMMA InitializeIsInductive ==
    ASSUME IInv, Initialize
    PROVE  IInv'
  <1>1. PICK k \in 0..7 : todo = Left(InitOrder, k) /\ PartsAfter(k)
    BY DEF Initialize, IInv, Progress
  <1> DEFINE order == InitOrder
  <1>2. order \in Seq(Parts) /\ k \in 0..Len(order) /\ Len(order) = 7
    BY Orders
  <1>3. k \in 0..6 /\ k < Len(order)
    <2>1. Left(order, k) # <<>>
      BY <1>1 DEF Initialize
    <2> HIDE DEF order
    <2>2. k # Len(order)
      BY <1>2, <2>1, LeftIsDone
    <2> QED
      BY <1>2, <2>2
  <1>4. /\ todo' = Left(order, k + 1) /\ todo' \in Seq(Parts) /\ Len(todo') <= Len(order)
    <2> HIDE DEF order
    <2>1. todo = Left(order, k) /\ todo' = Tail(todo)
      BY <1>1 DEF Initialize, order
    <2>2. k + 1 \in 0..Len(order)
      BY <1>2, <1>3
    <2>3. todo' = Left(order, k + 1)
      BY <1>2, <1>3, <2>1, LeftIsDone
    <2>4. Left(order, k + 1) \in Seq(Parts) /\ Len(Left(order, k + 1)) = Len(order) - (k + 1)
      BY <1>2, <2>2, LeftIsDone
    <2> QED
      BY <1>2, <1>3, <2>3, <2>4
  <1>5. PartsAfter(k + 1)'
    BY <1>1, <1>3, PartDone DEF Initialize
  <1>6. Marked' /\ starts' = starts
    BY <1>1, <1>3, MarkedWhileInitializing DEF Initialize
  <1>7. TypeOK'
    <2>1. starts \in 0..MaxStarts /\ starts >= 1 /\ MaxStarts \in Nat
      BY StartsAssumption DEF IInv, TypeOK, Marked, Initialize
    <2>2. marks' \in 0..MaxStarts /\ starts' \in 0..MaxStarts
      BY <1>6, <2>1 DEF Marked
    <2>3. /\ subscribed' \in [Clients -> 0..2]
          /\ database' \in {"none", "ready", "unprepared", "dangling", "closed"}
      BY <1>5 DEF PartsAfter, ClientsAfter, Opened
    <2>4. /\ respawned' \in BOOLEAN /\ handle' \in BOOLEAN /\ mark' \in BOOLEAN
          /\ deferred' \subseteq Clients /\ sets' \subseteq Clients
      <3>1. /\ respawned \in BOOLEAN /\ handle \in BOOLEAN /\ mark \in BOOLEAN
            /\ deferred \subseteq Clients /\ sets \subseteq Clients
        BY DEF IInv, TypeOK
      <3>2. /\ k = 0 => InitializeConfFile
            /\ k = 1 => InitializeMark
            /\ k = 2 => InitializeDatabase
            /\ k = 3 => InitializeUnifiedSearch
            /\ k = 4 => InitializeSettingService
            /\ k = 5 => InitializeSAM
            /\ k = 6 => InitializeSearchManager
        BY <1>1, <1>3, PartOfInitialize DEF Initialize
      <3>3. CASE k = 0
        BY <3>1, <3>2, <3>3 DEF InitializeConfFile, IsFile, boot
      <3>4. CASE k = 1
        BY <3>1, <3>2, <3>4 DEF InitializeMark, CreateFile, parts
      <3>5. CASE k = 2
        BY <3>1, <3>2, <3>5 DEF InitializeDatabase, boot
      <3>6. CASE k = 3
        BY <3>1, <3>2, <3>6 DEF InitializeUnifiedSearch, SetMainHandle, Register, boot
      <3>7. ASSUME NEW c \in Clients, InitializeClient(c) PROVE deferred' \subseteq Clients
        BY <3>1, <3>7 DEF InitializeClient, Register
      <3>8. CASE k = 4
        BY <3>1, <3>2, <3>7, <3>8 DEF InitializeSettingService, Clients, boot
      <3>9. CASE k = 5
        BY <3>1, <3>2, <3>7, <3>9 DEF InitializeSAM, Clients, boot
      <3>10. CASE k = 6
        BY <3>1, <3>2, <3>7, <3>10 DEF InitializeSearchManager, LoadPlugin, Clients, boot
      <3> QED
        BY <1>3, <3>3, <3>4, <3>5, <3>6, <3>8, <3>9, <3>10
    <2> QED
      BY <1>4, <2>2, <2>3, <2>4 DEF Initialize, IInv, TypeOK, signals
  <1>8. Progress'
    BY <1>3, <1>4, <1>5 DEF Initialize, IInv, Progress
  <1> QED
    BY <1>6, <1>7, <1>8 DEF IInv

LEMMA EndIterationIsInductive ==
    ASSUME IInv, EndIteration
    PROVE  IInv'
  <1> DEFINE order == FinalOrder
  <1>1. order \in Seq(Parts) /\ Len(order) = 4 /\ 0 \in 0..Len(order) /\ Len(InitOrder) = 7
    BY Orders
  <1>2. order = Left(order, 0)
    <2> HIDE DEF order
    <2> QED
      BY <1>1, LeftIsDone
  <1>3. TypeOK'
    <2>1. todo' \in Seq(Parts) /\ Len(todo') <= Len(InitOrder)
      <3>1. todo \in Seq(Parts) /\ Len(todo) <= Len(InitOrder)
        BY DEF IInv, TypeOK
      <3>2. todo' = todo \/ todo' = order
        BY DEF EndIteration
      <3> HIDE DEF order
      <3>3. CASE todo' = todo
        BY <3>1, <3>3
      <3>4. CASE todo' = order
        <4>1. order \in Seq(Parts) /\ Len(order) <= Len(InitOrder)
          BY <1>1
        <4> QED
          BY <3>4, <4>1
      <3> QED
        BY <3>2, <3>3, <3>4
    <2> QED
      BY <2>1 DEF EndIteration, IInv, TypeOK, signals, parts, boot
  <1>4. PartsAfter(7) /\ PartsAfter(7)'
    BY DEF EndIteration, IInv, Progress, PartsAfter, ClientsAfter, Made, parts, boot
  <1>5. PartsLeft(0)'
    BY <1>4 DEF PartsAfter, ClientsAfter, PartsLeft
  <1>6. Progress'
    BY <1>2, <1>4, <1>5 DEF EndIteration, IInv, Progress
  <1>7. Marked'
    BY DEF EndIteration, IInv, Marked, signals, parts, boot
  <1> QED
    BY <1>3, <1>6, <1>7 DEF IInv

LEMMA FinalizeIsInductive ==
    ASSUME IInv, Finalize
    PROVE  IInv'
  <1>1. PICK k \in 0..4 : todo = Left(FinalOrder, k) /\ PartsLeft(k)
    BY DEF Finalize, IInv, Progress
  <1> DEFINE order == FinalOrder
  <1>2. order \in Seq(Parts) /\ k \in 0..Len(order) /\ Len(order) = 4 /\ Len(InitOrder) = 7
    BY Orders
  <1>3. k \in 0..3 /\ k < Len(order)
    <2>1. Left(order, k) # <<>>
      BY <1>1 DEF Finalize
    <2> HIDE DEF order
    <2>2. k # Len(order)
      BY <1>2, <2>1, LeftIsDone
    <2> QED
      BY <1>2, <2>2
  <1>4. todo' = Left(order, k + 1) /\ todo' \in Seq(Parts) /\ Len(todo') <= Len(InitOrder)
    <2> HIDE DEF order
    <2>1. todo = Left(order, k) /\ todo' = Tail(todo)
      BY <1>1 DEF Finalize, order
    <2>2. k + 1 \in 0..Len(order)
      BY <1>2, <1>3
    <2>3. todo' = Left(order, k + 1)
      BY <1>2, <1>3, <2>1, LeftIsDone
    <2>4. Left(order, k + 1) \in Seq(Parts) /\ Len(Left(order, k + 1)) = Len(order) - (k + 1)
      BY <1>2, <2>2, LeftIsDone
    <2> QED
      BY <1>2, <1>3, <2>3, <2>4
  <1>5. /\ k = 0 => FinalizeSearchManager
        /\ k = 1 => FinalizeClient("SAM")
        /\ k = 2 => FinalizeClient("SettingService")
        /\ k = 3 => FinalizeDatabase
    BY <1>1, <1>3, PartOfFinalize DEF Finalize
  <1>6. PartsLeft(k + 1)'
    BY <1>1, <1>3, <1>5
       DEF PartsLeft, FinalizeSearchManager, FinalizeClient, FinalizeDatabase, Clients, parts
  <1>7. UNCHANGED <<respawned, handle, deferred, sets, boot>>
    BY <1>3, <1>5 DEF FinalizeSearchManager, FinalizeClient, FinalizeDatabase, parts
  <1>8. TypeOK'
    BY <1>4, <1>6, <1>7 DEF Finalize, IInv, TypeOK, PartsLeft, Opened, signals, boot
  <1>9. Progress'
    BY <1>3, <1>4, <1>6 DEF Finalize, IInv, Progress
  <1>10. Marked'
    BY <1>7 DEF Finalize, IInv, Marked, boot
  <1> QED
    BY <1>8, <1>9, <1>10 DEF IInv

\* A handler touches no part, nor what main is in.
LEMMA SignalIsInductive ==
    ASSUME IInv, NEW s \in Signals, Signal(s)
    PROVE  IInv'
  <1>1. CASE Gone /\ UNCHANGED boot
    BY <1>1, DeathIsInductive
  <1>2. CASE Handle(s) \/ Hang
    <2>1. UNCHANGED <<main, busy, parts, boot>>
      BY <1>2 DEF Handle, Hang
    <2>2. TypeOK'
      BY <1>2 DEF Handle, Hang, IInv, TypeOK, main, parts, boot
    <2>3. \A k \in 0..7 : PartsAfter(k) => PartsAfter(k)'
      BY <2>1 DEF PartsAfter, ClientsAfter, Made, parts, boot
    <2>4. \A k \in 0..4 : PartsLeft(k) => PartsLeft(k)'
      BY <2>1 DEF PartsLeft, parts
    <2>5. Progress'
      BY <2>1, <2>3, <2>4 DEF IInv, Progress, NoParts, main, parts, boot
    <2>6. Marked'
      BY <2>1 DEF IInv, Marked, main, parts, boot
    <2> QED
      BY <2>2, <2>5, <2>6 DEF IInv
  <1> QED
    BY <1>1, <1>2 DEF Signal

THEOREM InductiveInvariant == Spec => []IInv
  <1>1. ASSUME IInv, Next PROVE IInv'
    <2>1. CASE Main
      <3>1. CASE Initialize
        BY <1>1, <3>1, InitializeIsInductive
      <3>2. CASE Finalize
        BY <1>1, <3>2, FinalizeIsInductive
      <3>3. CASE EndIteration
        BY <1>1, <3>3, EndIterationIsInductive
      <3>4. CASE Exit
        BY <1>1, <3>4, DeathIsInductive DEF Exit
      <3>5. CASE CatchIgnored \/ CatchStopping \/ BeginInitialize \/ Run \/ Wake
        BY <1>1, <3>5, MainIsInductive
      <3> QED
        BY <2>1, <3>1, <3>2, <3>3, <3>4, <3>5 DEF Main
    <2>2. CASE Start \/ Wake
      BY <1>1, <2>2, MainIsInductive
    <2>3. ASSUME NEW s \in Signals, Signal(s) PROVE IInv'
      BY <1>1, <2>3, SignalIsInductive
    <2>4. CASE Crash
      BY <1>1, <2>4, DeathIsInductive DEF Crash
    <2>5. CASE Reboot
      <3>1. {0} \subseteq 0..MaxStarts
        BY StartsAssumption
      <3>2. Gone /\ mark' = FALSE /\ marks' = 0 /\ starts' = 0
        BY <2>5 DEF Reboot
      <3>3. {marks', starts'} \subseteq 0..MaxStarts
        BY <3>1, <3>2
      <3> QED
        BY <3>2, <3>3, GoneIsInductive
    <2> QED
      BY <1>1, <2>1, <2>2, <2>3, <2>4, <2>5 DEF Next
  <1>2. ASSUME IInv, UNCHANGED vars PROVE IInv'
    <2>1. TypeOK'
      BY <1>2 DEF IInv, TypeOK, vars, main, signals, parts, boot
    <2>2. \A k \in 0..7 : PartsAfter(k) => PartsAfter(k)'
      BY <1>2 DEF PartsAfter, ClientsAfter, Made, vars, main, signals, parts, boot
    <2>3. \A k \in 0..4 : PartsLeft(k) => PartsLeft(k)'
      BY <1>2 DEF PartsLeft, vars, main, signals, parts, boot
    <2>4. Progress'
      BY <1>2, <2>2, <2>3 DEF IInv, Progress, NoParts, vars, main, signals, parts, boot
    <2>5. Marked'
      BY <1>2 DEF IInv, Marked, vars, main, signals, parts, boot
    <2> QED
      BY <2>1, <2>4, <2>5 DEF IInv
  <1> QED
    BY <1>1, <1>2, InitialIsInductive, PTL DEF Spec

-----------------------------------------------------------------------------
(* What it says of the daemon.                                             *)

\* Every variable of main, the parts and the mark has its type in every reachable state
\* (MainDaemon.cpp 30-75, Main.cpp 41-105).
THEOREM TypeCorrect == Spec => []TypeOK
  <1>1. IInv => TypeOK
    BY DEF IInv
  <1> QED
    BY <1>1, InductiveInvariant, PTL

\* No search set is added and no callback runs unless there was an attempt to open the
\* tables, and they are closed only after the clients that main finalizes have ended
\* their registrations (MainDaemon.cpp 43-75, SearchManager.cpp 59-63).
THEOREM TablesWhileUsed == Spec => []DatabaseWhileUsed
  <1>1. ASSUME IInv PROVE DatabaseWhileUsed
    <2>1. CASE stage \in {"down", "main"}
      BY <1>1, <2>1 DEF IInv, Progress, NoParts, DatabaseWhileUsed
    <2>2. CASE stage = "initialize"
      <3>1. PICK k \in 0..7 : PartsAfter(k)
        BY <1>1, <2>2 DEF IInv, Progress
      <3>2. ~busy /\ sets \subseteq Clients
        BY <1>1, <2>2 DEF IInv, Progress, TypeOK
      <3>3. k < 3 => sets = {}
        <4>1. k < 3 => "SAM" \notin sets /\ "DB8" \notin sets /\ "SettingService" \notin sets
          BY <3>1 DEF PartsAfter, ClientsAfter
        <4> QED
          BY <3>2, <4>1 DEF Clients
      <3> QED
        BY <3>1, <3>2, <3>3 DEF PartsAfter, Opened, DatabaseWhileUsed
    <2>3. CASE stage = "loop"
      BY <1>1, <2>3 DEF IInv, Progress, PartsAfter, Opened, DatabaseWhileUsed
    <2>4. CASE stage = "finalize"
      <3>1. PICK k \in 0..4 : PartsLeft(k)
        BY <1>1, <2>4 DEF IInv, Progress
      <3>2. ~busy
        BY <1>1, <2>4 DEF IInv, Progress
      <3> QED
        BY <3>1, <3>2 DEF PartsLeft, Opened, DatabaseWhileUsed
    <2> QED
      BY <1>1, <2>1, <2>2, <2>3, <2>4 DEF IInv, TypeOK
  <1> QED
    BY <1>1, InductiveInvariant, PTL

\* Whenever the loop runs, every client that exists is registered once and has its
\* search set, or every one is put off for good (LunaClient.cpp 79-97, 154-168,
\* UnifiedSearch.cpp 44-52).
THEOREM ClientsAllOrNobody == Spec => []AllOrNobody
  <1>1. ASSUME IInv PROVE AllOrNobody
    <2>1. SUFFICES ASSUME stage = "loop" PROVE AllOrNobody
      BY DEF AllOrNobody
    <2>2. ClientsAfter(7)
      BY <1>1, <2>1 DEF IInv, Progress, PartsAfter
    <2>3. Made(7) = {"SettingService", "SAM"} \cup (sets \cap {"DB8"})
      BY DEF Made
    <2> QED
      BY <2>2, <2>3 DEF ClientsAfter, AllOrNobody
  <1> QED
    BY <1>1, InductiveInvariant, PTL

\* However often the process dies and is started again, one of a boot at most makes
\* the mark, and those that know they are respawned come later (ConfFile.cpp 29-45).
THEOREM MarkedOnce == Spec => []RespawnedComesLater
  <1>1. IInv => RespawnedComesLater
    BY DEF IInv, Marked, RespawnedComesLater
  <1> QED
    BY <1>1, InductiveInvariant, PTL
=============================================================================
