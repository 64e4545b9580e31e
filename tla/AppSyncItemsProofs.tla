------------------------- MODULE AppSyncItemsProofs -------------------------
(***************************************************************************)
(* The items of sam.apps and the categories of applications follow what is *)
(* installed, for any applications and any number of messages under way.   *)
(*                                                                         *)
(* The argument: while the subscription lives, an application is where it  *)
(* belongs and no message says otherwise, or exactly one entry for it is   *)
(* on its way that no later message undoes, and finds its place free.      *)
(***************************************************************************)
EXTENDS AppSyncProofs

\* Nothing is asked for before the main loop runs, nor kept from an old subscription.
Delivery ==
    /\ phase # "running" => sub = "none"
    /\ sub = "asked" => queue = <<>>

\* What is registered is indexed; applications that are not visible have no items.
Registry ==
    /\ phase # "down" => SamApps \in DOMAIN cats
    /\ DOMAIN cats \cap Readable \subseteq indexed
    /\ \A id \in Apps \ Visible : listed[id] = 0

Standing(id) ==
    /\ id \in Visible => listed[id] = 1
    /\ id \in Indexed => id \in DOMAIN cats

Free(id) == Erased(id) \/ listed[id] = 0

Single(S) == \E e \in S : S = {e}

\* An application is where it belongs, or on its way exactly once, to a free place.
OnItsWay(id) ==
    \/ id \in installed /\ Lasting(id) = {} /\ ~Erased(id) /\ Standing(id)
    \/ id \in installed /\ Single(Lasting(id)) /\ Free(id)
    \/ id \notin installed /\ Lasting(id) = {} /\ Free(id)

InStep == sub = "live" => \A id \in Apps : OnItsWay(id)

ItemsInv == Delivery /\ Registry /\ InStep

-----------------------------------------------------------------------------
(* Messages come and go.                                                   *)

Lasts(k, i, id) ==
    /\ k \in 0..Len(queue) /\ i \in DOMAIN Entered(k) /\ Entered(k)[i].id = id
    /\ \A j \in DOMAIN queue : j > k => ~Erases(queue[j], id)

LEMMA LastingIs ==
    \A id : /\ \A k, i : <<k, i>> \in Lasting(id) <=> Lasts(k, i, id)
            /\ \A e \in Lasting(id) : e = <<e[1], e[2]>> /\ e[1] \in 0..Len(queue)
  BY DEF Lasting, Lasts

LEMMA LastingAfter ==
    \A id : /\ \A k, i : <<k, i>> \in Lasting(id)' <=> Lasts(k, i, id)'
            /\ \A e \in Lasting(id)' : e = <<e[1], e[2]>> /\ e[1] \in 0..Len(queue')
  BY DEF Lasting, Lasts

\* Sets of which one is the image of the other under a renaming of places.
LEMMA SameNumber ==
    ASSUME NEW S, NEW T, NEW g, g \in [T -> S],
           \A e, f \in T : g[e] = g[f] => e = f, \A e \in S : \E f \in T : g[f] = e
    PROVE  (S = {} => T = {}) /\ (Single(S) => Single(T))
  BY DEF Single

\* The queue is one of messages before and after a step.
LEMMA Queues ==
    ASSUME IInv, [Next]_vars
    PROVE  /\ queue \in Seq(Message) /\ Len(queue) \in Nat /\ DOMAIN queue = 1..Len(queue)
           /\ queue' \in Seq(Message) /\ Len(queue') \in Nat /\ DOMAIN queue' = 1..Len(queue')
           /\ handling \in Seq(AppEntry) /\ handling' \in Seq(AppEntry)
           /\ installed \subseteq Apps /\ installed' \subseteq Apps
           /\ listed \in [Apps -> Nat] /\ listed' \in [Apps -> Nat]
  BY NextSound DEF IInv, TypeOK

\* When a message is taken, those behind it move up.
LEMMA MessageTaken ==
    ASSUME IInv, [Next]_vars, queue # <<>>, queue' = Tail(queue)
    PROVE  /\ 1 \in DOMAIN queue /\ Len(queue') = Len(queue) - 1
           /\ \A k \in 1..Len(queue') : Entered(k)' = Entered(k + 1)
           /\ \A k \in 1..Len(queue') : queue'[k] = queue[k + 1]
           /\ \A k \in 1..Len(queue') : \A i, id : Lasts(k, i, id)' <=> Lasts(k + 1, i, id)
           /\ \A id : Erased(id) <=> Erases(queue[1], id) \/ Erased(id)'
  <1>1. /\ 1 \in DOMAIN queue /\ Len(queue') = Len(queue) - 1
        /\ \A k \in 1..Len(queue') : queue'[k] = queue[k + 1]
    BY Queues, HeadTailProperties, EmptySeq
  <1>2. /\ \A k \in 1..Len(queue') : k + 1 \in 1..Len(queue) /\ k # 0 /\ k + 1 # 0
        /\ \A k \in 1..Len(queue) : k = 1 \/ k - 1 \in 1..Len(queue')
    BY <1>1, Queues
  <1>3. \A k \in 1..Len(queue') : Entered(k)' = Entered(k + 1)
    BY <1>1, <1>2 DEF Entered
  <1>4. ASSUME NEW k \in 1..Len(queue'), NEW id
        PROVE  (\A j \in 1..Len(queue') : j > k => ~Erases(queue'[j], id))
               <=> (\A j \in 1..Len(queue) : j > k + 1 => ~Erases(queue[j], id))
    <2>1. ASSUME \A j \in 1..Len(queue') : j > k => ~Erases(queue'[j], id),
                 NEW j \in 1..Len(queue), j > k + 1
          PROVE  ~Erases(queue[j], id)
      <3>1. j - 1 \in 1..Len(queue') /\ j - 1 > k /\ (j - 1) + 1 = j
        BY <1>1, <2>1, Queues
      <3> QED
        BY <1>1, <2>1, <3>1
    <2>2. ASSUME \A j \in 1..Len(queue) : j > k + 1 => ~Erases(queue[j], id),
                 NEW j \in 1..Len(queue'), j > k
          PROVE  ~Erases(queue'[j], id)
      <3>1. j + 1 \in 1..Len(queue) /\ j + 1 > k + 1
        BY <1>1, <2>2, Queues
      <3> QED
        BY <1>1, <2>2, <3>1
    <2> QED
      BY <2>1, <2>2
  <1>5. \A k \in 1..Len(queue') : \A i, id : Lasts(k, i, id)' <=> Lasts(k + 1, i, id)
    <2>1. \A k \in 1..Len(queue') : k \in 0..Len(queue') /\ k + 1 \in 0..Len(queue)
      BY <1>2, Queues
    <2> QED
      BY <1>3, <1>4, <2>1, Queues DEF Lasts
  <1>6. \A id : Erased(id) <=> Erases(queue[1], id) \/ Erased(id)'
    <2>1. ASSUME NEW id, NEW k \in 1..Len(queue), Erases(queue[k], id), k # 1
          PROVE  \E j \in 1..Len(queue') : Erases(queue'[j], id)
      <3>1. k - 1 \in 1..Len(queue') /\ (k - 1) + 1 = k
        BY <1>1, <2>1, Queues
      <3> QED
        BY <1>1, <2>1, <3>1
    <2> QED
      BY <1>1, <1>2, <2>1, Queues DEF Erased
  <1> QED
    BY <1>1, <1>3, <1>5, <1>6

\* A message of which the list in hand keeps all it says of an application, if it says
\* anything, leaves as many entries of it as before.
LEMMA NoneGoesMissing ==
    ASSUME IInv, [Next]_vars, queue # <<>>, queue' = Tail(queue), handling = <<>>, NEW id,
           \A i : Lasts(0, i, id)' <=> Lasts(1, i, id)
    PROVE  /\ Lasting(id) = {} => Lasting(id)' = {}
           /\ Single(Lasting(id)) => Single(Lasting(id)')
  <1>1. \A k, i : Lasts(k, i, id)' <=> k \in 0..Len(queue') /\ Lasts(k + 1, i, id)
    <2>1. \A k : k \in 0..Len(queue') <=> k = 0 \/ k \in 1..Len(queue')
      BY Queues
    <2>2. \A k, i : Lasts(k, i, id)' => k \in 0..Len(queue')
      BY DEF Lasts
    <2> QED
      BY <2>1, <2>2, MessageTaken
  <1>2. \A k, i : Lasts(k, i, id) => k \in 1..Len(queue)
    <2>1. \A i : i \notin DOMAIN Entered(0)
      BY DEF Entered
    <2> QED
      BY <2>1, Queues DEF Lasts
  <1> DEFINE g == [e \in Lasting(id)' |-> <<e[1] + 1, e[2]>>]
  <1>3. \A e \in Lasting(id)' : e = <<e[1], e[2]>> /\ e[1] \in 0..Len(queue')
    BY LastingAfter
  <1>4. \A k, i : <<k, i>> \in Lasting(id)' <=> Lasts(k, i, id)'
    BY LastingAfter
  <1>5. g \in [Lasting(id)' -> Lasting(id)]
    BY <1>1, <1>3, <1>4, LastingIs
  <1>6. \A e, f \in Lasting(id)' : g[e] = g[f] => e = f
    <2>1. ASSUME NEW e \in Lasting(id)', NEW f \in Lasting(id)', g[e] = g[f]
          PROVE  e = f
      <3>1. e[1] + 1 = f[1] + 1 /\ e[2] = f[2]
        BY <2>1
      <3>2. e[1] \in Int /\ f[1] \in Int
        BY <1>3, Queues
      <3> QED
        BY <1>3, <3>1, <3>2
    <2> QED
      BY <2>1
  <1>7. \A e \in Lasting(id) : \E f \in Lasting(id)' : g[f] = e
    <2>1. ASSUME NEW e \in Lasting(id)
          PROVE  <<e[1] - 1, e[2]>> \in Lasting(id)' /\ g[<<e[1] - 1, e[2]>>] = e
      <3>1. e = <<e[1], e[2]>> /\ e[1] \in 1..Len(queue) /\ Lasts(e[1], e[2], id)
        BY <1>2, LastingIs
      <3>2. e[1] - 1 \in 0..Len(queue') /\ (e[1] - 1) + 1 = e[1]
        BY <3>1, MessageTaken, Queues
      <3>3. <<e[1] - 1, e[2]>> \in Lasting(id)'
        BY <1>1, <1>4, <3>1, <3>2
      <3> QED
        BY <3>1, <3>2, <3>3
    <2> QED
      BY <2>1
  <1> HIDE DEF g
  <1> QED
    BY <1>5, <1>6, <1>7, SameNumber

\* Only the end of the queue changes when a message is told.
LEMMA MessageTold ==
    ASSUME IInv, [Next]_vars, NEW m \in Message, queue' = Append(queue, m),
           handling' = handling
    PROVE  /\ \A id : Erased(id)' <=> Erased(id) \/ Erases(m, id)
           /\ \A id, k, i : Lasts(k, i, id)' <=>
                 \/ Lasts(k, i, id) /\ ~Erases(m, id)
                 \/ k = Len(queue) + 1 /\ i \in DOMAIN Brought(m) /\ Brought(m)[i].id = id
  <1> DEFINE n == Len(queue)
  <1>1. /\ Len(queue') = n + 1 /\ queue'[n + 1] = m
        /\ \A k \in 1..n : queue'[k] = queue[k]
    BY Queues, AppendProperties
  <1>2. /\ n \in Nat /\ DOMAIN queue = 1..n /\ DOMAIN queue' = 1..(n + 1)
        /\ Len(queue) = n
    BY <1>1, Queues
  <1> HIDE DEF n
  <1>3. \A k \in 0..n : Entered(k)' = Entered(k)
    BY <1>1, <1>2 DEF Entered
  <1>4. \A k : k \in DOMAIN queue' <=> k \in DOMAIN queue \/ k = n + 1
    BY <1>2
  <1>5. \A k \in DOMAIN queue : queue'[k] = queue[k]
    BY <1>1, <1>2
  <1>6. \A id : Erased(id)' <=> Erased(id) \/ Erases(m, id)
    BY <1>1, <1>4, <1>5 DEF Erased
  <1>7. ASSUME NEW id, NEW k, NEW i
        PROVE  Lasts(k, i, id)' <=>
                 \/ Lasts(k, i, id) /\ ~Erases(m, id)
                 \/ k = n + 1 /\ i \in DOMAIN Brought(m) /\ Brought(m)[i].id = id
    <2>1. CASE k = n + 1
      <3>1. k \in 0..Len(queue') /\ k \notin 0..Len(queue)
            /\ \A j \in DOMAIN queue' : ~(j > k)
        BY <1>1, <1>2, <2>1
      <3>2. Entered(k)' = Brought(m)
        BY <1>1, <1>2, <2>1 DEF Entered
      <3> QED
        BY <2>1, <3>1, <3>2 DEF Lasts
    <2>2. CASE k \in 0..n
      <3>1. k \in 0..Len(queue') /\ k \in 0..Len(queue) /\ n + 1 > k /\ k # n + 1
        BY <1>1, <1>2, <2>2
      <3>2. Entered(k)' = Entered(k)
        BY <1>3, <2>2
      <3>3. (\A j \in DOMAIN queue' : j > k => ~Erases(queue'[j], id))
            <=> (\A j \in DOMAIN queue : j > k => ~Erases(queue[j], id)) /\ ~Erases(m, id)
        BY <1>1, <1>4, <1>5, <3>1
      <3> QED
        BY <3>1, <3>2, <3>3 DEF Lasts
    <2>3. CASE k # n + 1 /\ k \notin 0..n
      <3>1. k \notin 0..Len(queue') /\ k \notin 0..Len(queue)
        BY <1>1, <1>2, <2>3
      <3> QED
        BY <2>3, <3>1 DEF Lasts
    <2> QED
      BY <2>1, <2>2, <2>3
  <1> QED
    BY <1>6, <1>7 DEF n

\* When the first application of a list is done, those behind it move up.
LEMMA EntryTaken ==
    ASSUME IInv, [Next]_vars, handling # <<>>, handling' = Tail(handling), queue' = queue
    PROVE  /\ \A id : Erased(id)' <=> Erased(id)
           /\ \A id, k, i : Lasts(k, i, id)' <=>
                 \/ k # 0 /\ Lasts(k, i, id)
                 \/ k = 0 /\ i \in 1..(Len(handling) - 1) /\ Lasts(0, i + 1, id)
  <1> DEFINE n == Len(handling)
  <1>1. /\ n \in Nat /\ n > 0 /\ DOMAIN handling = 1..n /\ DOMAIN handling' = 1..(n - 1)
        /\ \A i \in 1..(n - 1) : handling'[i] = handling[i + 1]
    BY Queues, HeadTailProperties, EmptySeq
  <1> HIDE DEF n
  <1>2. \A id : Erased(id)' <=> Erased(id)
    BY DEF Erased
  <1>3. /\ \A k : k # 0 => Entered(k)' = Entered(k)
        /\ Entered(0) = handling /\ Entered(0)' = handling'
    BY DEF Entered
  <1>4. \A i \in 1..(n - 1) : i + 1 \in 1..n
    BY <1>1
  <1>5. ASSUME NEW id, NEW k, NEW i
        PROVE  Lasts(k, i, id)' <=>
                 \/ k # 0 /\ Lasts(k, i, id)
                 \/ k = 0 /\ i \in 1..(n - 1) /\ Lasts(0, i + 1, id)
    BY <1>1, <1>3, <1>4 DEF Lasts
  <1> QED
    BY <1>2, <1>5 DEF n

LEMMA NoneIsSkipped ==
    ASSUME IInv, [Next]_vars, handling # <<>>, handling' = Tail(handling), queue' = queue,
           NEW id, ~Lasts(0, 1, id)
    PROVE  /\ Lasting(id) = {} => Lasting(id)' = {}
           /\ Single(Lasting(id)) => Single(Lasting(id)')
  <1> DEFINE g == [e \in Lasting(id)' |-> IF e[1] = 0 THEN <<0, e[2] + 1>> ELSE e]
  <1>1. /\ Len(handling) \in Nat /\ DOMAIN handling = 1..Len(handling)
        /\ \A i : Lasts(0, i, id) => i \in 1..Len(handling)
    BY Queues DEF Lasts, Entered
  <1>2. \A i : Lasts(0, i, id)' => i \in 1..(Len(handling) - 1)
    BY EntryTaken
  <1>3. g \in [Lasting(id)' -> Lasting(id)]
    BY EntryTaken, LastingIs, LastingAfter
  <1>4. ASSUME NEW e \in Lasting(id)', NEW f \in Lasting(id)', g[e] = g[f]
        PROVE  e = f
    <2>1. e = <<e[1], e[2]>> /\ f = <<f[1], f[2]>>
      BY LastingAfter
    <2>2. CASE e[1] = 0 /\ f[1] = 0
      <3>1. e[2] \in Int /\ f[2] \in Int
        BY <1>1, <1>2, <2>1, <2>2, LastingAfter
      <3>2. e[2] + 1 = f[2] + 1
        BY <1>4, <2>2
      <3> QED
        BY <2>1, <2>2, <3>1, <3>2
    <2>3. CASE ~(e[1] = 0 /\ f[1] = 0)
      BY <1>4, <2>1, <2>3
    <2> QED
      BY <2>2, <2>3
  <1>5. ASSUME NEW e \in Lasting(id)
        PROVE  \E f \in Lasting(id)' : g[f] = e
    <2>1. e = <<e[1], e[2]>> /\ Lasts(e[1], e[2], id)
      BY LastingIs
    <2>2. CASE e[1] # 0
      <3>1. e \in Lasting(id)'
        BY <2>1, <2>2, EntryTaken, LastingAfter
      <3> QED
        BY <2>2, <3>1
    <2>3. CASE e[1] = 0
      <3>1. e[2] \in 1..Len(handling) /\ e[2] # 1
        BY <1>1, <2>1, <2>3
      <3>2. e[2] - 1 \in 1..(Len(handling) - 1) /\ (e[2] - 1) + 1 = e[2]
        BY <1>1, <3>1
      <3>3. <<0, e[2] - 1>> \in Lasting(id)'
        BY <2>1, <2>3, <3>2, EntryTaken, LastingAfter
      <3>4. g[<<0, e[2] - 1>>] = <<0, (e[2] - 1) + 1>>
        BY <3>3
      <3> QED
        BY <2>1, <2>3, <3>2, <3>3, <3>4
    <2> QED
      BY <2>2, <2>3
  <1> HIDE DEF g
  <1>6. \A e, f \in Lasting(id)' : g[e] = g[f] => e = f
    BY <1>4
  <1>7. \A e \in Lasting(id) : \E f \in Lasting(id)' : g[f] = e
    BY <1>5
  <1> QED
    BY <1>3, <1>6, <1>7, SameNumber

-----------------------------------------------------------------------------
(* The handlers.                                                           *)

\* What each step does to the registry.
LEMMA ContentsRegistered ==
    ASSUME NEW app, AddAppContents(app)
    PROVE  /\ DOMAIN cats \subseteq DOMAIN cats' /\ DOMAIN cats' \subseteq DOMAIN cats \cup {app.id}
           /\ app.id \in Indexed => app.id \in DOMAIN cats'
           /\ DOMAIN cats \cap Readable \subseteq indexed
                => DOMAIN cats' \cap Readable \subseteq indexed'
  <1>1. CASE app.id \in Indexed
    <2>1. DOMAIN cats' = DOMAIN cats \cup {app.id}
      BY <1>1 DEF AddAppContents, AddCategory, AdjustOrCreateCategory, Registered
    <2>2. indexed' = IndexesCreated(app.id)
      BY <1>1 DEF AddAppContents
    <2> QED
      BY <2>1, <2>2 DEF IndexesCreated
  <1>2. CASE app.id \notin Indexed
    BY <1>2 DEF AddAppContents
  <1> QED
    BY <1>1, <1>2

LEMMA HandlerRegistry ==
    ASSUME IInv, [Next]_vars, Registry, Handler
    PROVE  Registry'
  <1>1. ASSUME NEW id \in Apps, AddToDatabase(id) \/ RemoveFromDatabase(id)
        PROVE  \A i \in Apps \ Visible : listed'[i] = 0
    BY <1>1, Queues DEF AddToDatabase, RemoveFromDatabase, Inserted, Registry
  <1>2. phase' = phase
    BY DEF Handler, BeginList, ListOne, Added, Removed
  <1>3. CASE BeginList
    BY <1>2, <1>3 DEF BeginList, Registry, NoItems
  <1>4. CASE ListOne
    <2>1. Head(handling).id \in Apps
      <3>1. Head(handling) \in AppEntry
        BY <1>4, Queues, HeadTailProperties DEF ListOne
      <3> QED
        BY <3>1 DEF AppEntry
    <2>2. CASE Head(handling).id \in DOMAIN cats
      BY <1>1, <1>2, <1>4, <2>1, <2>2 DEF ListOne, RefreshCategory, Registry
    <2>3. CASE Head(handling).id \notin DOMAIN cats
      BY <1>1, <1>2, <1>4, <2>1, <2>3, ContentsRegistered DEF ListOne, Registry
    <2> QED
      BY <2>2, <2>3
  <1>5. CASE Added
    <2>1. Head(queue).app.id \in Apps
      BY <1>5, Received DEF Added, AppEntry
    <2> QED
      BY <1>1, <1>2, <1>5, <2>1, ContentsRegistered DEF Added, Registry
  <1>6. CASE Removed
    <2>1. Head(queue).app.id \in Apps
      BY <1>6, Received DEF Removed, AppEntry
    <2>2. DOMAIN cats' = DOMAIN cats \ {Head(queue).app.id} /\ indexed' = indexed
      BY <1>6 DEF Removed, RemoveCategory
    <2>3. SamApps # Head(queue).app.id
      BY <2>1, BuiltinsAssumption
    <2>4. \A i \in Apps \ Visible : listed'[i] = 0
      BY <1>1, <1>6, <2>1 DEF Removed
    <2> QED
      BY <1>2, <2>2, <2>3, <2>4 DEF Registry
  <1> QED
    BY <1>3, <1>4, <1>5, <1>6 DEF Handler

\* An application keeps its standing when as many of its entries stay on their way.
LEMMA OnItsWayStill ==
    ASSUME NEW id, OnItsWay(id),
           Lasting(id) = {} => Lasting(id)' = {},
           Single(Lasting(id)) => Single(Lasting(id)'),
           id \in installed <=> id \in installed',
           Free(id) => Free(id)',
           ~Erased(id) /\ Standing(id) => ~Erased(id)' /\ Standing(id)'
    PROVE  OnItsWay(id)'
  BY DEF OnItsWay, Single

\* An entry that lasts is the only one.
LEMMA OnlyEntry ==
    ASSUME NEW id, OnItsWay(id), NEW k, NEW i, Lasts(k, i, id)
    PROVE  /\ id \in installed /\ Free(id)
           /\ \A l, j : Lasts(l, j, id) => l = k /\ j = i
  <1>1. <<k, i>> \in Lasting(id)
    BY LastingIs
  <1>2. id \in installed /\ Free(id) /\ Single(Lasting(id))
    BY <1>1 DEF OnItsWay
  <1>3. \A l, j : <<l, j>> \in Lasting(id) => <<l, j>> = <<k, i>>
    BY <1>1, <1>2 DEF Single
  <1> QED
    BY <1>2, <1>3, LastingIs

LEMMA BeginListInStep ==
    ASSUME IInv, [Next]_vars, BeginList, NEW id \in Apps, OnItsWay(id)
    PROVE  OnItsWay(id)'
  <1>1. /\ queue # <<>> /\ queue' = Tail(queue) /\ handling = <<>>
        /\ Head(queue).kind = "list" /\ Head(queue) = queue[1]
        /\ handling' = Head(queue).apps /\ listed' = NoItems /\ installed' = installed
    BY Queues DEF BeginList, Receives, Idle, envVars
  <1>2. /\ Entered(1) = handling' /\ Entered(0)' = handling'
        /\ Erases(queue[1], id) /\ Erased(id)
    BY <1>1, Queues, MessageTaken DEF Entered, Brought, Erases, Erased
  <1>3. \A i : Lasts(0, i, id)' <=> Lasts(1, i, id)
    <2>1. (\A j \in DOMAIN queue : j > 1 => ~Erases(queue[j], id)) <=> ~Erased(id)'
      <3>1. \A j \in 1..Len(queue) : j > 1 <=> j - 1 \in 1..Len(queue')
        BY <1>1, Queues, MessageTaken
      <3>2. \A k \in 1..Len(queue') : k + 1 \in 1..Len(queue) /\ k + 1 > 1
        BY <1>1, Queues, MessageTaken
      <3>3. ASSUME NEW j \in 1..Len(queue), j > 1, Erases(queue[j], id)
            PROVE  \E k \in 1..Len(queue') : Erases(queue'[k], id)
        <4>1. j - 1 \in 1..Len(queue') /\ (j - 1) + 1 = j
          BY <3>1, <3>3
        <4> QED
          BY <1>1, <3>3, <4>1, MessageTaken
      <3>4. ASSUME NEW k \in 1..Len(queue'), Erases(queue'[k], id)
            PROVE  \E j \in 1..Len(queue) : j > 1 /\ Erases(queue[j], id)
        BY <1>1, <3>2, <3>4, MessageTaken
      <3> QED
        BY <3>3, <3>4, Queues DEF Erased
    <2>2. 1 \in 0..Len(queue) /\ 0 \in 0..Len(queue') /\ \A j \in DOMAIN queue' : j > 0
      BY <1>1, Queues, MessageTaken
    <2> QED
      BY <1>2, <2>1, <2>2 DEF Lasts, Erased
  <1>4. /\ Lasting(id) = {} => Lasting(id)' = {}
        /\ Single(Lasting(id)) => Single(Lasting(id)')
    BY <1>1, <1>3, NoneGoesMissing
  <1>5. Free(id)'
    BY <1>1 DEF Free, NoItems
  <1> QED
    BY <1>1, <1>2, <1>4, <1>5, OnItsWayStill

\* An application the message at the head says nothing of, or says in vain.
LEMMA NothingEntered ==
    ASSUME IInv, [Next]_vars, queue # <<>>, queue' = Tail(queue), handling = <<>>,
           handling' = handling, NEW id, \A i : ~Lasts(1, i, id)
    PROVE  /\ Lasting(id) = {} => Lasting(id)' = {}
           /\ Single(Lasting(id)) => Single(Lasting(id)')
  <1>1. \A i : ~Lasts(0, i, id)'
    BY DEF Lasts, Entered
  <1> QED
    BY <1>1, NoneGoesMissing

LEMMA RemovedInStep ==
    ASSUME IInv, [Next]_vars, Removed, NEW id \in Apps, OnItsWay(id)
    PROVE  OnItsWay(id)'
  <1> DEFINE gone == Head(queue).app.id
  <1>1. /\ queue # <<>> /\ queue' = Tail(queue) /\ handling = <<>> /\ handling' = handling
        /\ Head(queue).kind = "removed" /\ Head(queue) = queue[1]
        /\ installed' = installed
    BY Queues DEF Removed, Receives, Idle, envVars
  <1>2. listed' = [listed EXCEPT ![gone] = 0] /\ DOMAIN cats' = DOMAIN cats \ {gone}
    BY DEF Removed, RemoveFromDatabase, RemoveCategory
  <1>3. \A i : ~Lasts(1, i, id)
    BY <1>1 DEF Lasts, Entered, Brought
  <1>4. /\ Lasting(id) = {} => Lasting(id)' = {}
        /\ Single(Lasting(id)) => Single(Lasting(id)')
    BY <1>1, <1>3, NothingEntered
  <1>5. Erases(queue[1], id) <=> id = gone
    BY <1>1 DEF Erases
  <1>6. Erased(id) <=> id = gone \/ Erased(id)'
    BY <1>1, <1>5, MessageTaken
  <1> HIDE DEF gone
  <1>7. id = gone => Free(id)'
    BY <1>2, Queues DEF Free
  <1>8. id # gone => (Free(id) => Free(id)') /\ (Standing(id) => Standing(id)')
    BY <1>2, <1>6, Queues DEF Free, Standing
  <1> QED
    BY <1>1, <1>4, <1>6, <1>7, <1>8, OnItsWayStill

LEMMA AddedInStep ==
    ASSUME IInv, [Next]_vars, Added, NEW id \in Apps, OnItsWay(id)
    PROVE  OnItsWay(id)'
  <1> DEFINE app == Head(queue).app
  <1>1. /\ queue # <<>> /\ queue' = Tail(queue) /\ handling = <<>> /\ handling' = handling
        /\ Head(queue).kind = "added" /\ Head(queue) = queue[1]
        /\ installed' = installed
    BY Queues DEF Added, Receives, Idle, envVars
  <1>2. /\ listed' = IF app.id \in Visible THEN Inserted(app.id) ELSE listed
        /\ AddAppContents(app)
    BY DEF Added, AddToDatabase
  <1>3. Entered(1) = <<app>>
    BY <1>1 DEF Entered, Brought
  <1>4. Erased(id) <=> Erased(id)'
    <2>1. ~Erases(queue[1], id)
      BY <1>1 DEF Erases
    <2> QED
      BY <1>1, <2>1, MessageTaken
  <1> HIDE DEF app
  <1>5. /\ DOMAIN cats \subseteq DOMAIN cats'
        /\ app.id \in Indexed => app.id \in DOMAIN cats'
    BY <1>2, ContentsRegistered
  <1>6. /\ id # app.id \/ id \notin Visible => listed'[id] = listed[id]
        /\ id = app.id /\ id \in Visible => listed'[id] = listed[id] + 1
    BY <1>2, Queues DEF Inserted
  <1>7. CASE \A i : ~Lasts(1, i, id)
    <2>1. /\ Lasting(id) = {} => Lasting(id)' = {}
          /\ Single(Lasting(id)) => Single(Lasting(id)')
      BY <1>1, <1>7, NothingEntered
    <2>2. id # app.id \/ Erased(id)
      <3>1. ASSUME id = app.id, ~Erased(id) PROVE Lasts(1, 1, id)
        <4>1. 1 \in 0..Len(queue) /\ 1 \in DOMAIN <<app>> /\ <<app>>[1] = app
          BY <1>1, Queues, MessageTaken
        <4> QED
          BY <1>3, <3>1, <4>1 DEF Lasts, Erased
      <3> QED
        BY <1>7, <3>1
    <2>3. Free(id) => Free(id)'
      BY <1>4, <1>6, <2>2 DEF Free
    <2>4. ~Erased(id) /\ Standing(id) => ~Erased(id)' /\ Standing(id)'
      BY <1>4, <1>5, <1>6, <2>2 DEF Standing
    <2> QED
      BY <1>1, <2>1, <2>3, <2>4, OnItsWayStill
  <1>8. ASSUME NEW i, Lasts(1, i, id)
        PROVE  OnItsWay(id)'
    <2>1. id = app.id
      <3>1. i \in DOMAIN <<app>> /\ <<app>>[i].id = id
        BY <1>3, <1>8 DEF Lasts
      <3>2. i = 1
        BY <3>1
      <3> QED
        BY <3>1, <3>2
    <2>2. /\ id \in installed /\ Free(id)
          /\ \A l, j : Lasts(l, j, id) => l = 1 /\ j = i
      BY <1>8, OnlyEntry
    <2>3. CASE Erased(id)'
      <3>1. \E k \in 1..Len(queue') : Erases(queue'[k], id)
        BY <2>3, Queues DEF Erased
      <3>2. PICK k \in 1..Len(queue') : Erases(queue[k + 1], id)
        BY <1>1, <3>1, MessageTaken
      <3>3. k + 1 \in DOMAIN queue /\ k + 1 > 1
        BY <1>1, Queues, MessageTaken
      <3> QED
        BY <1>8, <3>2, <3>3 DEF Lasts
    <2>4. CASE ~Erased(id)'
      <3>1. Lasting(id)' = {}
        <4>1. \A k \in 1..Len(queue') : \A j : ~Lasts(k, j, id)'
          <5>1. \A k \in 1..Len(queue') : k + 1 # 1
            BY Queues
          <5> QED
            BY <1>1, <2>2, <5>1, MessageTaken
        <4>2. \A j : ~Lasts(0, j, id)'
          BY <1>1 DEF Lasts, Entered
        <4>3. \A k \in 0..Len(queue') : k = 0 \/ k \in 1..Len(queue')
          BY Queues
        <4>4. \A e \in Lasting(id)' : FALSE
          BY <4>1, <4>2, <4>3, LastingAfter
        <4> QED
          BY <4>4
      <3>2. listed[id] = 0
        BY <1>4, <2>2, <2>4 DEF Free
      <3>3. Standing(id)'
        BY <1>5, <1>6, <2>1, <3>2 DEF Standing
      <3> QED
        BY <1>1, <2>2, <2>4, <3>1, <3>3 DEF OnItsWay
    <2> QED
      BY <2>3, <2>4
  <1> QED
    BY <1>7, <1>8

LEMMA ListOneInStep ==
    ASSUME IInv, [Next]_vars, ListOne, NEW id \in Apps, OnItsWay(id)
    PROVE  OnItsWay(id)'
  <1> DEFINE app == Head(handling)
  <1>1. /\ handling # <<>> /\ handling' = Tail(handling) /\ queue' = queue
        /\ app = handling[1] /\ 1 \in DOMAIN handling
        /\ installed' = installed
    BY Queues, EmptySeq DEF ListOne, busVars, envVars
  <1>2. /\ listed' = IF app.id \in Visible THEN Inserted(app.id) ELSE listed
        /\ IF app.id \in DOMAIN cats THEN RefreshCategory(app) ELSE AddAppContents(app)
    BY DEF ListOne, AddToDatabase
  <1> HIDE DEF app
  <1>3. /\ DOMAIN cats \subseteq DOMAIN cats'
        /\ app.id \in Indexed => app.id \in DOMAIN cats'
    BY <1>2, ContentsRegistered DEF RefreshCategory
  <1>4. /\ id # app.id \/ id \notin Visible => listed'[id] = listed[id]
        /\ id = app.id /\ id \in Visible => listed'[id] = listed[id] + 1
    BY <1>2, Queues DEF Inserted
  <1>5. Erased(id)' <=> Erased(id)
    BY <1>1, EntryTaken
  <1>6. Lasts(0, 1, id) <=> id = app.id /\ ~Erased(id)
    <2>1. 0 \in 0..Len(queue) /\ \A j \in DOMAIN queue : j > 0
      BY Queues
    <2> QED
      BY <1>1, <2>1 DEF Lasts, Entered, Erased
  <1>7. CASE ~Lasts(0, 1, id)
    <2>1. /\ Lasting(id) = {} => Lasting(id)' = {}
          /\ Single(Lasting(id)) => Single(Lasting(id)')
      BY <1>1, <1>7, NoneIsSkipped
    <2>2. Free(id) => Free(id)'
      BY <1>4, <1>5, <1>6, <1>7 DEF Free
    <2>3. ~Erased(id) /\ Standing(id) => ~Erased(id)' /\ Standing(id)'
      BY <1>3, <1>4, <1>5, <1>6, <1>7 DEF Standing
    <2> QED
      BY <1>1, <2>1, <2>2, <2>3, OnItsWayStill
  <1>8. CASE Lasts(0, 1, id)
    <2>1. /\ id \in installed /\ Free(id)
          /\ \A l, j : Lasts(l, j, id) => l = 0 /\ j = 1
      BY <1>8, OnlyEntry
    <2>2. \A k, i : ~Lasts(k, i, id)'
      <3>1. \A i \in 1..(Len(handling) - 1) : i + 1 # 1
        BY Queues
      <3> QED
        BY <1>1, <2>1, <3>1, EntryTaken
    <2>3. Lasting(id)' = {}
      <3>1. \A e \in Lasting(id)' : FALSE
        BY <2>2, LastingAfter
      <3> QED
        BY <3>1
    <2>4. ~Erased(id)' /\ Standing(id)'
      BY <1>3, <1>4, <1>5, <1>6, <1>8, <2>1 DEF Free, Standing
    <2> QED
      BY <1>1, <2>1, <2>3, <2>4 DEF OnItsWay
  <1> QED
    BY <1>7, <1>8

-----------------------------------------------------------------------------
(* The other steps.                                                        *)

\* An application is where it was when nothing is taken, told or forgotten.
LEMMA UndisturbedInStep ==
    ASSUME IInv, InStep, UNCHANGED <<listed, handling, queue, installed>>,
           DOMAIN cats \subseteq DOMAIN cats', sub' = "live" => sub = "live"
    PROVE  InStep'
  <1>1. ASSUME NEW id \in Apps, OnItsWay(id)
        PROVE  OnItsWay(id)'
    <2>1. Lasting(id)' = Lasting(id)
      BY DEF Lasting, Entered
    <2>2. Erased(id)' <=> Erased(id)
      BY DEF Erased
    <2>3. (Free(id) => Free(id)') /\ (Standing(id) => Standing(id)')
      BY <2>2 DEF Free, Standing
    <2> QED
      BY <1>1, <2>1, <2>2, <2>3, OnItsWayStill
  <1> QED
    BY <1>1 DEF InStep

\* An installation or a removal is told to a live subscription.
LEMMA ChangeInStep ==
    ASSUME IInv, [Next]_vars, InStep, sub = "live", NEW app \in Apps,
           Install(app) \/ Uninstall(app)
    PROVE  InStep'
  <1> DEFINE kind == IF app \in installed THEN "removed" ELSE "added"
             m    == [kind |-> kind, app |-> Entry(app)]
  <1>1. /\ queue' = Append(queue, m) /\ UNCHANGED <<handling, listed, cats>>
        /\ \A id \in Apps \ {app} : id \in installed' <=> id \in installed
        /\ app \in installed' <=> app \notin installed
    BY DEF Install, Uninstall, Tell, dbVars, selfVars
  <1>2. m \in Message /\ m.app.id = app /\ m.kind = kind
        /\ kind \in {"added", "removed"}
    BY EntryTyped DEF Message, Entry
  <1>3. /\ kind = "added" => Brought(m) = <<Entry(app)>>
        /\ kind = "removed" => Brought(m) = <<>>
        /\ \A id : Erases(m, id) <=> kind = "removed" /\ id = app
    BY <1>2 DEF Brought, Erases
  <1>4. app \in installed <=> kind = "removed"
    OBVIOUS
  <1> HIDE DEF kind, m
  <1>5. /\ \A id : Erased(id)' <=> Erased(id) \/ Erases(m, id)
        /\ \A id, k, i : Lasts(k, i, id)' <=>
              \/ Lasts(k, i, id) /\ ~Erases(m, id)
              \/ k = Len(queue) + 1 /\ i \in DOMAIN Brought(m) /\ Brought(m)[i].id = id
    BY <1>1, <1>2, MessageTold
  <1>6. ASSUME NEW i \in DOMAIN Brought(m)
        PROVE  kind = "added" /\ i = 1 /\ Brought(m)[i].id = app
    <2>1. kind = "added"
      BY <1>2, <1>3
    <2>2. Brought(m) = <<Entry(app)>> /\ Entry(app).id = app
      BY <1>3, <2>1 DEF Entry
    <2> QED
      BY <2>1, <2>2
  <1>7. ASSUME NEW id \in Apps, OnItsWay(id), id # app
        PROVE  OnItsWay(id)'
    <2>1. \A k, i : Lasts(k, i, id)' <=> Lasts(k, i, id)
      BY <1>3, <1>5, <1>6, <1>7
    <2>2. Lasting(id)' = Lasting(id)
      <3>1. ASSUME NEW e \in Lasting(id)' PROVE e \in Lasting(id)
        BY <2>1, LastingIs, LastingAfter
      <3>2. ASSUME NEW e \in Lasting(id) PROVE e \in Lasting(id)'
        BY <2>1, LastingIs, LastingAfter
      <3> QED
        BY <3>1, <3>2
    <2>3. Erased(id)' <=> Erased(id)
      BY <1>3, <1>5, <1>7
    <2>4. (Free(id) => Free(id)') /\ (Standing(id) => Standing(id)')
      BY <1>1, <2>3 DEF Free, Standing
    <2> QED
      BY <1>1, <1>7, <2>2, <2>3, <2>4, OnItsWayStill
  <1>8. ASSUME OnItsWay(app)
        PROVE  OnItsWay(app)'
    <2>1. CASE kind = "added"
      <3>1. app \notin installed /\ Lasting(app) = {} /\ Free(app)
        BY <1>4, <1>8, <2>1 DEF OnItsWay
      <3>2. \A k, i : ~Lasts(k, i, app)
        BY <3>1, LastingIs
      <3>3. 1 \in DOMAIN Brought(m) /\ Brought(m)[1].id = app
        <4>1. Brought(m) = <<Entry(app)>> /\ Entry(app).id = app
          BY <1>3, <2>1 DEF Entry
        <4> QED
          BY <4>1
      <3>4. \A k, i : Lasts(k, i, app)' <=> k = Len(queue) + 1 /\ i = 1
        BY <1>5, <1>6, <3>2, <3>3
      <3> DEFINE last == <<Len(queue) + 1, 1>>
      <3>5. last \in Lasting(app)' /\ \A e \in Lasting(app)' : e = last
        BY <3>4, LastingAfter
      <3>6. Single(Lasting(app)')
        <4> HIDE DEF last
        <4>1. Lasting(app)' = {last}
          BY <3>5
        <4> QED
          BY <3>5, <4>1 DEF Single
      <3>7. Free(app)'
        BY <1>1, <1>5, <3>1 DEF Free
      <3> QED
        BY <1>1, <3>1, <3>6, <3>7 DEF OnItsWay, Single
    <2>2. CASE kind = "removed"
      <3>1. Erased(app)' /\ \A k, i : ~Lasts(k, i, app)'
        BY <1>3, <1>5, <1>6, <2>2
      <3>2. Lasting(app)' = {}
        <4>1. \A e \in Lasting(app)' : FALSE
          BY <3>1, LastingAfter
        <4> QED
          BY <4>1
      <3>3. app \notin installed' /\ Free(app)'
        BY <1>1, <1>4, <2>2, <3>1 DEF Free
      <3> QED
        BY <3>2, <3>3 DEF OnItsWay
    <2> QED
      BY <1>2, <2>1, <2>2
  <1> QED
    BY <1>7, <1>8 DEF InStep

\* The list a subscription is answered with has every installed application once.
LEMMA ListHasEach ==
    ASSUME IInv, NEW ids \in SetToSeqs(installed)
    PROVE  /\ DOMAIN Entries(ids) = DOMAIN ids
           /\ \A k \in DOMAIN ids : Entries(ids)[k].id = ids[k]
           /\ \A k \in DOMAIN ids : ids[k] \in installed
           /\ \A j, k \in DOMAIN ids : ids[j] = ids[k] => j = k
           /\ \A id \in installed : \E k \in DOMAIN ids : ids[k] = id
  <1>1. IsFiniteSet(installed)
    BY FiniteAssumption, FS_Subset DEF IInv, TypeOK
  <1>2. Cardinality(installed) \in Nat
    BY <1>1, FS_CardinalityType
  <1> DEFINE D == 1..Cardinality(installed)
  <1>3. ids \in [D -> installed] /\ \A j, k \in D : j # k => ids[j] # ids[k]
    BY DEF SetToSeqs
  <1>4. ids \in Injection(D, installed)
    BY <1>3 DEF Injection, IsInjective
  <1>5. Cardinality(D) = Cardinality(installed)
    <2>1. Cardinality(1..Cardinality(installed))
            = IF 1 > Cardinality(installed) THEN 0 ELSE Cardinality(installed) - 1 + 1
      BY <1>2, FS_Interval
    <2> HIDE DEF D
    <2>2. D = 1..Cardinality(installed)
      BY DEF D
    <2> QED
      BY <1>2, <2>1, <2>2
  <1> HIDE DEF D
  <1>6. ids \in Surjection(D, installed)
    BY <1>1, <1>4, <1>5, FS_Injection
  <1>7. \A id \in installed : \E k \in D : ids[k] = id
    BY <1>6 DEF Surjection
  <1>8. /\ DOMAIN Entries(ids) = DOMAIN ids
        /\ \A k \in DOMAIN ids : Entries(ids)[k].id = ids[k]
    BY DEF Entries, Entry
  <1> QED
    BY <1>3, <1>7, <1>8

LEMMA ServeListInStep ==
    ASSUME IInv, [Next]_vars, Delivery, ServeList
    PROVE  InStep'
  <1>1. queue = <<>> /\ UNCHANGED <<handling, listed, installed>>
    BY DEF ServeList, Delivery, dbVars, selfVars, envVars
  <1>2. PICK ids \in SetToSeqs(installed) :
           queue' = Append(queue, [kind |-> "list", apps |-> Entries(ids)])
    BY DEF ServeList
  <1> DEFINE m == [kind |-> "list", apps |-> Entries(ids)]
  <1>3. m \in Message /\ Brought(m) = Entries(ids) /\ \A id : Erases(m, id)
    BY ListTyped DEF Message, Brought, Erases
  <1>4. queue' = Append(queue, m)
    BY <1>2
  <1> HIDE DEF m
  <1>5. /\ \A id : Erased(id)' <=> Erased(id) \/ Erases(m, id)
        /\ \A id, k, i : Lasts(k, i, id)' <=>
              \/ Lasts(k, i, id) /\ ~Erases(m, id)
              \/ k = Len(queue) + 1 /\ i \in DOMAIN Brought(m) /\ Brought(m)[i].id = id
    BY <1>1, <1>3, <1>4, MessageTold
  <1>6. ASSUME NEW id \in Apps
        PROVE  OnItsWay(id)'
    <2>1. Free(id)'
      BY <1>3, <1>5 DEF Free
    <2>2. \A k, i : Lasts(k, i, id)' <=>
             k = Len(queue) + 1 /\ i \in DOMAIN ids /\ ids[i] = id
      BY <1>3, <1>5, ListHasEach
    <2>3. CASE id \in installed
      <3>1. PICK i \in DOMAIN ids : ids[i] = id
        BY <2>3, ListHasEach
      <3> DEFINE place == <<Len(queue) + 1, i>>
      <3>2. place \in Lasting(id)' /\ \A e \in Lasting(id)' : e = place
        BY <2>2, <3>1, ListHasEach, LastingAfter
      <3> HIDE DEF place
      <3>3. Lasting(id)' = {place}
        BY <3>2
      <3>4. Single(Lasting(id)')
        BY <3>2, <3>3 DEF Single
      <3> QED
        BY <1>1, <2>1, <2>3, <3>4 DEF OnItsWay, Single
    <2>4. CASE id \notin installed
      <3>1. \A e \in Lasting(id)' : FALSE
        BY <2>2, <2>4, ListHasEach, LastingAfter
      <3>2. Lasting(id)' = {}
        BY <3>1
      <3> QED
        BY <1>1, <2>1, <2>4, <3>2 DEF OnItsWay
    <2> QED
      BY <2>3, <2>4
  <1> QED
    BY <1>6 DEF InStep

-----------------------------------------------------------------------------
(* The invariant.                                                          *)

LEMMA InitItems == Init => ItemsInv
  BY DEF Init, ItemsInv, Delivery, Registry, InStep, EmptyTable

LEMMA DeliveryStep ==
    ASSUME IInv, [Next]_vars, Delivery
    PROVE  Delivery'
  <1>1. CASE UNCHANGED vars
    BY <1>1 DEF vars, selfVars, busVars, Delivery
  <1>2. CASE Step
    BY <1>2 DEF Step, Delivery, Start, LoadPlugins, Handler, BeginList, ListOne, Added,
                Removed, StatusChanged, ReloadAppsByLocaleChange, LocaleChanged, ServeList,
                Receives, Idle, Subscribe, Cancel, busVars, selfVars
  <1>3. CASE Environment
    BY <1>3 DEF Environment, Delivery, Crash, ServiceFlips, Install, Uninstall, LocaleSet,
                Tell, selfVars
  <1>4. CASE Client
    BY <1>4 DEF Client, UpdateCategory, Delivery, busVars
  <1> QED
    BY <1>1, <1>2, <1>3, <1>4 DEF Next

LEMMA RegistryStep ==
    ASSUME IInv, [Next]_vars, Registry
    PROVE  Registry'
  <1>1. ASSUME UNCHANGED <<phase, cats, indexed, listed>>
        PROVE  Registry'
    BY <1>1 DEF Registry
  <1>2. SamApps \notin Readable /\ Audio \notin Readable
    BY AppsAssumption, BuiltinsAssumption
  <1>3. CASE Start
    <2>1. DOMAIN cats' = DOMAIN cats \cup {SamApps}
      BY <1>3 DEF Start, SearchSetAdded, AdjustOrCreateCategory, Registered
    <2> QED
      BY <1>2, <1>3, <2>1 DEF Start, ApplicationsMade, NoItems, Registry
  <1>4. CASE LoadPlugins
    <2>1. DOMAIN cats' = DOMAIN cats \cup {Audio}
      BY <1>4 DEF LoadPlugins, AddCategory, AdjustOrCreateCategory, Registered
    <2> QED
      BY <1>2, <1>4, <2>1 DEF LoadPlugins, Registry
  <1>5. CASE Crash
    BY <1>5 DEF Crash, Registry, EmptyTable, dbVars
  <1>6. CASE Client
    <2>1. UNCHANGED <<phase, indexed, listed>> /\ DOMAIN cats' = DOMAIN cats
      BY <1>6 DEF Client, UpdateCategory, Applied, Registers
    <2> QED
      BY <2>1 DEF Registry
  <1> QED
    BY <1>1, <1>3, <1>4, <1>5, <1>6, HandlerRegistry
       DEF Next, Step, Environment, StatusChanged, ReloadAppsByLocaleChange, LocaleChanged,
           ServeList, ServiceFlips, Install, Uninstall, LocaleSet, dbVars, selfVars, busVars,
           vars

LEMMA InStepStep ==
    ASSUME IInv, [Next]_vars, ItemsInv
    PROVE  InStep'
  <1>1. CASE Handler
    <2>1. sub' = sub
      BY <1>1 DEF Handler, BeginList, ListOne, Added, Removed, busVars
    <2> QED
      BY <1>1, <2>1, BeginListInStep, ListOneInStep, AddedInStep, RemovedInStep
         DEF Handler, ItemsInv, InStep
  <1>2. ASSUME sub' # "live"
        PROVE  InStep'
    BY <1>2 DEF InStep
  <1>3. CASE Start
    BY <1>2, <1>3 DEF Start, ItemsInv, Delivery
  <1>4. CASE LoadPlugins
    BY <1>2, <1>4 DEF LoadPlugins, ItemsInv, Delivery, busVars
  <1>5. CASE StatusChanged \/ ReloadAppsByLocaleChange
    BY <1>2, <1>5, UndisturbedInStep
       DEF StatusChanged, ReloadAppsByLocaleChange, Subscribe, Cancel, ItemsInv, dbVars, envVars
  <1>6. CASE LocaleChanged
    BY <1>6, UndisturbedInStep DEF LocaleChanged, ItemsInv, dbVars, envVars
  <1>7. CASE ServeList
    BY <1>7, ServeListInStep DEF ItemsInv
  <1>8. CASE Crash
    BY <1>2, <1>8 DEF Crash
  <1>9. CASE ServiceFlips
    <2>1. sub' = "live" => sub = "live"
      BY <1>9 DEF ServiceFlips
    <2> QED
      BY <1>9, <2>1, UndisturbedInStep DEF ServiceFlips, ItemsInv, dbVars, selfVars
  <1>10. ASSUME NEW app \in Apps, Install(app) \/ Uninstall(app)
         PROVE  InStep'
    BY <1>2, <1>10, ChangeInStep DEF Install, Uninstall, ItemsInv
  <1>11. ASSUME NEW new, LocaleSet(new)
         PROVE  InStep'
    BY <1>11, UndisturbedInStep DEF LocaleSet, ItemsInv, dbVars, selfVars
  <1>12. CASE Client
    <2>1. UNCHANGED <<listed, handling, queue, installed, sub>> /\ DOMAIN cats' = DOMAIN cats
      BY <1>12 DEF Client, UpdateCategory, Applied, Registers, busVars, envVars
    <2> QED
      BY <2>1, UndisturbedInStep DEF ItemsInv
  <1>13. CASE UNCHANGED vars
    BY <1>13, UndisturbedInStep DEF vars, dbVars, selfVars, busVars, envVars, ItemsInv
  <1> QED
    BY <1>1, <1>3, <1>4, <1>5, <1>6, <1>7, <1>8, <1>9, <1>10, <1>11, <1>12, <1>13
       DEF Next, Step, Environment

LEMMA ItemsAlways == Spec => []ItemsInv
  <1>1. IInv /\ ItemsInv /\ [Next]_vars => ItemsInv'
    BY DeliveryStep, RegistryStep, InStepStep DEF ItemsInv
  <1> QED
    BY <1>1, InitItems, AlwaysSound, PTL DEF Spec

-----------------------------------------------------------------------------

\* For any applications and any number of messages under way, sam.apps ends up with
\* every visible installed application exactly once when they are handled
\* (SAM.cpp 77-119, 149-158).
THEOREM ItemsInStep == Spec => []ItemsFollowManager
  <1>1. IInv /\ ItemsInv => ItemsFollowManager
    <2> SUFFICES ASSUME IInv, ItemsInv, sub = "live"
                 PROVE  AfterAll = [id \in Apps |->
                                      IF id \in installed \cap Visible THEN 1 ELSE 0]
      BY DEF ItemsFollowManager
    <2>1. ASSUME NEW id \in Apps
          PROVE  (IF Erased(id) THEN 0 ELSE listed[id])
                 + (IF id \in Visible THEN Cardinality(Lasting(id)) ELSE 0)
                 = IF id \in installed \cap Visible THEN 1 ELSE 0
      <3>1. OnItsWay(id) /\ (id \notin Visible => listed[id] = 0)
        BY DEF ItemsInv, InStep, Registry
      <3>2. /\ Lasting(id) = {} => Cardinality(Lasting(id)) = 0
            /\ Single(Lasting(id)) => Cardinality(Lasting(id)) = 1
        BY FS_EmptySet, FS_Singleton DEF Single
      <3> QED
        BY <3>1, <3>2 DEF OnItsWay, Standing, Free
    <2> QED
      BY <2>1 DEF AfterAll
  <1> QED
    BY <1>1, AlwaysSound, ItemsAlways, PTL

\* For any applications, one that is installed and has an index is registered with its
\* contents, and no message removes it, or an entry that no later message undoes is in
\* hand or on its way (SAM.cpp 90-100, 112-118, AppContents.cpp 25-33).
THEOREM ContentsInStep == Spec => []InstalledAreComing
  <1>1. IInv /\ ItemsInv => InstalledAreComing
    <2> SUFFICES ASSUME IInv, ItemsInv, sub = "live", NEW id \in installed \cap Indexed,
                        Lasting(id) = {}
                 PROVE  Stays(id)
      BY DEF InstalledAreComing
    <2>1. OnItsWay(id)
      BY AppsAssumption DEF ItemsInv, InStep
    <2>2. ~Erased(id) /\ id \in DOMAIN cats
      BY <2>1 DEF OnItsWay, Single, Standing
    <2>3. id \in Readable => id \in indexed
      BY <2>2 DEF ItemsInv, Registry
    <2> QED
      BY <2>2, <2>3 DEF Stays
  <1> QED
    BY <1>1, AlwaysSound, ItemsAlways, PTL

\* For any applications, once everything is handled a search shows every installed one
\* that can be indexed and is not switched off, and sam.apps likewise (SAM.cpp 77-147,
\* SearchManager.cpp 114-162, UnifiedSearch.cpp 84-112).
THEOREM InstalledFound == Spec => []InstalledAreFound
  <1>1. IInv /\ ItemsInv /\ FlagsInv => InstalledAreFound
    <2> SUFFICES ASSUME IInv, ItemsInv, FlagsInv, Handled
                 PROVE  /\ installed \cap Readable \cap EnabledIds(rows) \subseteq Results
                        /\ installed \cap Visible # {} /\ SamApps \in EnabledIds(rows)
                             => SamApps \in Results
      BY DEF InstalledAreFound
    <2>1. ASSUME NEW id \in installed
          PROVE  Standing(id)
      <3>1. OnItsWay(id)
        BY DEF ItemsInv, InStep, Handled, IInv, TypeOK
      <3>2. \A k \in 0..Len(queue) : Entered(k) = <<>>
        BY DEF Handled, Entered
      <3>3. \A k, i : ~Lasts(k, i, id)
        BY <3>2 DEF Lasts
      <3>4. Lasting(id) = {}
        BY <3>3, LastingIs
      <3> QED
        BY <3>1, <3>4 DEF OnItsWay, Single
    <2>2. \A id \in DOMAIN cats \cap DOMAIN rows : cats[id].enabled = rows[id].enabled
      BY DEF FlagsInv, EnabledAgrees
    <2>3. ASSUME NEW id \in installed \cap Readable \cap EnabledIds(rows)
          PROVE  id \in Results
      <3>1. id \in DOMAIN cats /\ id \in indexed
        BY <2>1, AppsAssumption DEF Standing, ItemsInv, Registry
      <3>2. cats[id].enabled /\ id # SamApps
        BY <2>2, <3>1, AppsAssumption, BuiltinsAssumption DEF EnabledIds
      <3> QED
        BY <3>1, <3>2 DEF Results, Intents, HasItems
    <2>4. ASSUME NEW app \in installed \cap Visible, SamApps \in EnabledIds(rows)
          PROVE  SamApps \in Results
      <3>1. listed[app] > 0 /\ app \in Apps
        BY <2>1, AppsAssumption DEF Standing
      <3>2. phase # "down"
        BY DEF Handled, ItemsInv, Delivery
      <3>3. SamApps \in DOMAIN cats
        BY <3>2 DEF ItemsInv, Registry
      <3> QED
        BY <2>2, <2>4, <3>1, <3>3 DEF Results, Intents, HasItems, EnabledIds
    <2> QED
      BY <2>3, <2>4
  <1> QED
    BY <1>1, AlwaysSound, ItemsAlways, FlagsAlways, PTL
=============================================================================
