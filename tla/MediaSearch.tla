----------------------------- MODULE MediaSearch -----------------------------
(***************************************************************************)
(* Who answers a search request, and when.                                 *)
(*                                                                         *)
(* SearchManager::search asks the data source of every search set.  The    *)
(* database answers at once; the media source sends DB8 one find for each  *)
(* of its targets.  Nobody calls "respond": the response task is held by   *)
(* the search task, that by the media source's task, that by the callbacks *)
(* of the finds, and each hands on what it has when it is destroyed.  A    *)
(* request is answered when the handler is through and the last callback   *)
(* that still holds its tasks goes.                                        *)
(*                                                                         *)
(* The daemon is single-threaded: a handler is one step.  What a response  *)
(* contains is left out.                                                   *)
(***************************************************************************)
EXTENDS Integers

CONSTANTS
    Requests,   \* search requests
    Targets     \* the properties DB8Source looks into: title and artist

VARIABLES
    running,    \* the daemon runs
    audioOn,    \* the media set's only category is registered and enabled
    connected,  \* m_isConnected of the DB8 client
    asked,      \* requests whose handler has run
    bus,        \* finds neither answered nor cancelled, as <<request, target>>
    callbacks,  \* finds whose callback exists
    answers     \* request -> how often it was answered, 2 for more than once

vars == <<running, audioOn, connected, asked, bus, callbacks, answers>>

Finds == Requests \X Targets

TypeOK ==
    /\ {running, audioOn, connected} \subseteq BOOLEAN
    /\ asked \subseteq Requests
    /\ bus \subseteq Finds /\ callbacks \subseteq bus
    /\ answers \in [Requests -> 0..2]

Init ==
    /\ running = FALSE /\ audioOn = FALSE /\ connected = FALSE
    /\ asked = {} /\ bus = {} /\ callbacks = {}
    /\ answers = [r \in Requests |-> 0]

-----------------------------------------------------------------------------

Answered(S) ==
    answers' = [r \in Requests |->
                  IF r \in S /\ answers[r] < 2 THEN answers[r] + 1 ELSE answers[r]]

Waiting(pairs) == {r \in Requests : \E t \in Targets : <<r, t>> \in pairs}

\* Callbacks go; a request that had some and has none left is answered.
End(gone) ==
    /\ callbacks' = callbacks \ gone
    /\ Answered(Waiting(callbacks) \ Waiting(callbacks'))

\* The plugin registers its category, which takes the flag of its row.
Start(on) ==
    /\ ~running
    /\ running' = TRUE /\ audioOn' = on
    /\ UNCHANGED <<connected, asked, bus, callbacks, answers>>

\* Requests that are open have lost it.
Crash ==
    /\ running /\ running' = FALSE /\ audioOn' = FALSE /\ connected' = FALSE
    /\ bus' = {} /\ callbacks' = {}
    /\ UNCHANGED <<asked, answers>>

\* A set none of whose categories is on is not searched, and find sends nothing
\* while DB8 is not there.
Sent(r) == IF audioOn /\ connected THEN {r} \X Targets ELSE {}

\* The callbacks that outlive their find.  DB8::find captures its own parameter by
\* reference, and parameters end with the call: none does.
Captured(sent) == {}

Search(r) ==
    /\ running /\ r \notin asked
    /\ asked' = asked \cup {r}
    /\ bus' = bus \cup Sent(r)
    /\ callbacks' = callbacks \cup Captured(Sent(r))
    /\ Answered({r} \ Waiting(callbacks'))
    /\ UNCHANGED <<running, audioOn, connected>>

\* A request without a key, or with one that is too short.
Refuse(r) ==
    /\ running /\ r \notin asked
    /\ asked' = asked \cup {r}
    /\ Answered({r})
    /\ UNCHANGED <<running, audioOn, connected, bus, callbacks>>

\* An error, or a reply without results: the callback is not used.
ReplyWithout(r, t) ==
    /\ running /\ <<r, t>> \in bus
    /\ bus' = bus \ {<<r, t>>}
    /\ End({<<r, t>>})
    /\ UNCHANGED <<running, audioOn, connected, asked>>

\* Results are given to the callback.  When it is gone that is undefined: the daemon
\* may die of it or seem to go on.
Reply(r, t) ==
    /\ running /\ <<r, t>> \in bus
    /\ \/ /\ bus' = bus \ {<<r, t>>}
          /\ End({<<r, t>>})
          /\ UNCHANGED <<running, audioOn, connected, asked>>
       \/ <<r, t>> \notin callbacks /\ Crash

\* LunaClient::_onServerStatus drops every call of the client.
OnServerStatus(up) ==
    /\ running
    /\ connected' = up
    /\ bus' = {}
    /\ End(callbacks)
    /\ UNCHANGED <<running, audioOn, asked>>

\* updateCategory switches the media category.
Switch(on) ==
    /\ running
    /\ audioOn' = on
    /\ UNCHANGED <<running, connected, asked, bus, callbacks, answers>>

Next ==
    \/ \E r \in Requests :
          \/ Search(r) \/ Refuse(r)
          \/ \E t \in Targets : Reply(r, t) \/ ReplyWithout(r, t)
    \/ \E up \in BOOLEAN : OnServerStatus(up) \/ Switch(up) \/ Start(up)
    \/ Crash

Spec == Init /\ [][Next]_vars

-----------------------------------------------------------------------------

\* Any find on the bus may be answered with results, and results meet the task they
\* are for: "get item vector from shared task" (DB8Source.cpp 69).  DB8.cpp 76 takes
\* the callback that holds the task by reference, and it is destroyed before the reply
\* can come; with it the response goes out before the media source has said anything.
ResultsMeetTheirTask == bus \subseteq callbacks
=============================================================================
