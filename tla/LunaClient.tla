----------------------------- MODULE LunaClient -----------------------------
(***************************************************************************)
(* Calls of a client to its service over the bus (LunaClient.cpp).         *)
(*                                                                         *)
(* The client numbers its calls, and keeps the bus call and the task that  *)
(* holds the callback in two maps under that number.  The bus is given a   *)
(* bare pointer to the task; only the map keeps the task alive.  Any       *)
(* message about the server's status clears both maps and starts the       *)
(* numbers again.  Callers are given the number to cancel the call with;   *)
(* no caller in the daemon does.                                           *)
(* A definition marked "variant" is the one after it with a mistake in it. *)
(***************************************************************************)
EXTENDS Integers

CONSTANT Tasks    \* the tasks calls are made with, each for one call

VARIABLES
    connected,  \* m_isConnected
    callId,     \* m_callId
    callMap,    \* id -> the task whose bus call is kept under it
    taskMap,    \* id -> the task kept alive under it
    bus,        \* tasks whose bus call is neither answered nor cancelled
    subscribes, \* tasks of subscriptions, which may be answered again and again
    given,      \* task -> the id its caller was given, 0 for none
    outdated    \* tasks whose id was given before the last status message

vars == <<connected, callId, callMap, taskMap, bus, subscribes, given, outdated>>

MapsTo(m, S) == DOMAIN m \subseteq 1..callId /\ \A id \in DOMAIN m : m[id] \in S

TypeOK ==
    /\ connected \in BOOLEAN
    /\ callId \in Nat
    /\ MapsTo(callMap, Tasks) /\ MapsTo(taskMap, Tasks)
    /\ bus \subseteq Tasks /\ subscribes \subseteq Tasks /\ outdated \subseteq Tasks
    /\ given \in [Tasks -> Nat]

None == [id \in {} |-> 0]

\* std::map: insert keeps what is there, erase ignores what is not.
Insert(m, id, task) == [i \in DOMAIN m \cup {id} |-> IF i \in DOMAIN m THEN m[i] ELSE task]
Erase(m, ids) == [i \in DOMAIN m \ ids |-> m[i]]

\* (variant: a call goes on when its entry goes)
CallsUnderNone(ids) == {}

\* The bus calls that end when the entries under ids go: a Call cancels itself.
CallsUnder(ids) == {callMap[id] : id \in ids \cap DOMAIN callMap}

Init ==
    /\ connected = FALSE /\ callId = 0
    /\ callMap = None /\ taskMap = None
    /\ bus = {} /\ subscribes = {} /\ outdated = {}
    /\ given = [t \in Tasks |-> 0]

\* (variant: the maps are left alone)
ClearedNone == {}

\* The ids under which _onServerStatus clears an entry: all of them.
Cleared == DOMAIN callMap \cup DOMAIN taskMap

OnServerStatus(up) ==
    /\ connected' = up
    /\ callMap' = Erase(callMap, Cleared) /\ taskMap' = Erase(taskMap, Cleared)
    /\ bus' = bus \ CallsUnder(Cleared)
    /\ callId' = 0
    /\ outdated' = outdated \cup {t \in Tasks : given[t] # 0}
    /\ UNCHANGED <<subscribes, given>>

\* call returns 0 when the service is not there.
Call(t, subscribe) ==
    /\ given[t] = 0
    /\ connected
    /\ callId' = callId + 1
    /\ callMap' = Insert(callMap, callId', t)
    /\ taskMap' = Insert(taskMap, callId', t)
    /\ bus' = bus \cup {t}
    /\ subscribes' = IF subscribe THEN subscribes \cup {t} ELSE subscribes
    /\ given' = [given EXCEPT ![t] = callId']
    /\ UNCHANGED <<connected, outdated>>

\* (variant: the call is cancelled and its entries stay)
EndedNone(id) == {}

\* The ids that leave the maps with id.
Ended(id) == {id}

Cancel(t) ==
    /\ given[t] \in DOMAIN callMap
    /\ LET id == given[t]
       IN  /\ bus' = bus \ CallsUnder({id})
           /\ callMap' = Erase(callMap, Ended(id))
           /\ taskMap' = Erase(taskMap, Ended(id))
    /\ UNCHANGED <<connected, callId, subscribes, given, outdated>>

\* The service answers: the callback runs, and a call that wants one reply ends.
OnResponse(t) ==
    /\ t \in bus
    /\ IF t \in subscribes THEN UNCHANGED <<callMap, taskMap, bus>>
       ELSE LET id == given[t]
            IN  /\ bus' = bus \ ({t} \cup CallsUnder({id}))
                /\ callMap' = Erase(callMap, {id})
                /\ taskMap' = Erase(taskMap, {id})
    /\ UNCHANGED <<connected, callId, subscribes, given, outdated>>

Next ==
    \/ \E up \in BOOLEAN : OnServerStatus(up)
    \/ \E t \in Tasks :
          \/ \E subscribe \in BOOLEAN : Call(t, subscribe)
          \/ Cancel(t)
          \/ OnResponse(t)

Spec == Init /\ [][Next]_vars

-----------------------------------------------------------------------------

\* A reply never finds its task destroyed: while the bus may answer a call, the
\* task it points to is in the task map, and in the call map under the same id,
\* so that both end together (LunaClient.cpp 60-64, 112-119, 130-132, 146-149).
TaskOutlivesCall ==
    \A t \in bus : \E id \in DOMAIN taskMap \cap DOMAIN callMap :
        taskMap[id] = t /\ callMap[id] = t

\* Nothing is kept for a call that is over: both maps hold only calls the bus may
\* still answer, each under the id its caller was given.
NothingLeaks ==
    /\ DOMAIN callMap = DOMAIN taskMap
    /\ \A id \in DOMAIN callMap :
          callMap[id] \in bus /\ taskMap[id] = callMap[id] /\ given[callMap[id]] = id

\* Within one connection an id means one call: cancelling it never ends another's.
\* Across a status message numbers start again, and an outdated id may.
IdMeansOneCall ==
    \A t \in Tasks \ outdated :
        given[t] \in DOMAIN callMap => callMap[given[t]] = t
=============================================================================
