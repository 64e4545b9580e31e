-------------------------- MODULE LunaClientProofs --------------------------
(***************************************************************************)
(* However calls, replies, cancellations and status messages interleave,   *)
(* the bus never points to a task that is gone.                            *)
(***************************************************************************)
EXTENDS LunaClient, TLAPS

\* Beyond the properties: a call on the bus is kept under the id its caller was
\* given, since the last status message no id was given twice, and a task that was
\* never used is nowhere.
Filed ==
    /\ \A t \in bus : given[t] \in DOMAIN callMap /\ callMap[given[t]] = t
    /\ bus \cap outdated = {}
    /\ \A t \in Tasks \ outdated : given[t] <= callId
    /\ \A t, u \in Tasks \ outdated : given[t] = given[u] /\ given[t] # 0 => t = u

Unused ==
    \A t \in Tasks : given[t] = 0 => t \notin bus \cup subscribes \cup outdated

IInv == TypeOK /\ NothingLeaks /\ Filed /\ Unused

LEMMA InitStep == Init => IInv
  <1> SUFFICES ASSUME Init PROVE IInv
    OBVIOUS
  <1>1. DOMAIN callMap = {} /\ DOMAIN taskMap = {} /\ bus = {}
    BY DEF Init, None
  <1>2. \A t \in Tasks : given[t] = 0
    BY DEF Init
  <1>3. TypeOK
    <2>1. given \in [Tasks -> Nat]
      BY DEF Init
    <2>3. connected \in BOOLEAN /\ callId \in Nat
      BY DEF Init
    <2>4. MapsTo(callMap, Tasks) /\ MapsTo(taskMap, Tasks)
      BY <1>1 DEF MapsTo
    <2>5. bus \subseteq Tasks /\ subscribes \subseteq Tasks /\ outdated \subseteq Tasks
      BY DEF Init
    <2> QED
      BY <2>1, <2>3, <2>4, <2>5 DEF TypeOK
  <1>4. NothingLeaks
    BY <1>1 DEF NothingLeaks
  <1>5. Filed
    BY <1>1, <1>2 DEF Filed, Init
  <1>6. Unused
    BY <1>1, <1>2 DEF Unused, Init
  <1> QED
    BY <1>3, <1>4, <1>5, <1>6 DEF IInv

\* Both maps say the same, so what the bus may answer has its task.
LEMMA Agreement == IInv => TaskOutlivesCall /\ IdMeansOneCall
  <1> SUFFICES ASSUME IInv PROVE TaskOutlivesCall /\ IdMeansOneCall
    OBVIOUS
  <1>1. TaskOutlivesCall
    BY DEF IInv, NothingLeaks, Filed, TaskOutlivesCall
  <1>2. ASSUME NEW t \in Tasks \ outdated, given[t] \in DOMAIN callMap
        PROVE  callMap[given[t]] = t
    <2> DEFINE u == callMap[given[t]]
    <2>1. u \in bus /\ given[u] = given[t] /\ u \in Tasks /\ u \notin outdated
      BY <1>2 DEF IInv, TypeOK, MapsTo, NothingLeaks, Filed
    <2>2. given[t] # 0
      BY <1>2 DEF IInv, TypeOK, MapsTo
    <2> QED
      BY <2>1, <2>2 DEF IInv, Filed
  <1> QED
    BY <1>1, <1>2 DEF IdMeansOneCall

\* A status message empties both maps and the bus.
LEMMA StatusStep ==
    ASSUME IInv, NEW up \in BOOLEAN, OnServerStatus(up)
    PROVE  IInv'
  <1>1. DOMAIN callMap' = {} /\ DOMAIN taskMap' = {}
    BY DEF OnServerStatus, Erase, Cleared
  <1>2. bus' = {}
    <2>1. \A t \in bus : t \in CallsUnder(Cleared)
      BY DEF IInv, Filed, CallsUnder, Cleared
    <2> QED
      BY <2>1 DEF OnServerStatus
  <1>3. \A t \in Tasks : given[t] # 0 => t \in outdated'
    BY DEF OnServerStatus
  <1>4. TypeOK'
    BY <1>1, <1>2 DEF IInv, TypeOK, MapsTo, OnServerStatus
  <1>5. NothingLeaks'
    BY <1>1 DEF NothingLeaks
  <1>6. Filed'
    BY <1>2, <1>3 DEF IInv, TypeOK, Filed, OnServerStatus
  <1>7. Unused'
    BY <1>2 DEF IInv, Unused, OnServerStatus
  <1> QED
    BY <1>4, <1>5, <1>6, <1>7 DEF IInv

\* A new call gets an id no entry has.
LEMMA CallStep ==
    ASSUME IInv, NEW t \in Tasks, NEW subscribe \in BOOLEAN, Call(t, subscribe)
    PROVE  IInv'
  <1> DEFINE id == callId + 1
  <1>1. callId \in Nat /\ id \notin DOMAIN callMap /\ id \notin DOMAIN taskMap
    BY DEF IInv, TypeOK, MapsTo
  <1>2. /\ DOMAIN callMap' = DOMAIN callMap \cup {id}
        /\ DOMAIN taskMap' = DOMAIN taskMap \cup {id}
        /\ callMap'[id] = t /\ taskMap'[id] = t
        /\ \A i \in DOMAIN callMap : callMap'[i] = callMap[i]
        /\ \A i \in DOMAIN taskMap : taskMap'[i] = taskMap[i]
    BY <1>1 DEF Call, Insert
  <1>3. /\ t \notin bus /\ t \notin subscribes
        /\ given'[t] = id /\ callId' = id
        /\ \A u \in Tasks \ {t} : given'[u] = given[u]
    BY DEF IInv, TypeOK, Unused, Call
  <1>4. TypeOK'
    BY <1>1, <1>2 DEF IInv, TypeOK, MapsTo, Call
  <1>5. NothingLeaks'
    BY <1>1, <1>2, <1>3 DEF IInv, TypeOK, MapsTo, NothingLeaks, Call
  <1>6. /\ bus' = bus \cup {t} /\ outdated' = outdated /\ t \notin outdated
        /\ \A u \in bus : u \in Tasks
    BY DEF IInv, TypeOK, Unused, Call
  <1>7. Filed'
    <2>1. \A u \in bus' : given'[u] \in DOMAIN callMap' /\ callMap'[given'[u]] = u
      BY <1>2, <1>3, <1>6 DEF IInv, Filed
    <2>2. bus' \cap outdated' = {}
      BY <1>6 DEF IInv, Filed
    <2>3. \A u \in Tasks \ outdated' : given'[u] <= callId'
      BY <1>1, <1>3, <1>6 DEF IInv, TypeOK, Filed
    <2>4. \A u \in Tasks \ outdated : u # t => given[u] # id
      BY <1>1 DEF IInv, TypeOK, Filed
    <2>5. \A u, v \in Tasks \ outdated' :
             given'[u] = given'[v] /\ given'[u] # 0 => u = v
      <3> TAKE u, v \in Tasks \ outdated'
      <3>1. CASE u # t /\ v # t
        BY <3>1, <1>3, <1>6 DEF IInv, Filed
      <3>2. CASE u = t \/ v = t
        BY <3>2, <2>4, <1>3, <1>6
      <3> QED
        BY <3>1, <3>2
    <2> QED
      BY <2>1, <2>2, <2>3, <2>5 DEF Filed
  <1>8. Unused'
    BY <1>1, <1>3 DEF IInv, TypeOK, Unused, Call
  <1> QED
    BY <1>4, <1>5, <1>7, <1>8 DEF IInv

\* Ending the call kept under an id leaves every other call as it was.
LEMMA EndStep ==
    ASSUME IInv, NEW id \in DOMAIN callMap,
           bus' = bus \ {callMap[id]},
           callMap' = Erase(callMap, {id}), taskMap' = Erase(taskMap, {id}),
           UNCHANGED <<connected, callId, subscribes, given, outdated>>
    PROVE  IInv'
  <1> DEFINE t == callMap[id]
  <1>1. t \in bus /\ t \in Tasks /\ given[t] = id /\ id # 0
    BY DEF IInv, TypeOK, MapsTo, NothingLeaks
  <1>2. /\ DOMAIN callMap' = DOMAIN callMap \ {id}
        /\ DOMAIN taskMap' = DOMAIN taskMap \ {id}
        /\ \A i \in DOMAIN callMap' : callMap'[i] = callMap[i]
        /\ \A i \in DOMAIN taskMap' : taskMap'[i] = taskMap[i]
    BY DEF Erase
  <1>3. TypeOK'
    BY <1>2 DEF IInv, TypeOK, MapsTo
  <1>4. NothingLeaks'
    <2>1. \A i \in DOMAIN callMap' : callMap[i] # t
      BY <1>1, <1>2 DEF IInv, NothingLeaks
    <2>2. bus' = bus \ {t} /\ given' = given
      OBVIOUS
    <2>3. DOMAIN callMap' = DOMAIN taskMap'
      BY <1>2 DEF IInv, NothingLeaks
    <2>4. ASSUME NEW i \in DOMAIN callMap'
          PROVE  callMap'[i] \in bus' /\ taskMap'[i] = callMap'[i] /\ given'[callMap'[i]] = i
      BY <1>2, <2>1, <2>2, <2>3 DEF IInv, NothingLeaks
    <2> QED
      BY <2>3, <2>4 DEF NothingLeaks
  <1>5. Filed'
    <2>1. \A u \in bus' : given[u] # id
      BY DEF IInv, Filed
    <2> QED
      BY <1>2, <2>1 DEF IInv, Filed
  <1>6. Unused'
    BY DEF IInv, Unused
  <1> QED
    BY <1>3, <1>4, <1>5, <1>6 DEF IInv

LEMMA CancelStep ==
    ASSUME IInv, NEW t \in Tasks, Cancel(t)
    PROVE  IInv'
  <1>1. given[t] \in DOMAIN callMap
    BY DEF Cancel
  <1>2. CallsUnder({given[t]}) = {callMap[given[t]]}
    BY <1>1 DEF CallsUnder
  <1>3. /\ bus' = bus \ {callMap[given[t]]}
        /\ callMap' = Erase(callMap, {given[t]}) /\ taskMap' = Erase(taskMap, {given[t]})
        /\ UNCHANGED <<connected, callId, subscribes, given, outdated>>
    BY <1>2 DEF Cancel, Ended
  <1> QED
    BY <1>1, <1>3, EndStep

\* A reply to a subscription changes nothing; any other reply ends its call.
LEMMA ResponseStep ==
    ASSUME IInv, NEW t \in Tasks, OnResponse(t)
    PROVE  IInv'
  <1>1. t \in bus /\ given[t] \in DOMAIN callMap /\ callMap[given[t]] = t
    BY DEF OnResponse, IInv, Filed
  <1>3. CASE t \in subscribes
    BY <1>3 DEF OnResponse, IInv, TypeOK, MapsTo, NothingLeaks, Filed, Unused
  <1>4. CASE t \notin subscribes
    <2>1. CallsUnder({given[t]}) = {t}
      BY <1>1 DEF CallsUnder
    <2>2. /\ bus' = bus \ {t}
          /\ callMap' = Erase(callMap, {given[t]}) /\ taskMap' = Erase(taskMap, {given[t]})
          /\ UNCHANGED <<connected, callId, subscribes, given, outdated>>
      BY <1>4, <2>1 DEF OnResponse
    <2> QED
      BY <1>1, <2>2, EndStep
  <1> QED
    BY <1>3, <1>4

LEMMA NextStep == IInv /\ [Next]_vars => IInv'
  <1> SUFFICES ASSUME IInv, [Next]_vars PROVE IInv'
    OBVIOUS
  <1>1. ASSUME NEW up \in BOOLEAN, OnServerStatus(up) PROVE IInv'
    BY <1>1, StatusStep
  <1>2. ASSUME NEW t \in Tasks, NEW subscribe \in BOOLEAN, Call(t, subscribe) PROVE IInv'
    BY <1>2, CallStep
  <1>3. ASSUME NEW t \in Tasks, Cancel(t) PROVE IInv'
    BY <1>3, CancelStep
  <1>4. ASSUME NEW t \in Tasks, OnResponse(t) PROVE IInv'
    BY <1>4, ResponseStep
  <1>5. CASE UNCHANGED vars
    BY <1>5 DEF vars, IInv, TypeOK, MapsTo, NothingLeaks, Filed, Unused
  <1> QED
    BY <1>1, <1>2, <1>3, <1>4, <1>5 DEF Next

THEOREM Inductive == Spec => []IInv
  <1> QED
    BY InitStep, NextStep, PTL DEF Spec

\* The maps and the ids keep their types.
THEOREM TypeCorrect == Spec => []TypeOK
  <1>1. IInv => TypeOK
    BY DEF IInv
  <1> QED
    BY <1>1, Inductive, PTL

\* However many calls, cancellations and status messages come between a call and
\* its reply, the task the bus holds a bare pointer to is alive (LunaClient.cpp
\* 60-64, 112-119, 130-132, 146-149), and its entries end with it.
THEOREM RepliesFindTheirTask == Spec => [](TaskOutlivesCall /\ NothingLeaks)
  <1>1. IInv => NothingLeaks
    BY DEF IInv
  <1> QED
    BY <1>1, Agreement, Inductive, PTL

\* Between two status messages an id cancels only the call it was given for
\* (LunaClient.cpp 97-119, 124-134).
THEOREM IdsMeanOneCall == Spec => []IdMeansOneCall
  <1> QED
    BY Agreement, Inductive, PTL
=============================================================================
