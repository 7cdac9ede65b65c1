------------------------- MODULE GatewayClientProofs -------------------------
(***************************************************************************)
(* Theorems about the MQTT half of GatewayNet: the handle, the flag and    *)
(* the clients, for any brokers and every bound on clients and events.     *)
(***************************************************************************)
EXTENDS GatewayNetProofs, FiniteSetTheorems, WellFoundedInduction, NaturalsInduction

Records == [broker : Brokers, state : {"down", "up", "subscribed", "kicked"}]
Pending == [todo : {"stop", "clear", "start"}, broker : Brokers \cup {None}]

\* The types that WifiType leaves out.
ClientType ==
    /\ connected \in BOOLEAN /\ early \in BOOLEAN
    /\ saved_cfg \in Settings
    /\ clients \in [Ids -> {NoClient} \cup Records]
    /\ client \in Ids \cup {None}
    /\ greets \in SUBSET Ids
    /\ publish \in [Publishers -> {"no", "checked", "late"}]
    /\ admin \in {Idle} \cup Pending
    /\ chosen \in Brokers \cup {None}

\* Without power there are no clients and no tasks.
OffInv ==
    ~power => /\ Living = {} /\ client = None /\ greets = {} /\ admin = Idle
              /\ ~callback /\ ~connected /\ chosen = None
              /\ \A p \in Publishers : publish[p] = "no"

\* The handle is that of a client, but between its destruction and the reset,
HandleInv == client # None /\ admin.todo # "clear" => client \in Living

\* and no other client exists unless a handle was lost.  Until the callback has
\* run, and when a change of the broker is half done, there is none at all.
OwnInv ==
    ~early =>
        /\ Living \subseteq {client}
        /\ callback => Living = {} /\ client = None /\ admin = Idle
        /\ admin.todo \in {"clear", "start"} => Living = {}
        /\ admin.todo = "start" => client = None

\* A publisher that is not late tested the handle of a client that still exists.
PubInv ==
    \A p \in Publishers :
        publish[p] = "checked" => admin.todo = "none" /\ client \in Living

\* The client of the handle, and the one that is to come, talk to the broker
\* chosen last.
BrokerInv ==
    /\ admin.todo # "none" => chosen = admin.broker
    /\ ~early =>
        /\ callback => chosen = saved_cfg.broker
        /\ admin.todo = "none" /\ ~callback =>
             /\ client # None <=> chosen # None
             /\ client # None => clients[client].broker = chosen

CInv ==
    /\ ClientType /\ OffInv /\ HandleInv /\ OwnInv /\ PubInv /\ BrokerInv
    /\ FlagIsSound /\ GreetsOwnClient

-----------------------------------------------------------------------------
(* Clients.                                                                 *)

\* A client that exists has a state and a broker of its own.
LEMMA Alive ==
    ASSUME ClientType
    PROVE  /\ \A i \in Ids : i \in Living <=> clients[i] \in Records
           /\ \A i \in Ids : i \in Living <=> clients[i].state # "none"
           /\ \A i \in Ids : i \in Living <=> i \notin Unused
           /\ \A i \in Ids : i \notin Living => clients[i] = NoClient
           /\ Living \subseteq Ids /\ None \notin Ids
           /\ \A r \in Records : /\ r # NoClient /\ r.broker \in Brokers
                                 /\ r.state \in {"down", "up", "subscribed", "kicked"}
<1>1. \A r \in Records : /\ r.state \in {"down", "up", "subscribed", "kicked"}
                         /\ r.broker \in Brokers
    BY DEF Records
<1>2. NoClient.state = "none"
    BY DEF NoClient
<1>3. \A i \in Ids : clients[i] \in {NoClient} \cup Records
    BY DEF ClientType
<1>4. \A r \in Records : r # NoClient
    BY <1>1, <1>2
<1>5. None \notin Ids
    BY NetAssumption DEF Ids
<1> QED BY <1>1, <1>2, <1>3, <1>4, <1>5 DEF Living, Unused

\* The first unused client is one of the unused.
LEMMA LeastUnused ==
    ASSUME Unused # {}
    PROVE  Least(Unused) \in Unused
<1>1. Unused \subseteq Nat
    BY NetAssumption DEF Unused, Ids
<1>2. PICK x \in Unused : \A y \in Unused : ~(<<y, x>> \in OpToRel(<, Nat))
    BY <1>1, WFMin, NatLessThanWellFounded, Zenon
<1>3. \A y \in Unused : ~(y < x)
    BY <1>1, <1>2, Zenon DEF OpToRel
<1>4. \A y \in Unused : x <= y
    BY <1>1, <1>3
<1> QED BY <1>4, Zenon DEF Least

\* mqtt_mgr_start makes one client, that of the handle, or none.
LEMMA StartEffect ==
    ASSUME ClientType, NEW b \in Brokers \cup {None}, MqttStart(b)
    PROVE  \/ b = None /\ UNCHANGED <<clients, client>>
           \/ /\ b \in Brokers
              /\ clients' \in [Ids -> {NoClient} \cup Records]
              /\ client' \in Ids \ Living
              /\ clients'[client'] = [broker |-> b, state |-> "down"]
              /\ clients'[client'] \in Records
              /\ \A i \in Ids : i # client' => clients'[i] = clients[i]
              /\ Living' = Living \cup {client'}
<1>1. CASE b = None
    BY <1>1 DEF MqttStart
<1>2. CASE b # None
    <2> DEFINE k == Least(Unused)
               new == [broker |-> b, state |-> "down"]
    <2>1. /\ Unused # {}
          /\ clients' = [clients EXCEPT ![k] = new]
          /\ client' = k
        BY <1>2 DEF MqttStart
    <2>2. k \in Unused /\ k \in Ids
        BY <2>1, LeastUnused DEF Unused
    <2>3. new \in Records /\ b \in Brokers
        BY <1>2 DEF Records
    <2>4. k \notin Living /\ new # NoClient
        BY <2>2, <2>3, Alive
    <2> HIDE DEF k, new
    <2>5. /\ clients' \in [Ids -> {NoClient} \cup Records]
          /\ clients'[k] = new
          /\ \A i \in Ids : i # k => clients'[i] = clients[i]
        BY <2>1, <2>2, <2>3 DEF ClientType
    <2>6. Living' = Living \cup {k}
        BY <2>2, <2>4, <2>5 DEF Living, NoClient, Ids
    <2> QED BY <2>1, <2>2, <2>3, <2>4, <2>5, <2>6 DEF new
<1> QED BY <1>1, <1>2

\* The tasks of the clients make and destroy none.
LEMMA TaskEffect ==
    ASSUME ClientType, NEW i \in Ids,
           ClientConnects(i) \/ Greet(i) \/ ClientDisconnects(i)
    PROVE  /\ clients' \in [Ids -> {NoClient} \cup Records]
           /\ Living' = Living
           /\ \A j \in Ids : clients'[j].broker = clients[j].broker
           /\ \A j \in Ids : clients'[j] # clients[j] =>
                clients[j].state # "none" /\ clients'[j].state # "none"
           /\ greets' \in SUBSET Ids /\ connected' \in BOOLEAN
           /\ UNCHANGED <<nonMqtt, client>>
<1> DEFINE Moved(j, r) == r \in Records /\ r.broker = clients[j].broker
<1>1. ASSUME NEW j \in Ids, NEW st \in {"down", "up", "subscribed", "kicked"},
             clients[j].state # "none"
      PROVE  Moved(j, [clients[j] EXCEPT !.state = st])
    <2>1. clients[j] \in Records
        BY <1>1, Alive
    <2> QED BY <2>1 DEF Records
<1>2. clients[i].state # "none" => i \in Living
    BY Alive
<1>3. \A j \in Ids : clients'[j] = clients[j] \/
        (clients[j].state # "none" /\ Moved(j, clients'[j]))
    <2>1. CASE ClientConnects(i)
        <3>1. ASSUME NEW j \in Ids PROVE clients'[j] = clients[j] \/
                (clients[j].state # "none" /\ Moved(j, clients'[j]))
            <4>1. \/ clients'[j] = clients[j]
                  \/ /\ clients'[j] = [clients[j] EXCEPT !.state = "up"]
                     /\ clients[j].state = "down"
                  \/ /\ clients'[j] = [clients[j] EXCEPT !.state = "kicked"]
                     /\ Session(clients[j])
                BY <2>1 DEF ClientConnects
            <4> HIDE DEF Moved
            <4> QED BY <1>1, <4>1 DEF Session
        <3> QED BY <3>1
    <2>2. CASE Greet(i)
        <3>1. ASSUME NEW j \in Ids PROVE clients'[j] = clients[j] \/
                (clients[j].state # "none" /\ Moved(j, clients'[j]))
            <4>1. \/ clients'[j] = clients[j]
                  \/ /\ clients'[j] = [clients[j] EXCEPT !.state = "subscribed"]
                     /\ clients[j].state = "up"
                BY <2>2 DEF Greet
            <4> HIDE DEF Moved
            <4> QED BY <1>1, <4>1
        <3> QED BY <3>1
    <2>3. CASE ClientDisconnects(i)
        <3>1. /\ clients' = [clients EXCEPT ![i].state = "down"]
              /\ clients[i].state # "none"
            BY <2>3 DEF ClientDisconnects
        <3>2. /\ clients'[i] = [clients[i] EXCEPT !.state = "down"]
              /\ \A j \in Ids : j # i => clients'[j] = clients[j]
            BY <3>1 DEF ClientType
        <3> HIDE DEF Moved
        <3> QED BY <1>1, <3>1, <3>2
    <2> QED BY <2>1, <2>2, <2>3
<1>4. clients' \in [Ids -> {NoClient} \cup Records]
    <2>1. \A j \in Ids : clients'[j] \in {NoClient} \cup Records
        BY <1>3 DEF ClientType
    <2>2. clients' = [j \in Ids |-> clients'[j]]
        BY DEF ClientType, ClientConnects, Greet, ClientDisconnects
    <2> QED BY <2>1, <2>2
<1>5. ASSUME NEW j \in Ids, clients'[j] # clients[j]
      PROVE  /\ clients[j].state # "none" /\ clients'[j] \in Records
             /\ clients'[j].broker = clients[j].broker
    BY <1>3, <1>5
<1>6. \A j \in Ids : clients'[j] # NoClient <=> clients[j] # NoClient
    BY <1>5, Alive DEF NoClient
<1>7. Living' = Living
    BY <1>6 DEF Living, NoClient, Ids
<1>8. \A r \in Records : r.state # "none"
    BY DEF Records
<1>9. greets' \in SUBSET Ids /\ connected' \in BOOLEAN /\ UNCHANGED <<nonMqtt, client>>
    BY DEF ClientType, ClientConnects, Greet, ClientDisconnects
<1> QED BY <1>4, <1>5, <1>7, <1>8, <1>9

-----------------------------------------------------------------------------
(* Power, Wi-Fi and the settings.                                           *)

clientVars == <<power, callback, saved_cfg, mqttVars, adminVars, publish>>

\* What the invariant does not speak of may change.
LEMMA WifiElsewhere ==
    ASSUME CInv, UNCHANGED clientVars
    PROVE  CInv'
<1> USE DEF clientVars, mqttVars, adminVars
<1>1. Living' = Living
    BY DEF Living, NoClient, Ids
<1>2. ClientType'
    BY DEF CInv, ClientType
<1>3. OffInv' /\ HandleInv' /\ OwnInv' /\ PubInv'
    BY <1>1 DEF CInv, OffInv, HandleInv, OwnInv, PubInv, Publishers
<1>4. BrokerInv'
    BY DEF CInv, BrokerInv
<1>5. FlagIsSound'
    BY DEF CInv, FlagIsSound, Session, Ids
<1>6. GreetsOwnClient'
    BY <1>1 DEF CInv, GreetsOwnClient
<1> QED BY <1>2, <1>3, <1>4, <1>5, <1>6 DEF CInv

LEMMA AllOff ==
    ASSUME Off
    PROVE  /\ clients' \in [Ids -> {NoClient} \cup Records]
           /\ Living' = {}
BY DEF Off, Living

LEMMA PowerInitially == Init => CInv
<1> SUFFICES ASSUME Init PROVE CInv
    OBVIOUS
<1>1. Living = {} /\ saved_cfg \in Settings
    BY DEF Init, Living, Settings, Empty
<1>2. ClientType
    BY <1>1 DEF Init, ClientType
<1>3. OffInv /\ HandleInv /\ OwnInv /\ PubInv /\ BrokerInv
    BY <1>1 DEF Init, OffInv, HandleInv, OwnInv, PubInv, BrokerInv, Idle
<1>4. FlagIsSound /\ GreetsOwnClient
    BY DEF Init, FlagIsSound, GreetsOwnClient
<1> QED BY <1>2, <1>3, <1>4 DEF CInv

LEMMA RestartKeepsClients ==
    ASSUME WifiType, CInv, Restart
    PROVE  CInv'
<1>1. /\ clients' \in [Ids -> {NoClient} \cup Records] /\ Living' = {}
      /\ UNCHANGED saved_cfg
    BY AllOff DEF Restart
<1>2. /\ client' = None /\ greets' = {} /\ admin' = Idle /\ early' = FALSE
      /\ chosen' = None
      /\ callback' = FALSE /\ connected' = FALSE
      /\ publish' = [p \in Publishers |-> "no"]
    BY DEF Restart, Off
<1>3. ClientType'
    BY <1>1, <1>2 DEF CInv, ClientType
<1>4. OffInv' /\ HandleInv' /\ OwnInv' /\ PubInv' /\ BrokerInv'
    BY <1>1, <1>2 DEF OffInv, HandleInv, OwnInv, PubInv, BrokerInv, Idle
<1>5. FlagIsSound' /\ GreetsOwnClient'
    BY <1>2 DEF FlagIsSound, GreetsOwnClient
<1> QED BY <1>3, <1>4, <1>5 DEF CInv

LEMMA BootKeepsClients ==
    ASSUME WifiType, CInv, Boot
    PROVE  CInv'
<1>1. /\ ~power /\ power' = TRUE /\ callback' = saved_cfg'.wifi
      /\ chosen' = IF saved_cfg'.wifi THEN saved_cfg'.broker ELSE None
      /\ UNCHANGED <<mqttVars, admin, early, publish>>
    BY DEF Boot
<1>2. Living' = Living /\ Living = {}
    BY <1>1 DEF Living, NoClient, Ids, mqttVars, CInv, OffInv
<1>3. /\ client = None /\ greets = {} /\ admin = Idle /\ ~connected
      /\ \A p \in Publishers : publish[p] = "no"
    BY <1>1 DEF CInv, OffInv
<1>4. ClientType'
    <2>1. saved_cfg' \in Settings
        BY LoadType DEF Boot, WifiType
    <2>2. chosen' \in Brokers \cup {None}
        BY <1>1, <2>1 DEF Settings
    <2> QED BY <1>1, <2>1, <2>2 DEF CInv, ClientType, mqttVars
<1>5. OffInv' /\ HandleInv' /\ OwnInv' /\ PubInv' /\ BrokerInv'
    BY <1>1, <1>2, <1>3
       DEF OffInv, HandleInv, OwnInv, PubInv, BrokerInv, Idle, mqttVars
<1>6. FlagIsSound' /\ GreetsOwnClient'
    BY <1>1, <1>3 DEF FlagIsSound, GreetsOwnClient, mqttVars
<1> QED BY <1>4, <1>5, <1>6 DEF CInv

\* A change of the broker begins.
LEMMA ChangeKeepsClients ==
    ASSUME WifiType, CInv, NEW b \in Brokers \cup {None}, ChangeBroker(b)
    PROVE  CInv'
<1> USE DEF mqttVars, bootVars, hookVars
<1>1. /\ power /\ admin.todo = "none" /\ chosen' = b
      /\ admin' = [todo |-> "stop", broker |-> b]
      /\ early' = (early \/ callback)
      /\ UNCHANGED <<power, callback, saved_cfg, clients, client, connected, greets>>
    BY DEF ChangeBroker, Ready
<1>2. \A p \in Publishers : publish'[p] \in {"no", "late"}
    BY DEF ChangeBroker
<1>3. Living' = Living
    BY <1>1 DEF Living, NoClient, Ids
<1>4. ClientType'
    <2>1. admin' \in Pending
        BY <1>1 DEF Pending
    <2>2. publish' \in [Publishers -> {"no", "checked", "late"}]
        BY DEF ChangeBroker
    <2> QED BY <1>1, <2>1, <2>2 DEF CInv, ClientType, WifiType
<1>5. OffInv' /\ HandleInv' /\ OwnInv' /\ PubInv'
    BY <1>1, <1>2, <1>3 DEF CInv, OffInv, HandleInv, OwnInv, PubInv, Publishers, WifiType
<1>6. BrokerInv'
    BY <1>1 DEF CInv, BrokerInv, WifiType
<1>7. FlagIsSound'
    BY <1>1 DEF CInv, FlagIsSound, Session, Ids
<1>8. GreetsOwnClient'
    BY <1>1, <1>3 DEF CInv, GreetsOwnClient
<1> QED BY <1>4, <1>5, <1>6, <1>7, <1>8 DEF CInv

-----------------------------------------------------------------------------
(* The tasks of the clients and of the publishers.                          *)

LEMMA TasksKeepClients ==
    ASSUME WifiType, CInv, NEW i \in Ids,
           ClientConnects(i) \/ Greet(i) \/ ClientDisconnects(i)
    PROVE  CInv'
<1> USE DEF bootVars, hookVars, adminVars
<1>1. /\ clients' \in [Ids -> {NoClient} \cup Records] /\ Living' = Living
      /\ \A j \in Ids : clients'[j].broker = clients[j].broker
      /\ greets' \in SUBSET Ids /\ connected' \in BOOLEAN
      /\ UNCHANGED <<nonMqtt, client>>
    BY TaskEffect DEF CInv
<1>2. UNCHANGED <<power, callback, saved_cfg, admin, early, chosen, publish, client>>
    BY <1>1 DEF nonMqtt
<1>3. clients[i].state # "none" \/ i \in greets
    BY DEF ClientConnects, Greet, ClientDisconnects
<1>4. client # None => client \in Ids
    BY DEF CInv, ClientType
<1>5. ~early => /\ Living \subseteq {client}
                /\ \A j \in greets : client = j /\ j \in Living
    BY DEF CInv, OwnInv, GreetsOwnClient
<1>6. i \in Living <=> clients[i].state # "none"
    BY Alive DEF CInv
<1>7. ClientType'
    BY <1>1, <1>2 DEF CInv, ClientType
<1>8. OffInv'
    <2>1. power
        BY <1>3, <1>6 DEF CInv, OffInv, WifiType
    <2> QED BY <1>2, <2>1 DEF OffInv
<1>9. HandleInv' /\ OwnInv' /\ PubInv' /\ BrokerInv'
    BY <1>1, <1>2, <1>4 DEF CInv, HandleInv, OwnInv, PubInv, BrokerInv
<1>10. CASE ClientConnects(i)
    <2>1. /\ clients[i].state = "down"
          /\ connected' = TRUE /\ greets' = greets \cup {i}
          /\ clients'[i] = [clients[i] EXCEPT !.state = "up"]
          /\ \A j \in Ids : j # i /\ clients'[j] # clients[j] =>
                clients'[j] = [clients[j] EXCEPT !.state = "kicked"]
        BY <1>10 DEF ClientConnects
    <2>2. clients[i] \in Records
        BY <1>6, <2>1, Alive DEF CInv
    <2>3. clients'[i].state = "up"
        BY <2>1, <2>2 DEF Records
    <2>4. FlagIsSound'
        BY <2>1, <2>3 DEF FlagIsSound
    <2>5. ~early => i = client
        BY <1>5, <1>6, <2>1
    <2>6. GreetsOwnClient'
        BY <1>1, <1>2, <1>5, <1>6, <2>1, <2>5 DEF GreetsOwnClient
    <2> QED BY <1>7, <1>8, <1>9, <2>4, <2>6 DEF CInv
<1>11. CASE Greet(i)
    <2>1. /\ i \in greets /\ greets' = greets \ {i} /\ connected' = connected
          /\ \A j \in Ids : clients'[j] =
               IF j = client /\ clients[j].state = "up"
               THEN [clients[j] EXCEPT !.state = "subscribed"] ELSE clients[j]
        BY <1>11 DEF Greet
    <2>2. \A j \in Ids : clients[j].state = "up" => clients[j] \in Records
        BY Alive DEF CInv
    <2>3. \A j \in Ids : clients'[j].state =
               IF j = client /\ clients[j].state = "up" THEN "subscribed"
               ELSE clients[j].state
        BY <2>1, <2>2 DEF Records
    <2>4. FlagIsSound'
        <3>1. \A j \in Ids : clients[j].state \in {"up", "subscribed", "kicked"} =>
                              clients'[j].state \in {"up", "subscribed", "kicked"}
            BY <2>3
        <3>2. \A j \in Ids : Session(clients[j])' => Session(clients[j])
            BY <2>3 DEF Session
        <3>3. connected /\ admin.todo # "clear" =>
                \E j \in Ids : clients[j].state \in {"up", "subscribed", "kicked"}
            BY DEF CInv, FlagIsSound
        <3>4. ~early /\ client # None => (Session(clients[client]) => connected)
            BY DEF CInv, FlagIsSound
        <3>5. (connected /\ admin.todo # "clear" =>
                \E j \in Ids : clients[j].state \in {"up", "subscribed", "kicked"})'
            BY <1>2, <2>1, <3>1, <3>3 DEF Ids
        <3>6. (~early /\ client # None => (Session(clients[client]) => connected))'
            BY <1>2, <1>4, <2>1, <3>2, <3>4
        <3> QED BY <3>5, <3>6 DEF FlagIsSound
    <2>5. GreetsOwnClient'
        <3>1. \A j \in greets' : j \in greets
            BY <2>1
        <3>2. client # None => clients'[client].state # "up"
            BY <1>4, <2>3
        <3> QED BY <1>1, <1>2, <1>5, <3>1, <3>2 DEF GreetsOwnClient
    <2> QED BY <1>7, <1>8, <1>9, <2>4, <2>5 DEF CInv
<1>12. CASE ClientDisconnects(i)
    <2>1. /\ clients' = [clients EXCEPT ![i].state = "down"] /\ i \notin greets
          /\ connected' = FALSE /\ greets' = greets
          /\ clients[i].state # "none"
        BY <1>12 DEF ClientDisconnects
    <2>2. clients[i] \in Records /\ clients \in [Ids -> {NoClient} \cup Records]
        BY <1>6, <2>1, Alive DEF CInv, ClientType
    <2>3. clients'[i].state = "down"
        BY <2>1, <2>2 DEF Records
    <2>4. ~early => client = i
        BY <1>5, <1>6, <2>1
    <2>5. FlagIsSound'
        BY <1>2, <2>1, <2>3, <2>4 DEF FlagIsSound, Session
    <2>6. GreetsOwnClient'
        BY <1>1, <1>2, <1>5, <2>1, <2>3, <2>4 DEF GreetsOwnClient
    <2> QED BY <1>7, <1>8, <1>9, <2>5, <2>6 DEF CInv
<1> QED BY <1>10, <1>11, <1>12

\* The other tasks leave the clients alone; what they change of the publishers
\* and of the task that changes the settings is enough.
LEMMA PublishKeepsClients ==
    ASSUME WifiType, CInv, NEW p \in Publishers, TestHandle(p) \/ UseHandle(p)
    PROVE  CInv'
<1> USE DEF bootVars, hookVars, adminVars, mqttVars
<1>1. UNCHANGED <<power, callback, saved_cfg, clients, client, connected, greets,
                  admin, early, chosen>>
    BY DEF TestHandle, UseHandle
<1>2. \E v \in {"no", "checked", "late"} :
        /\ publish' = [publish EXCEPT ![p] = v]
        /\ v = "checked" => admin.todo = "none" /\ client # None
        /\ v # "no" => power
    BY DEF TestHandle, UseHandle
<1>3. PICK v \in {"no", "checked", "late"} :
        /\ publish' \in [Publishers -> {"no", "checked", "late"}]
        /\ \A q \in Publishers : publish'[q] = IF q = p THEN v ELSE publish[q]
        /\ v = "checked" => admin.todo = "none" /\ client # None
        /\ v # "no" => power
    BY <1>2 DEF CInv, ClientType
<1>4. Living' = Living
    BY <1>1 DEF Living, NoClient, Ids
<1>5. ClientType'
    BY <1>1, <1>3 DEF CInv, ClientType
<1>6. OffInv' /\ HandleInv' /\ OwnInv' /\ BrokerInv'
    BY <1>1, <1>3, <1>4 DEF CInv, OffInv, HandleInv, OwnInv, BrokerInv, Publishers
<1>7. PubInv'
    BY <1>1, <1>3, <1>4 DEF CInv, PubInv, HandleInv, Publishers
<1>8. FlagIsSound'
    BY <1>1 DEF CInv, FlagIsSound, Session, Ids
<1>9. GreetsOwnClient'
    BY <1>1, <1>4 DEF CInv, GreetsOwnClient
<1> QED BY <1>5, <1>6, <1>7, <1>8, <1>9 DEF CInv

-----------------------------------------------------------------------------
(* mqtt_mgr_start, mqtt_mgr_stop and what is between.                       *)

\* A new client, where there was none unless a handle was lost.
LEMMA StartKeepsClients ==
    ASSUME WifiType, CInv, NEW b \in Brokers \cup {None}, MqttStart(b), power' = TRUE,
           ~early => Living = {} /\ client = None,
           ~early => chosen = b,
           ~early => ~callback', admin' \in {Idle, admin}, admin'.todo = "none" \/ early,
           UNCHANGED <<saved_cfg, connected, greets, early, chosen, publish>>,
           admin'.todo = "clear" <=> admin.todo = "clear",
           admin.todo # "none" => \A p \in Publishers : publish[p] # "checked"
    PROVE  CInv'
<1>1. /\ client # None => client \in Ids
      /\ clients \in [Ids -> {NoClient} \cup Records]
      /\ None \notin Ids
    BY Alive DEF CInv, ClientType
<1>2. admin'.todo # "none" => admin' = admin
    BY DEF Idle
<1>3. \/ b = None /\ UNCHANGED <<clients, client>>
      \/ /\ b \in Brokers
         /\ clients' \in [Ids -> {NoClient} \cup Records]
         /\ client' \in Ids \ Living
         /\ clients'[client'] = [broker |-> b, state |-> "down"]
         /\ \A i \in Ids : i # client' => clients'[i] = clients[i]
         /\ Living' = Living \cup {client'}
    BY StartEffect DEF CInv
<1>4. ClientType'
    BY <1>3 DEF CInv, ClientType
<1>5. OffInv'
    BY DEF OffInv
<1>6. CASE b = None /\ UNCHANGED <<clients, client>>
    <2>1. Living' = Living
        BY <1>6 DEF Living, NoClient, Ids
    <2>2. HandleInv' /\ OwnInv' /\ PubInv' /\ BrokerInv'
        BY <1>2, <1>6, <2>1 DEF CInv, HandleInv, OwnInv, PubInv, BrokerInv, Idle
    <2>3. FlagIsSound'
        BY <1>6 DEF CInv, FlagIsSound, Session, Ids
    <2>4. GreetsOwnClient'
        BY <1>6, <2>1 DEF CInv, GreetsOwnClient
    <2> QED BY <1>4, <1>5, <2>2, <2>3, <2>4 DEF CInv
<1>7. CASE /\ b \in Brokers
           /\ client' \in Ids \ Living
           /\ clients'[client'] = [broker |-> b, state |-> "down"]
           /\ \A i \in Ids : i # client' => clients'[i] = clients[i]
           /\ Living' = Living \cup {client'}
    <2>1. /\ clients'[client'].state = "down" /\ clients'[client'].broker = b
          /\ b # None /\ client' # None
        BY <1>1, <1>7, NetAssumption
    <2>2. clients[client'].state = "none"
        BY <1>7, Alive DEF CInv
    <2>3. HandleInv' /\ OwnInv' /\ PubInv'
        BY <1>2, <1>7 DEF CInv, HandleInv, OwnInv, PubInv, Idle
    <2>4. BrokerInv'
        BY <1>2, <2>1 DEF CInv, BrokerInv, Idle
    <2>5. FlagIsSound'
        <3>1. ASSUME connected', admin'.todo # "clear"
              PROVE  \E i \in Ids : clients'[i].state \in {"up", "subscribed", "kicked"}
            <4>1. PICK i \in Ids : clients[i].state \in {"up", "subscribed", "kicked"}
                BY <3>1 DEF CInv, FlagIsSound
            <4>2. i # client'
                BY <2>2, <4>1
            <4> QED BY <1>7, <4>1, <4>2
        <3> QED BY <2>1, <3>1 DEF FlagIsSound, Session, Ids
    <2>6. GreetsOwnClient'
        BY <2>1 DEF CInv, GreetsOwnClient
    <2> QED BY <1>4, <1>5, <2>3, <2>4, <2>5, <2>6 DEF CInv
<1> QED BY <1>3, <1>6, <1>7

LEMMA HandleIpKeepsClients ==
    ASSUME WifiType, CInv, HandleIp
    PROVE  CInv'
<1> USE DEF bootVars, adminVars
<1>1. /\ power /\ callback' = FALSE
      /\ IF callback THEN OnWifiConnected ELSE UNCHANGED <<scanner, clients, client>>
      /\ UNCHANGED <<power, saved_cfg, connected, greets, admin, early, chosen, publish>>
    BY DEF HandleIp, TakeEvent
<1>2. CASE ~callback
    BY <1>1, <1>2, WifiElsewhere DEF clientVars, mqttVars, WifiType
<1>3. CASE callback
    <2>1. MqttStart(saved_cfg.broker) /\ saved_cfg.broker \in Brokers \cup {None}
        BY <1>1, <1>3 DEF OnWifiConnected, CInv, ClientType, Settings
    <2>2. /\ ~early => Living = {} /\ client = None /\ admin = Idle
          /\ ~early => chosen = saved_cfg.broker
          /\ admin.todo # "none" => \A p \in Publishers : publish[p] # "checked"
        BY <1>3 DEF CInv, OwnInv, BrokerInv, PubInv
    <2>3. admin'.todo = "none" \/ early
        BY <1>1, <2>2 DEF Idle
    <2> QED BY <1>1, <2>1, <2>2, <2>3, StartKeepsClients DEF WifiType
<1> QED BY <1>2, <1>3

LEMMA MqttRestartKeepsClients ==
    ASSUME WifiType, CInv, MqttRestart
    PROVE  CInv'
<1>1. /\ admin.todo = "start" /\ MqttStart(admin.broker) /\ admin' = Idle
      /\ UNCHANGED <<power, callback, saved_cfg, connected, greets, early, chosen, publish>>
    BY DEF MqttRestart, bootVars, hookVars
<1>2. admin.broker \in Brokers \cup {None}
    BY DEF CInv, ClientType, Idle, Pending
<1>3. power
    BY <1>1 DEF CInv, OffInv, Idle, WifiType
<1>4. /\ ~early => Living = {} /\ client = None /\ ~callback
      /\ chosen = admin.broker
      /\ \A p \in Publishers : publish[p] # "checked"
    BY <1>1 DEF CInv, OwnInv, BrokerInv, PubInv, Idle
<1>5. admin'.todo = "none"
    BY <1>1 DEF Idle
<1>6. power' = TRUE /\ (~early => ~callback')
    BY <1>1, <1>3, <1>4 DEF WifiType
<1> QED BY <1>1, <1>2, <1>4, <1>5, <1>6, StartKeepsClients

\* The client is destroyed before the handle and the flag are reset.
LEMMA MqttStopKeepsClients ==
    ASSUME WifiType, CInv, MqttStop
    PROVE  CInv'
<1> USE DEF bootVars, hookVars
<1>1. /\ admin.todo = "stop" /\ client \notin greets
      /\ clients' = [i \in Ids |-> IF i = client THEN NoClient ELSE clients[i]]
      /\ admin' = [admin EXCEPT !.todo = IF client = None THEN "start" ELSE "clear"]
      /\ UNCHANGED <<power, callback, saved_cfg, client, connected, greets, early,
                     chosen, publish>>
    BY DEF MqttStop
<1>2. admin \in Pending
    BY <1>1 DEF CInv, ClientType, Idle
<1>3. /\ admin' \in Pending /\ admin'.broker = admin.broker
      /\ admin'.todo = IF client = None THEN "start" ELSE "clear"
    BY <1>1, <1>2 DEF Pending
<1>4. power
    BY <1>1 DEF CInv, OffInv, Idle, WifiType
<1>5. Living' = Living \ {client}
    BY <1>1 DEF Living, NoClient, Ids
<1>6. ClientType'
    BY <1>1, <1>3 DEF CInv, ClientType
<1>7. ~early => Living' = {} /\ ~callback
    BY <1>1, <1>5 DEF CInv, OwnInv, Idle
<1>8. OffInv' /\ HandleInv' /\ OwnInv'
    BY <1>1, <1>3, <1>4, <1>5, <1>7 DEF OffInv, HandleInv, OwnInv
<1>9. \A p \in Publishers : publish[p] # "checked"
    BY <1>1 DEF CInv, PubInv
<1>10. PubInv' /\ BrokerInv'
    BY <1>1, <1>3, <1>7, <1>9 DEF CInv, PubInv, BrokerInv
<1>11. FlagIsSound'
    <2>1. client = None => clients' = clients
        BY <1>1, Alive DEF CInv, ClientType
    <2>2. client # None => clients'[client].state = "none" /\ admin'.todo = "clear"
        BY <1>1, <1>3 DEF CInv, ClientType, NoClient
    <2> QED BY <1>1, <1>3, <2>1, <2>2 DEF CInv, FlagIsSound, Session, Ids
<1>12. GreetsOwnClient'
    <2>1. client # None => clients'[client].state = "none"
        BY <1>1 DEF CInv, ClientType, NoClient
    <2> QED BY <1>1, <1>5, <2>1 DEF CInv, GreetsOwnClient
<1> QED BY <1>6, <1>8, <1>10, <1>11, <1>12 DEF CInv

LEMMA MqttClearKeepsClients ==
    ASSUME WifiType, CInv, MqttClear
    PROVE  CInv'
<1> USE DEF bootVars, hookVars
<1>1. /\ admin.todo = "clear" /\ client' = None /\ connected' = FALSE
      /\ admin' = [admin EXCEPT !.todo = "start"]
      /\ UNCHANGED <<power, callback, saved_cfg, clients, greets, early, chosen, publish>>
    BY DEF MqttClear
<1>2. admin \in Pending
    BY <1>1 DEF CInv, ClientType, Idle
<1>3. admin' \in Pending /\ admin'.broker = admin.broker /\ admin'.todo = "start"
    BY <1>1, <1>2 DEF Pending
<1>4. power
    BY <1>1 DEF CInv, OffInv, Idle, WifiType
<1>5. Living' = Living
    BY <1>1 DEF Living, NoClient, Ids
<1>6. ClientType'
    BY <1>1, <1>3 DEF CInv, ClientType
<1>7. ~early => Living = {} /\ ~callback
    BY <1>1 DEF CInv, OwnInv, Idle
<1>8. OffInv' /\ HandleInv' /\ OwnInv'
    BY <1>1, <1>3, <1>4, <1>5, <1>7 DEF OffInv, HandleInv, OwnInv
<1>9. \A p \in Publishers : publish[p] # "checked"
    BY <1>1 DEF CInv, PubInv
<1>10. PubInv' /\ BrokerInv'
    BY <1>1, <1>3, <1>7, <1>9 DEF CInv, PubInv, BrokerInv
<1>11. FlagIsSound'
    BY <1>1 DEF FlagIsSound
<1>12. GreetsOwnClient'
    BY <1>1, <1>7 DEF CInv, GreetsOwnClient
<1> QED BY <1>6, <1>8, <1>10, <1>11, <1>12 DEF CInv

LEMMA SettingsKeepClients ==
    ASSUME WifiType, CInv, Admin
    PROVE  CInv'
<1>1. CASE HandleWifiPost \/ CmdWifiConnect \/ NvsClear
    <2>1. UNCHANGED clientVars
        BY <1>1 DEF HandleWifiPost, CmdWifiConnect, NvsClear, clientVars, bootVars, hookVars
    <2> QED BY <2>1, WifiElsewhere
<1>2. CASE HandleMqttPost \/ CmdMqttConnect
    BY <1>2, ChangeKeepsClients DEF HandleMqttPost, CmdMqttConnect
<1> QED BY <1>1, <1>2, MqttStopKeepsClients, MqttClearKeepsClients,
           MqttRestartKeepsClients DEF Admin

LEMMA ClientsInductive == WifiType /\ CInv /\ [Next]_vars => CInv'
<1> SUFFICES ASSUME WifiType, CInv, [Next]_vars PROVE CInv'
    OBVIOUS
<1>1. CASE Driver \/ HandleDown \/ TimerFires \/ UNCHANGED vars
    <2>1. UNCHANGED clientVars
        BY <1>1 DEF Driver, Associates, LinkLost, HandleDown, TimerFires, nonWifi,
                    clientVars, bootVars, hookVars, vars
    <2> QED BY <2>1, WifiElsewhere
<1>2. CASE Mqtt
    BY <1>2, TasksKeepClients DEF Mqtt
<1>3. CASE Publish
    BY <1>3, PublishKeepsClients DEF Publish
<1> QED BY <1>1, <1>2, <1>3, BootKeepsClients, RestartKeepsClients,
           HandleIpKeepsClients, SettingsKeepClients DEF Next, EventLoop

-----------------------------------------------------------------------------
(* The theorems.                                                            *)

\* The invariant of the MQTT half holds in every state of the gateway.
THEOREM ClientsInvariance == Spec => [](WifiType /\ CInv)
<1>1. IInv => WifiType
    BY DEF IInv
<1> QED BY <1>1, Invariance, PowerInitially, ClientsInductive, PTL DEF Spec

\* All variables of the gateway's network side keep their types.
THEOREM TypeCorrect == Spec => []TypeOK
<1>1. WifiType /\ CInv => TypeOK
    BY DEF WifiType, CInv, ClientType, TypeOK, Records, Pending
<1> QED BY <1>1, ClientsInvariance, PTL

\* mqtt_mgr.c tests the handle "client" and uses it without a lock: a publish uses
\* a client that still exists unless the broker was changed in between, and the
\* task of a client finds itself behind the handle unless one was lost.
THEOREM HandlesAreSafe == Spec => []HandleIsSafe
<1>1. CInv => HandleIsSafe
    BY DEF CInv, PubInv, HandleIsSafe, PublishFindsClient
<1> QED BY <1>1, ClientsInvariance, PTL

\* "connected" of mqtt_mgr.c, which all clients set, is true only with some client
\* connected or about to report otherwise, and true while the one behind the
\* handle is.
THEOREM FlagIsTrue == Spec => []FlagIsSound
<1>1. CInv => FlagIsSound
    BY DEF CInv
<1> QED BY <1>1, ClientsInvariance, PTL

\* However often Wi-Fi comes back and the broker is changed, the gateway has one
\* client, of the broker chosen last, or none if that is none, whether or not the
\* choice could be saved, unless the broker was changed before the start was
\* complete (on_wifi_connected, mqtt_mgr_reconfigure).
THEOREM OneClient == Spec => []OneClientOneBroker
<1>1. ASSUME WifiType, CInv PROVE OneClientOneBroker
    <2> SUFFICES ASSUME ~early, admin.todo = "none", ~callback
                 PROVE  /\ Cardinality(Living) <= 1
                        /\ client # None <=> chosen # None
                        /\ client # None => clients[client].broker = chosen
        BY DEF OneClientOneBroker
    <2>1. Living = {} \/ Living = {client}
        BY <1>1 DEF CInv, OwnInv
    <2>2. Cardinality({}) = 0 /\ Cardinality({client}) = 1
        BY FS_EmptySet, FS_Singleton
    <2>3. Cardinality(Living) <= 1
        BY <2>1, <2>2
    <2> QED BY <1>1, <2>3 DEF CInv, BrokerInv
<1> QED BY <1>1, ClientsInvariance, PTL
=============================================================================
