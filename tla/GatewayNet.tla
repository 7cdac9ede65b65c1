------------------------------ MODULE GatewayNet ------------------------------
(***************************************************************************)
(* The network side of the gateway: Wi-Fi with its reconnect timer         *)
(* (gateway/main/wifi_mgr.c), the MQTT client (mqtt_mgr.c), the settings   *)
(* (nvs_config.c), the start (main.c) and the two ways to change the       *)
(* settings, the web page (web_server.c) and the console (cli.c).          *)
(*                                                                         *)
(* Five tasks share the statics "client" and "connected" without a lock:   *)
(* the event loop (Wi-Fi events), the task of each MQTT client (its        *)
(* events), the task that changes the settings, and the two that publish,  *)
(* of the BLE scanner and of the timer for the status.                     *)
(***************************************************************************)
EXTENDS Integers, SequencesExt

CONSTANTS
    Brokers, None,
    MaxClients,     \* bound on the MQTT clients alive at once
    MaxEvents       \* bound on the Wi-Fi events waiting

ASSUME NetAssumption ==
    /\ None \notin Brokers /\ None \notin 1 .. MaxClients
    /\ MaxClients \in Nat /\ MaxEvents \in Nat

VARIABLES
    power,      \* the gateway runs
    nvs,        \* the settings in flash
    saved_cfg,  \* the settings as they were at boot
    sta,        \* the station: idle, connecting, up
    ssidSet,    \* the driver has an SSID
    events,     \* Wi-Fi events not yet handled
    timer,      \* reconnect_timer is running
    online,     \* WIFI_CONNECTED_BIT, with ip_str
    callback,   \* on_connect_cb is on_wifi_connected
    scanner,    \* ble_scanner_init was called, so many times
    clients,    \* the MQTT clients that exist
    client,     \* the handle: one of them, or None
    connected,  \* connected
    greets,     \* the clients whose task is in the handler of CONNECTED
    publish,    \* per publisher, mqtt_mgr_publish_...: "no", "checked" between
                \* its test of the handle and its use, "late" if a change of
                \* the broker overtook it there
    admin,      \* what the task that changes the settings has left to do
    early,      \* history: in this boot the broker was changed with
                \* on_wifi_connected still to run
    chosen      \* history: the broker chosen last in this boot, at first the
                \* one of the settings, which the start takes only with Wi-Fi

wifiVars == <<sta, ssidSet, events, timer, online>>
mqttVars == <<clients, client, connected, greets>>
bootVars == <<power, saved_cfg>>
hookVars == <<callback, scanner>>
adminVars == <<admin, early, chosen>>
vars == <<bootVars, nvs, wifiVars, hookVars, mqttVars, adminVars, publish>>

\* What the Wi-Fi driver and its events leave alone, and what the clients do.
nonWifi == <<bootVars, nvs, hookVars, mqttVars, adminVars, publish>>
nonMqtt == <<bootVars, nvs, wifiVars, hookVars, adminVars, publish>>

Ids == 1 .. MaxClients
Publishers == {"scanner", "status_timer"}
Settings == [wifi : BOOLEAN, broker : Brokers \cup {None}]
NoClient == [broker |-> None, state |-> "none"]
Idle == [todo |-> "none", broker |-> None]

TypeOK ==
    /\ power \in BOOLEAN /\ ssidSet \in BOOLEAN /\ timer \in BOOLEAN
    /\ online \in BOOLEAN
    /\ callback \in BOOLEAN /\ connected \in BOOLEAN /\ early \in BOOLEAN
    /\ nvs \in Settings /\ saved_cfg \in Settings
    /\ sta \in {"idle", "connecting", "up"}
    /\ events \in Seq({"start", "down", "ip"})
    /\ scanner \in Nat
    /\ clients \in [Ids -> {NoClient} \cup
                    [broker : Brokers, state : {"down", "up", "subscribed", "kicked"}]]
    /\ client \in Ids \cup {None}
    /\ greets \in SUBSET Ids
    /\ publish \in [Publishers -> {"no", "checked", "late"}]
    /\ admin \in {Idle} \cup [todo : {"stop", "clear", "start"},
                            broker : Brokers \cup {None}]
    /\ chosen \in Brokers \cup {None}

Off ==
    /\ power' = FALSE
    /\ sta' = "idle" /\ ssidSet' = FALSE /\ events' = <<>> /\ timer' = FALSE
    /\ online' = FALSE
    /\ callback' = FALSE /\ scanner' = 0
    /\ clients' = [i \in Ids |-> NoClient] /\ client' = None
    /\ connected' = FALSE /\ greets' = {}
    /\ publish' = [p \in Publishers |-> "no"]
    /\ admin' = Idle /\ early' = FALSE /\ chosen' = None

Empty == [wifi |-> FALSE, broker |-> None]

\* The first power-up of a gateway without settings.
Init ==
    /\ power = FALSE
    /\ nvs = Empty /\ saved_cfg = Empty
    /\ sta = "idle" /\ ssidSet = FALSE /\ events = <<>> /\ timer = FALSE
    /\ online = FALSE
    /\ callback = FALSE /\ scanner = 0
    /\ clients = [i \in Ids |-> NoClient] /\ client = None
    /\ connected = FALSE /\ greets = {}
    /\ publish = [p \in Publishers |-> "no"]
    /\ admin = Idle /\ early = FALSE /\ chosen = None

-----------------------------------------------------------------------------
(* app_main.  It is done before the reconnect timer fires for the first     *)
(* time, two seconds after the station has started.                         *)

\* nvs_config_init erases a flash it cannot use.
NvsInit == nvs' \in {nvs, Empty}

\* nvs_config_load takes what it can read.
Load == saved_cfg' \in [wifi : {FALSE, nvs'.wifi}, broker : {None, nvs'.broker}]

\* wifi_mgr_init: the driver announces that the station has started.
WifiInit(named) ==
    /\ ssidSet' = named
    /\ events' = <<"start">>
    /\ UNCHANGED <<sta, timer, online>>

Boot ==
    /\ ~power
    /\ power' = TRUE
    /\ NvsInit /\ Load
    /\ WifiInit(saved_cfg'.wifi)
    /\ callback' = saved_cfg'.wifi
    /\ scanner' = IF saved_cfg'.wifi THEN 0 ELSE 1
    /\ chosen' = IF saved_cfg'.wifi THEN saved_cfg'.broker ELSE None
    /\ UNCHANGED <<mqttVars, admin, early, publish>>

\* A restart from the page or the console, or a power loss.
Restart == power /\ Off /\ UNCHANGED <<nvs, saved_cfg>>

-----------------------------------------------------------------------------
(* The Wi-Fi driver.                                                        *)

Room == Len(events) < MaxEvents

Associates ==
    /\ sta = "connecting" /\ Room
    /\ sta' = "up"
    /\ events' = Append(events, "ip")
    /\ UNCHANGED <<nonWifi, ssidSet, timer, online>>

\* The association failed, or the access point went away.
LinkLost ==
    /\ sta # "idle" /\ Room
    /\ sta' = "idle"
    /\ events' = Append(events, "down")
    /\ UNCHANGED <<nonWifi, ssidSet, timer, online>>

-----------------------------------------------------------------------------
(* wifi_mgr: the event handler and the timer.                               *)

\* The event loop takes the oldest event.
TakeEvent == power /\ events # <<>> /\ events' = Tail(events)

\* Variant: only STA_START starts the timer.
HandleDownOnce ==
    /\ TakeEvent
    /\ Head(events) \in {"start", "down"}
    /\ timer' = (timer \/ Head(events) = "start")
    /\ online' = (online /\ Head(events) = "start")
    /\ UNCHANGED <<nonWifi, sta, ssidSet>>

\* Variant: the bit stays set.
HandleDownKeepsBit ==
    /\ TakeEvent
    /\ Head(events) \in {"start", "down"}
    /\ timer' = TRUE
    /\ UNCHANGED <<nonWifi, sta, ssidSet, online>>

\* STA_START and STA_DISCONNECTED start the timer, the latter clears the bit.
\* Assumed: the queue of the timer task has room, else xTimerStart fails unseen.
HandleDown ==
    /\ TakeEvent
    /\ Head(events) \in {"start", "down"}
    /\ timer' = TRUE
    /\ online' = (online /\ Head(events) = "start")
    /\ UNCHANGED <<nonWifi, sta, ssidSet>>

\* esp_wifi_connect does nothing without an SSID or when not idle.
TimerFires ==
    /\ power /\ timer
    /\ timer' = FALSE
    /\ sta' = IF sta = "idle" /\ ssidSet THEN "connecting" ELSE sta
    /\ UNCHANGED <<nonWifi, ssidSet, events, online>>

Unused == {i \in Ids : clients[i] = NoClient}
Least(S) == CHOOSE i \in S : \A j \in S : i <= j

\* Variant: the test for an empty broker is missing.
MqttStartAny(broker) ==
    /\ Unused # {}
    /\ clients' = [clients EXCEPT ![Least(Unused)] =
                       [broker |-> broker, state |-> "down"]]
    /\ client' = Least(Unused)

\* mqtt_mgr_start: the handle is overwritten, whatever it held.
MqttStart(broker) ==
    IF broker = None
    THEN UNCHANGED <<clients, client>>
    ELSE /\ Unused # {}
         /\ clients' = [clients EXCEPT ![Least(Unused)] =
                            [broker |-> broker, state |-> "down"]]
         /\ client' = Least(Unused)

\* on_wifi_connected: with the settings of the boot.
OnWifiConnected ==
    /\ scanner' = scanner + 1
    /\ MqttStart(saved_cfg.broker)

\* Variant: the callback is kept.
HandleIpAgain ==
    /\ TakeEvent
    /\ Head(events) = "ip"
    /\ online' = TRUE
    /\ IF callback THEN OnWifiConnected ELSE UNCHANGED <<scanner, clients, client>>
    /\ UNCHANGED <<bootVars, nvs, sta, ssidSet, timer, callback, connected, greets,
                   adminVars, publish>>

\* STA_GOT_IP: the callback runs once per boot.  It is one step: nobody changes
\* the settings in the middle of it.
HandleIp ==
    /\ TakeEvent
    /\ Head(events) = "ip"
    /\ online' = TRUE
    /\ IF callback THEN OnWifiConnected ELSE UNCHANGED <<scanner, clients, client>>
    /\ callback' = FALSE
    /\ UNCHANGED <<bootVars, nvs, sta, ssidSet, timer, connected, greets, adminVars,
                   publish>>

-----------------------------------------------------------------------------
(* The MQTT clients: each has its own task and reconnects for ever; all     *)
(* set the same flag.  They share a client id, so a broker keeps the last   *)
(* of them.                                                                 *)

Session(c) == c.state \in {"up", "subscribed"}

ClientConnects(i) ==
    /\ sta = "up"
    /\ clients[i].state = "down"
    /\ clients' = [j \in Ids |->
         IF j = i THEN [clients[j] EXCEPT !.state = "up"]
         ELSE IF clients[j].broker = clients[i].broker /\ Session(clients[j])
         THEN [clients[j] EXCEPT !.state = "kicked"]
         ELSE clients[j]]
    /\ connected' = TRUE
    /\ greets' = greets \cup {i}
    /\ UNCHANGED <<nonMqtt, client>>

\* Variant: CONNECTED does not subscribe.
GreetSilently(i) ==
    /\ i \in greets
    /\ greets' = greets \ {i}
    /\ UNCHANGED <<nonMqtt, clients, client, connected>>

\* The rest of CONNECTED: it subscribes by the handle, whose client need not be
\* the one that has connected, and publishes the status.
Greet(i) ==
    /\ i \in greets
    /\ greets' = greets \ {i}
    /\ clients' = [j \in Ids |->
         IF j = client /\ clients[j].state = "up"
         THEN [clients[j] EXCEPT !.state = "subscribed"] ELSE clients[j]]
    /\ UNCHANGED <<nonMqtt, client, connected>>

\* Variant: the flag tells only that a client has connected once.
ClientDisconnectsUnseen(i) ==
    /\ i \notin greets
    /\ clients[i].state \in {"up", "subscribed", "kicked"}
    /\ clients' = [clients EXCEPT ![i].state = "down"]
    /\ UNCHANGED <<nonMqtt, client, connected, greets>>

ClientDisconnects(i) ==
    /\ i \notin greets
    /\ clients[i].state \in {"up", "subscribed", "kicked"}
    /\ clients' = [clients EXCEPT ![i].state = "down"]
    /\ connected' = FALSE
    /\ UNCHANGED <<nonMqtt, client, greets>>

-----------------------------------------------------------------------------
(* mqtt_mgr_publish_event and _seen of the scanner, once it runs, and       *)
(* mqtt_mgr_publish_status of the timer.                                    *)

TestHandle(p) ==
    /\ power /\ publish[p] = "no"
    /\ p = "scanner" => scanner > 0
    /\ client # None /\ connected
    /\ publish' = [publish EXCEPT
                      ![p] = IF admin.todo = "none" THEN "checked" ELSE "late"]
    /\ UNCHANGED <<bootVars, nvs, wifiVars, hookVars, mqttVars, adminVars>>

UseHandle(p) ==
    /\ publish[p] # "no"
    /\ publish' = [publish EXCEPT ![p] = "no"]
    /\ UNCHANGED <<bootVars, nvs, wifiVars, hookVars, mqttVars, adminVars>>

-----------------------------------------------------------------------------
(* The settings, from the web page or the console: one person at a time.    *)

Ready == power /\ admin.todo = "none"

\* nvs_config_save_wifi and nvs_config_save_mqtt may fail and tell nobody.
SaveWifi(named) == nvs' \in {nvs, [nvs EXCEPT !.wifi = named]}
SaveMqtt(broker) == nvs' \in {nvs, [nvs EXCEPT !.broker = broker]}

\* wifi_mgr_connect disconnects, sets the SSID, connects.
WifiConnect(named) ==
    /\ Room
    /\ ssidSet' = named
    /\ sta' = IF named THEN "connecting" ELSE "idle"
    /\ events' = IF sta = "idle" THEN events ELSE Append(events, "down")
    /\ UNCHANGED <<timer, online>>

\* The page refuses an empty SSID.
HandleWifiPost ==
    /\ Ready
    /\ SaveWifi(TRUE) /\ WifiConnect(TRUE)
    /\ UNCHANGED <<bootVars, hookVars, mqttVars, adminVars, publish>>

\* The console saves an empty SSID and goes offline.
CmdWifiConnect ==
    /\ Ready
    /\ \E named \in BOOLEAN : SaveWifi(named) /\ WifiConnect(named)
    /\ UNCHANGED <<bootVars, hookVars, mqttVars, adminVars, publish>>

\* The settings are saved or not, then mqtt_mgr_reconfigure is called.
ChangeBroker(broker) ==
    /\ Ready
    /\ SaveMqtt(broker)
    /\ admin' = [todo |-> "stop", broker |-> broker]
    /\ early' = (early \/ callback)
    /\ chosen' = broker
    /\ publish' = [p \in Publishers |->
                      IF publish[p] = "no" THEN "no" ELSE "late"]
    /\ UNCHANGED <<bootVars, wifiVars, hookVars, mqttVars>>

\* The page refuses an empty broker.
HandleMqttPost == \E b \in Brokers : ChangeBroker(b)

\* The console saves it and stops the client.
CmdMqttConnect == \E b \in Brokers \cup {None} : ChangeBroker(b)

\* Variant: the old client is not destroyed.
MqttStopForgets ==
    /\ admin.todo = "stop"
    /\ client \notin greets
    /\ admin' = [admin EXCEPT !.todo = IF client = None THEN "start" ELSE "clear"]
    /\ UNCHANGED <<bootVars, nvs, wifiVars, hookVars, mqttVars, early, chosen, publish>>

\* Variant: the client is destroyed without waiting for its task.
MqttStopAtOnce ==
    /\ admin.todo = "stop"
    /\ clients' = [i \in Ids |-> IF i = client THEN NoClient ELSE clients[i]]
    /\ admin' = [admin EXCEPT !.todo = IF client = None THEN "start" ELSE "clear"]
    /\ UNCHANGED <<bootVars, nvs, wifiVars, hookVars, client, connected, greets,
                   early, chosen, publish>>

\* mqtt_mgr_stop: the client is stopped, which waits for its task, and
\* destroyed.
MqttStop ==
    /\ admin.todo = "stop"
    /\ client \notin greets
    /\ clients' = [i \in Ids |-> IF i = client THEN NoClient ELSE clients[i]]
    /\ admin' = [admin EXCEPT !.todo = IF client = None THEN "start" ELSE "clear"]
    /\ UNCHANGED <<bootVars, nvs, wifiVars, hookVars, client, connected, greets,
                   early, chosen, publish>>

\* Variant: the flag is not reset.
MqttClearKeepsFlag ==
    /\ admin.todo = "clear"
    /\ client' = None
    /\ admin' = [admin EXCEPT !.todo = "start"]
    /\ UNCHANGED <<bootVars, nvs, wifiVars, hookVars, clients, connected, greets,
                   early, chosen, publish>>

\* Only then are the handle and the flag reset.
MqttClear ==
    /\ admin.todo = "clear"
    /\ client' = None /\ connected' = FALSE
    /\ admin' = [admin EXCEPT !.todo = "start"]
    /\ UNCHANGED <<bootVars, nvs, wifiVars, hookVars, clients, greets, early, chosen,
                   publish>>

MqttRestart ==
    /\ admin.todo = "start"
    /\ MqttStart(admin.broker)
    /\ admin' = Idle
    /\ UNCHANGED <<bootVars, nvs, wifiVars, hookVars, connected, greets, early, chosen,
                   publish>>

\* nvs_clear of the console takes effect at the next start, if at all.
NvsClear ==
    /\ Ready
    /\ nvs' \in {nvs, Empty}
    /\ UNCHANGED <<bootVars, wifiVars, hookVars, mqttVars, adminVars, publish>>

-----------------------------------------------------------------------------
Driver == Associates \/ LinkLost
EventLoop == HandleDown \/ HandleIp
Mqtt == \E i \in Ids : ClientConnects(i) \/ Greet(i) \/ ClientDisconnects(i)
Publish == \E p \in Publishers : TestHandle(p) \/ UseHandle(p)
Admin ==
    \/ HandleWifiPost \/ CmdWifiConnect
    \/ HandleMqttPost \/ CmdMqttConnect
    \/ MqttStop \/ MqttClear \/ MqttRestart \/ NvsClear

Next == Boot \/ Restart \/ Driver \/ EventLoop \/ TimerFires \/ Mqtt \/ Publish
        \/ Admin

Spec == Init /\ [][Next]_vars

-----------------------------------------------------------------------------
(* Properties.                                                              *)

\* The gateway never stops trying: with an SSID and no connection under way,
\* the reconnect timer runs or the event that starts it is waiting, although
\* the timer is a one-shot and a new SSID may be set at any moment.
WifiKeepsTrying ==
    power /\ ssidSet /\ sta = "idle" =>
        timer \/ \E i \in DOMAIN events : events[i] \in {"start", "down"}

\* Of the events that wait, the last one about a link.
IsLastLink(i) ==
    events[i] # "start" /\ \A j \in DOMAIN events : j > i => events[j] = "start"

\* What the page and the console say of Wi-Fi is the state of the station as soon
\* as the events that wait are handled, in whatever order links were lost,
\* regained and reconfigured.
StatusIsCurrent ==
    /\ (\A i \in DOMAIN events : events[i] = "start") => (sta = "up" <=> online)
    /\ \A i \in DOMAIN events : IsLastLink(i) => (sta = "up" <=> events[i] = "ip")

\* ble_scanner_init is called once per boot, however often Wi-Fi comes back.
ScannerStartsOnce == scanner <= 1

\* The flag behind mqtt_mgr_is_connected and the guard of every publish, which
\* all clients set: some client is connected, or the event that clears the flag
\* is on its way; and unless the handle of a client was lost, the flag is set
\* while the client of the handle is connected, so that events are published.
FlagIsSound ==
    /\ connected /\ admin.todo # "clear" =>
         \E i \in Ids : clients[i].state \in {"up", "subscribed", "kicked"}
    /\ ~early /\ client # None => (Session(clients[client]) => connected)

Living == {i \in Ids : clients[i] # NoClient}

\* Unless the handle of a client was lost, the task that handles CONNECTED finds
\* its own client behind the handle, however the broker is changed meanwhile, and
\* a client that is connected and takes no commands is about to subscribe.
GreetsOwnClient ==
    ~early =>
        /\ \A i \in greets : client = i /\ i \in Living
        /\ client # None /\ clients[client].state = "up" => client \in greets

\* A publish that tested the handle uses a client that still exists, whatever
\* Wi-Fi, brokers and restarts do, unless the broker was changed in between.
PublishFindsClient ==
    \A p \in Publishers : publish[p] = "checked" => client \in Living

HandleIsSafe == GreetsOwnClient /\ PublishFindsClient

\* Unless a broker was chosen before the start was complete, the gateway has one
\* client, of the broker chosen last, or none if that is none, however often it is
\* changed while clients connect, publish and lose the link, and whether or not
\* the choice could be saved.
OneClientOneBroker ==
    ~early /\ admin.todo = "none" /\ ~callback =>
        /\ Cardinality(Living) <= 1
        /\ client # None <=> chosen # None
        /\ client # None => clients[client].broker = chosen
=============================================================================
