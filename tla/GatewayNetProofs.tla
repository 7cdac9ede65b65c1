--------------------------- MODULE GatewayNetProofs ---------------------------
(***************************************************************************)
(* Theorems about the Wi-Fi half of GatewayNet, for any brokers and every  *)
(* bound on clients and events.                                            *)
(***************************************************************************)
EXTENDS GatewayNet, TLAPS

\* The types of what Wi-Fi and the start of the gateway work with.
WifiType ==
    /\ power \in BOOLEAN /\ ssidSet \in BOOLEAN /\ timer \in BOOLEAN
    /\ online \in BOOLEAN /\ callback \in BOOLEAN
    /\ nvs \in Settings
    /\ sta \in {"idle", "connecting", "up"}
    /\ events \in Seq({"start", "down", "ip"})
    /\ scanner \in Nat

\* While the callback is registered, the scanner has not been started.
StartInv == (callback => scanner = 0) /\ ScannerStartsOnce

IInv == WifiType /\ WifiKeepsTrying /\ StartInv

\* What wakes the reconnect timer waits in a sequence of events.
Waits(s) == \E i \in DOMAIN s : s[i] \in {"start", "down"}

\* An event that waits is still there when another one is appended, and when
\* one of another kind is taken.
LEMMA WaitsOn ==
  ASSUME NEW s \in Seq({"start", "down", "ip"}), NEW e \in {"start", "down", "ip"}
  PROVE  /\ Append(s, e) \in Seq({"start", "down", "ip"})
         /\ Waits(s) \/ e # "ip" => Waits(Append(s, e))
<1>1. /\ Len(s) \in Nat /\ DOMAIN s = 1 .. Len(s)
      /\ DOMAIN Append(s, e) = 1 .. Len(s) + 1
      /\ \A i \in 1 .. Len(s) : Append(s, e)[i] = s[i]
      /\ Append(s, e)[Len(s) + 1] = e
  BY SMT
<1>2. CASE Waits(s)
  <2>1. PICK i \in DOMAIN s : s[i] \in {"start", "down"}
    BY <1>2 DEF Waits
  <2>2. i \in DOMAIN Append(s, e) /\ Append(s, e)[i] = s[i]
    BY <1>1, SMT
  <2> QED BY <2>1, <2>2, SMT DEF Waits
<1>3. CASE e # "ip"
  <2>1. Len(s) + 1 \in DOMAIN Append(s, e)
    BY <1>1, SMT
  <2>2. Append(s, e)[Len(s) + 1] \in {"start", "down"}
    BY <1>1, <1>3
  <2> QED BY <2>1, <2>2, SMT DEF Waits
<1> QED BY <1>2, <1>3, SMT

LEMMA WaitsBehind ==
  ASSUME NEW s \in Seq({"start", "down", "ip"}), s # <<>>
  PROVE  /\ Tail(s) \in Seq({"start", "down", "ip"})
         /\ Head(s) = "ip" /\ Waits(s) => Waits(Tail(s))
<1>1. /\ Len(s) \in Nat /\ DOMAIN s = 1 .. Len(s)
      /\ DOMAIN Tail(s) = 1 .. Len(s) - 1
      /\ \A i \in 1 .. Len(s) - 1 : Tail(s)[i] = s[i + 1]
      /\ Head(s) = s[1]
  BY SMT
<1>2. ASSUME Head(s) = "ip", Waits(s) PROVE Waits(Tail(s))
  <2>1. PICK i \in DOMAIN s : s[i] \in {"start", "down"}
    BY <1>2 DEF Waits
  <2>2. i # 1
    BY <1>1, <1>2, <2>1
  <2>3. i - 1 \in DOMAIN Tail(s) /\ Tail(s)[i - 1] = s[i]
    BY <1>1, <2>2, SMT
  <2> QED BY <2>1, <2>3, SMT DEF Waits
<1> QED BY <1>2, SMT

-----------------------------------------------------------------------------
\* The invariant speaks of these variables only.
netVars == <<power, ssidSet, timer, online, callback, nvs, sta, events, scanner>>

LEMMA Elsewhere ==
  ASSUME IInv, UNCHANGED netVars
  PROVE  IInv'
BY DEF IInv, WifiType, StartInv, ScannerStartsOnce, WifiKeepsTrying, netVars

LEMMA Initially == Init => IInv
<1> SUFFICES ASSUME Init PROVE IInv
  OBVIOUS
<1>1. nvs \in Settings
  BY DEF Init, Settings, Empty
<1>2. events \in Seq({"start", "down", "ip"}) /\ scanner \in Nat /\ scanner <= 1
  BY SMT DEF Init
<1>3. WifiType
  BY <1>1, <1>2 DEF Init, WifiType
<1>4. WifiKeepsTrying
  BY DEF Init, WifiKeepsTrying
<1>5. StartInv
  BY <1>2 DEF Init, StartInv, ScannerStartsOnce
<1> QED BY <1>3, <1>4, <1>5 DEF IInv

-----------------------------------------------------------------------------
(* The actions that touch Wi-Fi or the start.                               *)

\* WifiKeepsTrying by the name of what waits.
LEMMA Trying ==
  WifiKeepsTrying <=> (power /\ ssidSet /\ sta = "idle" => timer \/ Waits(events))
BY DEF WifiKeepsTrying, Waits

LEMMA TryingNext ==
  WifiKeepsTrying' <=>
    (power' /\ ssidSet' /\ sta' = "idle" => timer' \/ Waits(events'))
BY DEF WifiKeepsTrying, Waits

LEMMA SettingsType ==
  ASSUME nvs \in Settings
  PROVE  /\ nvs.wifi \in BOOLEAN
         /\ \A named \in BOOLEAN : [nvs EXCEPT !.wifi = named] \in Settings
         /\ \A b \in Brokers \cup {None} : [nvs EXCEPT !.broker = b] \in Settings
         /\ Empty \in Settings
BY DEF Settings, Empty

\* What nvs_config_load finds, in settings that were saved or erased.
LEMMA LoadType ==
  ASSUME nvs \in Settings, NvsInit, Load
  PROVE  /\ nvs' \in Settings /\ saved_cfg' \in Settings
         /\ saved_cfg'.wifi \in BOOLEAN
<1>1. nvs' \in Settings
  BY SettingsType DEF NvsInit
<1>2. nvs'.wifi \in BOOLEAN /\ nvs'.broker \in Brokers \cup {None}
  BY <1>1 DEF Settings
<1>3. saved_cfg' \in [wifi : {FALSE, nvs'.wifi}, broker : {None, nvs'.broker}]
  BY DEF Load
<1>4. saved_cfg' \in Settings
  BY <1>2, <1>3 DEF Settings
<1> QED BY <1>1, <1>4 DEF Settings

LEMMA BootKeeps ==
  ASSUME IInv, Boot
  PROVE  IInv'
<1>1. /\ power' = TRUE /\ ssidSet' = saved_cfg'.wifi /\ events' = <<"start">>
      /\ callback' = saved_cfg'.wifi /\ scanner' = IF saved_cfg'.wifi THEN 0 ELSE 1
      /\ UNCHANGED <<sta, timer, online>>
  BY DEF Boot, WifiInit
<1>2. nvs' \in Settings /\ saved_cfg'.wifi \in BOOLEAN
  BY LoadType DEF Boot, IInv, WifiType
<1>3. <<"start">> \in Seq({"start", "down", "ip"}) /\ Waits(<<"start">>)
  BY SMT DEF Waits
<1>4. WifiType'
  BY <1>1, <1>2, <1>3 DEF IInv, WifiType
<1>5. WifiKeepsTrying'
  BY <1>1, <1>3, TryingNext
<1>6. StartInv'
  BY <1>1, <1>2, SMT DEF StartInv, ScannerStartsOnce
<1> QED BY <1>4, <1>5, <1>6 DEF IInv

LEMMA RestartKeeps ==
  ASSUME IInv, Restart
  PROVE  IInv'
<1>1. /\ power' = FALSE /\ ssidSet' = FALSE /\ timer' = FALSE
      /\ online' = FALSE /\ callback' = FALSE
      /\ sta' = "idle" /\ events' = <<>> /\ scanner' = 0 /\ nvs' = nvs
  BY DEF Restart, Off
<1>2. <<>> \in Seq({"start", "down", "ip"}) /\ 0 \in Nat /\ 0 <= 1
  BY SMT
<1>3. WifiType'
  BY <1>1, <1>2 DEF IInv, WifiType
<1>4. WifiKeepsTrying'
  BY <1>1, TryingNext
<1>5. StartInv'
  BY <1>1, <1>2 DEF StartInv, ScannerStartsOnce
<1> QED BY <1>3, <1>4, <1>5 DEF IInv

\* Events are appended and neither the start nor the power is touched.
LEMMA DriverKeeps ==
  ASSUME IInv, Driver
  PROVE  IInv'
<1> USE DEF nonWifi, bootVars, hookVars
<1>1. CASE Associates
  <2>1. /\ sta' = "up" /\ events' = Append(events, "ip")
        /\ UNCHANGED <<power, ssidSet, timer, online, callback, nvs, scanner>>
    BY <1>1 DEF Associates
  <2>2. WifiType'
    BY <2>1, WaitsOn DEF IInv, WifiType
  <2>3. WifiKeepsTrying'
    BY <2>1, TryingNext
  <2>4. StartInv'
    BY <2>1 DEF IInv, StartInv, ScannerStartsOnce
  <2> QED BY <2>2, <2>3, <2>4 DEF IInv
<1>2. CASE LinkLost
  <2>1. /\ sta' = "idle" /\ events' = Append(events, "down")
        /\ UNCHANGED <<power, ssidSet, timer, online, callback, nvs, scanner>>
    BY <1>2 DEF LinkLost
  <2>2. WifiType' /\ Waits(events')
    BY <2>1, WaitsOn DEF IInv, WifiType
  <2>3. WifiKeepsTrying'
    BY <2>2, TryingNext
  <2>4. StartInv'
    BY <2>1 DEF IInv, StartInv, ScannerStartsOnce
  <2> QED BY <2>2, <2>3, <2>4 DEF IInv
<1> QED BY <1>1, <1>2 DEF Driver

LEMMA HandleDownKeeps ==
  ASSUME IInv, HandleDown
  PROVE  IInv'
<1>1. /\ timer' = TRUE /\ events # <<>> /\ events' = Tail(events)
      /\ online' = (online /\ Head(events) = "start")
      /\ UNCHANGED <<power, ssidSet, sta, callback, nvs, scanner>>
  BY DEF HandleDown, TakeEvent, nonWifi, bootVars, hookVars
<1>2. WifiType'
  BY <1>1, WaitsBehind DEF IInv, WifiType
<1>3. WifiKeepsTrying'
  BY <1>1, TryingNext
<1>4. StartInv'
  BY <1>1 DEF IInv, StartInv, ScannerStartsOnce
<1> QED BY <1>2, <1>3, <1>4 DEF IInv

\* The start runs only with the callback registered, and the scanner is then
\* still to be started.
LEMMA HandleIpKeeps ==
  ASSUME IInv, HandleIp
  PROVE  IInv'
<1>1. /\ events # <<>> /\ events' = Tail(events) /\ Head(events) = "ip"
      /\ callback' = FALSE /\ online' = TRUE
      /\ UNCHANGED <<power, ssidSet, sta, timer, nvs>>
  BY DEF HandleIp, TakeEvent, bootVars
<1>2. scanner' = IF callback THEN scanner + 1 ELSE scanner
  BY DEF HandleIp, OnWifiConnected
<1>3. scanner' \in Nat /\ scanner' <= 1
  <2>1. scanner \in Nat /\ scanner <= 1 /\ (callback => scanner = 0)
    BY DEF IInv, WifiType, StartInv, ScannerStartsOnce
  <2>2. CASE callback
    BY <1>2, <2>1, <2>2, SMT
  <2>3. CASE ~callback
    BY <1>2, <2>1, <2>3, SMT
  <2> QED BY <2>2, <2>3
<1>4. WifiType'
  BY <1>1, <1>3, WaitsBehind DEF IInv, WifiType
<1>5. WifiKeepsTrying'
  BY <1>1, WaitsBehind, Trying, TryingNext DEF IInv, WifiType
<1>6. StartInv'
  BY <1>1, <1>3 DEF StartInv, ScannerStartsOnce
<1> QED BY <1>4, <1>5, <1>6 DEF IInv

\* The timer is spent, and the station is connecting unless it has no SSID.
LEMMA TimerFiresKeeps ==
  ASSUME IInv, TimerFires
  PROVE  IInv'
<1>1. /\ timer' = FALSE
      /\ sta' = IF sta = "idle" /\ ssidSet THEN "connecting" ELSE sta
      /\ UNCHANGED <<power, ssidSet, events, online, callback, nvs, scanner>>
  BY DEF TimerFires, nonWifi, bootVars, hookVars
<1>2. WifiType'
  BY <1>1 DEF IInv, WifiType
<1>3. ~(ssidSet' /\ sta' = "idle")
  BY <1>1
<1>4. WifiKeepsTrying'
  BY <1>3, TryingNext
<1>5. StartInv'
  BY <1>1 DEF IInv, StartInv, ScannerStartsOnce
<1> QED BY <1>2, <1>4, <1>5 DEF IInv

-----------------------------------------------------------------------------
(* The settings.                                                            *)

\* A new SSID is tried at once, without one the gateway goes offline.
LEMMA WifiConnectKeeps ==
  ASSUME IInv, NEW named \in BOOLEAN, SaveWifi(named), WifiConnect(named),
         UNCHANGED <<power, callback, scanner>>
  PROVE  IInv'
<1>1. /\ ssidSet' = named /\ timer' = timer /\ online' = online
      /\ sta' = IF named THEN "connecting" ELSE "idle"
      /\ events' = events \/ events' = Append(events, "down")
      /\ nvs' \in {nvs, [nvs EXCEPT !.wifi = named]}
  BY DEF SaveWifi, WifiConnect
<1>2. nvs' \in Settings
  BY <1>1, SettingsType DEF IInv, WifiType
<1>3. events' \in Seq({"start", "down", "ip"})
  BY <1>1, WaitsOn DEF IInv, WifiType
<1>4. WifiType'
  BY <1>1, <1>2, <1>3 DEF IInv, WifiType
<1>5. ~(ssidSet' /\ sta' = "idle")
  BY <1>1
<1>6. WifiKeepsTrying'
  BY <1>5, TryingNext
<1>7. StartInv'
  BY DEF IInv, StartInv, ScannerStartsOnce
<1> QED BY <1>4, <1>6, <1>7 DEF IInv

\* Settings that change in flash alone disturb nothing.
LEMMA SavedKeeps ==
  ASSUME IInv, nvs' \in Settings, UNCHANGED <<wifiVars, power, callback, scanner>>
  PROVE  IInv'
<1>1. WifiType'
  BY DEF IInv, WifiType, wifiVars
<1>2. WifiKeepsTrying'
  BY DEF IInv, WifiKeepsTrying, wifiVars
<1>3. StartInv'
  BY DEF IInv, StartInv, ScannerStartsOnce
<1> QED BY <1>1, <1>2, <1>3 DEF IInv

LEMMA ChangeBrokerKeeps ==
  ASSUME IInv, NEW b \in Brokers \cup {None}, ChangeBroker(b)
  PROVE  IInv'
<1>1. /\ nvs' \in {nvs, [nvs EXCEPT !.broker = b]}
      /\ UNCHANGED <<wifiVars, power, callback, scanner>>
  BY DEF ChangeBroker, SaveMqtt, bootVars, hookVars
<1>2. nvs' \in Settings
  BY <1>1, SettingsType DEF IInv, WifiType
<1> QED BY <1>1, <1>2, SavedKeeps

LEMMA AdminKeeps ==
  ASSUME IInv, Admin
  PROVE  IInv'
<1>1. CASE HandleWifiPost
  <2>1. /\ SaveWifi(TRUE) /\ WifiConnect(TRUE)
        /\ UNCHANGED <<power, callback, scanner>>
    BY <1>1 DEF HandleWifiPost, bootVars, hookVars
  <2> QED BY <2>1, WifiConnectKeeps
<1>2. CASE CmdWifiConnect
  <2>1. PICK named \in BOOLEAN : SaveWifi(named) /\ WifiConnect(named)
    BY <1>2 DEF CmdWifiConnect
  <2>2. UNCHANGED <<power, callback, scanner>>
    BY <1>2 DEF CmdWifiConnect, bootVars, hookVars
  <2> QED BY <2>1, <2>2, WifiConnectKeeps
<1>3. CASE HandleMqttPost
  BY <1>3, ChangeBrokerKeeps DEF HandleMqttPost
<1>4. CASE CmdMqttConnect
  BY <1>4, ChangeBrokerKeeps DEF CmdMqttConnect
<1>5. CASE MqttStop \/ MqttClear \/ MqttRestart
  <2>1. UNCHANGED netVars
    BY <1>5 DEF MqttStop, MqttClear, MqttRestart, netVars, bootVars, wifiVars,
                hookVars
  <2> QED BY <2>1, Elsewhere
<1>6. CASE NvsClear
  <2>1. /\ nvs' \in {nvs, Empty}
        /\ UNCHANGED <<wifiVars, power, callback, scanner>>
    BY <1>6 DEF NvsClear, bootVars, hookVars
  <2>2. nvs' \in Settings
    BY <2>1, SettingsType DEF IInv, WifiType
  <2> QED BY <2>1, <2>2, SavedKeeps
<1> QED BY <1>1, <1>2, <1>3, <1>4, <1>5, <1>6 DEF Admin

-----------------------------------------------------------------------------
LEMMA Inductive == IInv /\ [Next]_vars => IInv'
<1> SUFFICES ASSUME IInv, [Next]_vars PROVE IInv'
  OBVIOUS
<1>1. CASE Boot
  BY <1>1, BootKeeps
<1>2. CASE Restart
  BY <1>2, RestartKeeps
<1>3. CASE Driver
  BY <1>3, DriverKeeps
<1>4. CASE EventLoop
  BY <1>4, HandleDownKeeps, HandleIpKeeps DEF EventLoop
<1>5. CASE TimerFires
  BY <1>5, TimerFiresKeeps
<1>6. CASE Mqtt \/ Publish
  <2>1. UNCHANGED netVars
    BY <1>6 DEF Mqtt, Publish, ClientConnects, Greet, ClientDisconnects, TestHandle,
                UseHandle, netVars, nonMqtt, bootVars, wifiVars, hookVars
  <2> QED BY <2>1, Elsewhere
<1>7. CASE Admin
  BY <1>7, AdminKeeps
<1>8. CASE UNCHANGED vars
  <2>1. UNCHANGED netVars
    BY <1>8 DEF vars, netVars, bootVars, wifiVars, hookVars
  <2> QED BY <2>1, Elsewhere
<1> QED BY <1>1, <1>2, <1>3, <1>4, <1>5, <1>6, <1>7, <1>8 DEF Next

\* The invariant of the Wi-Fi half holds in every state of the gateway.
THEOREM Invariance == Spec => []IInv
BY Initially, Inductive, PTL DEF Spec

-----------------------------------------------------------------------------
(* The status that the page and the console show.                           *)

\* Without power nothing of Wi-Fi is left.
WifiOff == ~power => events = <<>> /\ sta = "idle" /\ ~online

\* StatusIsCurrent as a fact about a sequence of events.
Shows(s, up, bit) ==
    /\ (\A i \in DOMAIN s : s[i] = "start") => (up <=> bit)
    /\ \A i \in DOMAIN s :
         s[i] # "start" /\ (\A j \in DOMAIN s : j > i => s[j] = "start") =>
             (up <=> s[i] = "ip")

LEMMA StatusShows ==
  /\ StatusIsCurrent <=> Shows(events, sta = "up", online)
  /\ StatusIsCurrent' <=> Shows(events', sta' = "up", online')
BY DEF StatusIsCurrent, IsLastLink, Shows

\* An event about a link that joins the queue decides,
LEMMA NewsDecide ==
  ASSUME NEW s \in Seq({"start", "down", "ip"}), NEW e \in {"down", "ip"},
         NEW up \in BOOLEAN, NEW bit \in BOOLEAN, up <=> e = "ip"
  PROVE  Shows(Append(s, e), up, bit)
<1>1. /\ Len(s) \in Nat /\ DOMAIN Append(s, e) = 1 .. Len(s) + 1
      /\ Append(s, e)[Len(s) + 1] = e
  BY SMT
<1> DEFINE t == Append(s, e)
           n == Len(s) + 1
<1>2. n \in DOMAIN t /\ t[n] = e /\ \A j \in DOMAIN t : j \in Nat /\ j <= n
  BY <1>1, SMT
<1> HIDE DEF t, n
<1>3. n \in Nat
  BY <1>2
<1>4. ASSUME NEW i \in DOMAIN t, \A j \in DOMAIN t : j > i => t[j] = "start"
      PROVE  i = n
  <2>1. ~(n > i)
    BY <1>2, <1>4
  <2> QED BY <1>2, <1>3, <2>1, SMT
<1>5. Shows(t, up, bit)
  BY <1>2, <1>4 DEF Shows
<1> QED BY <1>5 DEF t

\* and one that leaves it has told the page.
LEMMA NewsTold ==
  ASSUME NEW s \in Seq({"start", "down", "ip"}), s # <<>>,
         NEW up \in BOOLEAN, NEW bit \in BOOLEAN, Shows(s, up, bit),
         NEW told \in BOOLEAN,
         told <=> IF Head(s) = "start" THEN bit ELSE Head(s) = "ip"
  PROVE  Shows(Tail(s), up, told)
<1>1. /\ Len(s) \in Nat /\ DOMAIN s = 1 .. Len(s) /\ Len(s) > 0
      /\ DOMAIN Tail(s) = 1 .. Len(s) - 1
      /\ \A i \in 1 .. Len(s) - 1 : Tail(s)[i] = s[i + 1]
      /\ Head(s) = s[1]
  BY SMT
<1>2. ASSUME NEW i \in DOMAIN Tail(s), Tail(s)[i] # "start",
             \A j \in DOMAIN Tail(s) : j > i => Tail(s)[j] = "start"
      PROVE  up <=> Tail(s)[i] = "ip"
  <2>1. i + 1 \in DOMAIN s /\ s[i + 1] = Tail(s)[i]
    BY <1>1, SMT
  <2>2. ASSUME NEW j \in DOMAIN s, j > i + 1 PROVE s[j] = "start"
    <3>1. j - 1 \in DOMAIN Tail(s) /\ j - 1 > i /\ Tail(s)[j - 1] = s[j]
      BY <1>1, <2>2, SMT
    <3> QED BY <1>2, <3>1
  <2> QED BY <1>2, <2>1, <2>2, Zenon DEF Shows
<1>3. ASSUME \A i \in DOMAIN Tail(s) : Tail(s)[i] = "start"
      PROVE  up <=> told
  <2>1. ASSUME NEW j \in DOMAIN s, j > 1 PROVE s[j] = "start"
    <3>1. j - 1 \in DOMAIN Tail(s) /\ Tail(s)[j - 1] = s[j]
      BY <1>1, <2>1, SMT
    <3> QED BY <1>3, <3>1
  <2>2. 1 \in DOMAIN s /\ \A j \in DOMAIN s : j = 1 \/ j > 1
    BY <1>1, SMT
  <2>3. CASE s[1] = "start"
    <3>1. \A j \in DOMAIN s : s[j] = "start"
      BY <2>1, <2>2, <2>3, Zenon
    <3> QED BY <1>1, <2>3, <3>1, Zenon DEF Shows
  <2>4. CASE s[1] # "start"
    <3>1. up <=> s[1] = "ip"
      BY <2>1, <2>2, <2>4, Zenon DEF Shows
    <3> QED BY <1>1, <2>4, <3>1, Zenon
  <2> QED BY <2>3, <2>4
<1> QED BY <1>2, <1>3, Zenon DEF Shows

\* A station that was not up and stays so.
LEMMA NotUp ==
  ASSUME StatusIsCurrent, sta # "up", sta' # "up", UNCHANGED <<events, online>>
  PROVE  StatusIsCurrent'
BY DEF StatusIsCurrent, IsLastLink

LEMMA StatusStep ==
  IInv /\ WifiOff /\ StatusIsCurrent /\ [Next]_vars => WifiOff' /\ StatusIsCurrent'
<1> SUFFICES ASSUME IInv, WifiOff, StatusIsCurrent, [Next]_vars
             PROVE  WifiOff' /\ StatusIsCurrent'
  OBVIOUS
<1>1. /\ events \in Seq({"start", "down", "ip"}) /\ power \in BOOLEAN
      /\ online \in BOOLEAN /\ (sta = "up") \in BOOLEAN
  BY DEF IInv, WifiType
<1>2. ASSUME UNCHANGED <<power, events, sta, online>>
      PROVE  WifiOff' /\ StatusIsCurrent'
  BY <1>2 DEF WifiOff, StatusIsCurrent, IsLastLink
<1>3. CASE Boot
  <2>1. /\ power' = TRUE /\ events' = <<"start">> /\ sta' = "idle" /\ ~online'
    BY <1>3 DEF Boot, WifiInit, WifiOff
  <2>2. DOMAIN <<"start">> = {1} /\ <<"start">>[1] = "start"
    OBVIOUS
  <2> QED BY <2>1, <2>2 DEF WifiOff, StatusIsCurrent, IsLastLink
<1>4. CASE Restart
  <2>1. events' = <<>> /\ sta' = "idle" /\ online' = FALSE
    BY <1>4 DEF Restart, Off
  <2>2. DOMAIN <<>> = {}
    OBVIOUS
  <2> QED BY <2>1, <2>2 DEF WifiOff, StatusIsCurrent
<1>5. CASE Associates
  <2>1. /\ power' = power /\ sta = "connecting" /\ sta' = "up"
        /\ events' = Append(events, "ip") /\ online' = online
    BY <1>5 DEF Associates, nonWifi, bootVars
  <2>2. Shows(Append(events, "ip"), TRUE, online)
    BY <1>1, NewsDecide
  <2> QED BY <2>1, <2>2, StatusShows DEF WifiOff
<1>6. CASE LinkLost
  <2>1. /\ power' = power /\ sta # "idle" /\ sta' = "idle"
        /\ events' = Append(events, "down") /\ online' = online
    BY <1>6 DEF LinkLost, nonWifi, bootVars
  <2>2. Shows(Append(events, "down"), FALSE, online)
    BY <1>1, NewsDecide
  <2> QED BY <2>1, <2>2, StatusShows DEF WifiOff
<1>7. CASE EventLoop
  <2>1. /\ power /\ power' = power /\ events # <<>> /\ events' = Tail(events)
        /\ sta' = sta
        /\ online' \in BOOLEAN
        /\ online' <=> IF Head(events) = "start" THEN online ELSE Head(events) = "ip"
    BY <1>1, <1>7 DEF EventLoop, HandleDown, HandleIp, TakeEvent, nonWifi, bootVars
  <2>2. Shows(events, sta = "up", online)
    BY StatusShows
  <2>3. Shows(Tail(events), sta = "up", online')
    BY <1>1, <2>1, <2>2, NewsTold
  <2> QED BY <2>1, <2>3, StatusShows DEF WifiOff
<1>8. CASE TimerFires
  <2>1. /\ power /\ power' = power /\ UNCHANGED <<events, online>>
        /\ sta' = sta \/ (sta = "idle" /\ sta' = "connecting")
    BY <1>8 DEF TimerFires, nonWifi, bootVars
  <2> QED BY <1>2, <2>1, NotUp DEF WifiOff
<1>9. ASSUME NEW named \in BOOLEAN, Ready, WifiConnect(named), UNCHANGED power
      PROVE  WifiOff' /\ StatusIsCurrent'
  <2>1. /\ power /\ sta' \in {"connecting", "idle"} /\ online' = online
        /\ events' = IF sta = "idle" THEN events ELSE Append(events, "down")
    BY <1>9 DEF Ready, WifiConnect
  <2>2. CASE sta = "idle"
    BY <1>9, <2>1, <2>2, NotUp DEF WifiOff
  <2>3. CASE sta # "idle"
    <3>1. Shows(Append(events, "down"), FALSE, online)
      BY <1>1, NewsDecide
    <3> QED BY <1>9, <2>1, <2>3, <3>1, StatusShows DEF WifiOff
  <2> QED BY <2>2, <2>3
<1>10. CASE HandleWifiPost
  BY <1>9, <1>10 DEF HandleWifiPost, bootVars
<1>11. CASE CmdWifiConnect
  BY <1>9, <1>11 DEF CmdWifiConnect, bootVars
<1>12. CASE Mqtt \/ Publish
  <2>1. UNCHANGED <<power, events, sta, online>>
    BY <1>12 DEF Mqtt, Publish, ClientConnects, Greet, ClientDisconnects, TestHandle,
                 UseHandle, nonMqtt, bootVars, wifiVars
  <2> QED BY <1>2, <2>1
<1>13. CASE HandleMqttPost \/ CmdMqttConnect \/ MqttStop \/ MqttClear \/ MqttRestart
            \/ NvsClear
  <2>1. UNCHANGED <<power, events, sta, online>>
    BY <1>13 DEF HandleMqttPost, CmdMqttConnect, ChangeBroker, MqttStop, MqttClear,
                 MqttRestart, NvsClear, bootVars, wifiVars
  <2> QED BY <1>2, <2>1
<1>14. CASE UNCHANGED vars
  BY <1>2, <1>14 DEF vars, bootVars, wifiVars
<1> QED BY <1>3, <1>4, <1>5, <1>6, <1>7, <1>8, <1>10, <1>11, <1>12, <1>13, <1>14
        DEF Next, Driver, Admin

\* The page and the console tell of Wi-Fi what is true once the waiting events are
\* handled, in whatever order they come (WIFI_CONNECTED_BIT of wifi_mgr.c).
THEOREM StatusIsTrue == Spec => []StatusIsCurrent
<1>1. Init => WifiOff /\ StatusIsCurrent
  <2> SUFFICES ASSUME Init PROVE WifiOff /\ StatusIsCurrent
    OBVIOUS
  <2>1. events = <<>> /\ sta = "idle" /\ online = FALSE /\ DOMAIN <<>> = {}
    BY DEF Init
  <2> QED BY <2>1 DEF WifiOff, StatusIsCurrent
<1> QED BY <1>1, StatusStep, Invariance, PTL DEF Spec

\* The gateway never stops trying to connect: whatever events, settings and
\* restarts come in between, with an SSID and an idle station the one-shot timer
\* runs or the event that starts it waits (wifi_mgr.c, event_handler).
THEOREM NeverStopsTrying == Spec => []WifiKeepsTrying
<1>1. IInv => WifiKeepsTrying
  BY DEF IInv
<1> QED BY <1>1, Invariance, PTL

\* ble_scanner_init runs at most once per boot, in either kind of boot, however
\* often Wi-Fi comes back (wifi_mgr.c, on_connect_cb).
THEOREM ScannerIsStartedOnce == Spec => []ScannerStartsOnce
<1>1. IInv => ScannerStartsOnce
  BY DEF IInv, StartInv
<1> QED BY <1>1, Invariance, PTL
=============================================================================
