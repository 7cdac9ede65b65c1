# SeeedMote in TLA+

Models, model checks and proofs of the core of SeeedMote: a battery powered
*mote* that broadcasts motion as BTHome frames over BLE, *gateways* that relay
what they hear to an MQTT broker, and a *backend* that removes copies, keeps the
events and feeds the pages of a dashboard. Paths below are paths of the
repository.

Contents: [Parts](#1-parts-of-the-system) ·
[Modules](#2-modules-and-their-correspondence-to-the-code) ·
[Runs](#3-runs) · [Fairness](#4-fairness) · [Proofs](#5-proofs) ·
[Known divergences](#6-known-divergences) ·
[Assumptions](#7-modelling-assumptions) · [Not modelled](#8-not-modelled) ·
[Plan](#9-plan)

## 1. Parts of the system

```
 mote                               gateway (ESP32)                 backend
 IMU -> motion gate -> adv machine ~~BLE~~> scanner -> MQTT client ~~broker~~> store -> broadcast ~~WebSocket~~> page
        GATT cfg service <- page               ^  Wi-Fi, NVS, web page, console         reaper
```

| Part | State it keeps | Operations | Meets | Hard |
|---|---|---|---|---|
| **Mote: advertising** (`mote/src/main.c`) | `adv_state`, what the controller advertises, `adv_mutex`, four delayed work items, LED and its off-timer | `start_bthome_burst`, `enter_config_window`, `enter_idle`, the four handlers, `bt_connected`, `bt_disconnected` | IMU thread, system workqueue, Bluetooth host thread and main share `adv_mutex` | blocking host calls under the mutex, which may need a thread that waits for it; work that is cancelled while its handler waits; callbacks between two steps of another thread; failing host calls |
| **Mote: motion gate** (`mote/src/motion_gate.c`) | `moving`, time of the last event | `motion_gate_update` per round of `state_machine_task` | IMU interrupt and registers; decides about a burst | long sequences, the boundary of the cooldown, failed captures |
| **Mote: configuration** (`mote/src/cfg_svc.c`, `main.c`) | two values in the IMU registers, in RAM and in flash; a delayed reboot | GATT writes, the reboot command, loading at boot | Bluetooth thread writes, workqueue saves; the page of `tools/web-bt` and other clients | power lost anywhere, one of two saves done, failed transfers; reads, saves and commands of one page that overlap |
| **Gateway: scanner** (`gateway/main/ble_scanner.c`) | `dedup_table`, last packet id per mote | `gap_event_cb` and `parse_bthome` per advertisement | NimBLE host calls it; publishes by the MQTT client | lengths from anyone, wrap and restart of packet ids, full table |
| **Gateway: network** (`wifi_mgr.c`, `mqtt_mgr.c`, `main.c`, `nvs_config.c`, `web_server.c`, `cli.c`) | station, reconnect timer, `client`, `connected`, settings in flash and those of the boot | driver events, timer, start/stop of the client, settings from page and console | event loop, MQTT task and web server share statics without a lock | settings changed during the start, saves that fail, events out of order, restarts |
| **Backend: store** (`app/backend/store.py`, `mqtt_client.py`) | `_seen`, events, `_total`, gateways | `add_event`, `touch_gateway`, `reap_gateways` | MQTT thread writes, event loop reads, under a lock | copies from several gateways, time to live against packet id reuse |
| **Backend: feed** (`app/backend/main.py`) and **page** (`app/app/src/store.ts`, `useWebSocket.ts`) | `ws_clients`; per page total, newest events and statuses | `broadcast`, `_gateway_reaper`, `websocket_endpoint`; `addEvent`, `setGateway`, `applySnapshot` | coroutines interleave at each send | set changed while iterated, overtaking, joining between change and broadcast |

What makes each part correct:

- *Advertising*: every burst and every window has its end scheduled, whatever
  fails; a connection is left only by its end; the controller advertises what
  the state says; the LED tells the state and goes off; nobody waits for ever, as
  far as the host allows (section 6).
- *Gate*: events are a cooldown apart and no wake-up goes unreported.
- *Configuration*: a client reads back what the IMU works with; what the page
  reports as saved is what the mote has; a commanded reboot happens, and the pair
  of values it saved is what the mote comes back with.
- *Scanner*: whatever an advertisement says, it is read within its bounds, to
  the end, and understood as meant.
- *Event path*: an event is stored once, in order, and no stage of the
  deduplication eats an event it should not.
- *Network*: the gateway never stops trying; it starts scanning once; there is
  one client, it is the one of the broker chosen, and the tasks that share its
  handle find it there.
- *Feed*: every open page is served, counts every event once and shows events,
  gateway and broker as the store has them.

## 2. Modules and their correspondence to the code

Every definition that stands for code is listed with its lines in `map` of
`PROJECT.json`. Operators introduced by a comment `Variant:` are plausible bugs
(a dropped guard, a missing reset) used to show that each property can fail;
no specification uses them.

| Module | Models |
|---|---|
| `MoteAdv` | the advertising state machine with its threads, work items, LED and connection |
| `MoteAdvProofs` | theorems about it |
| `MotionGate`, `MCMotionGate` | the motion gate, its score, and the round of the IMU thread; the `MC` module chooses the accelerations |
| `MotionGateProofs` | theorems about it |
| `RateLimiter` | what the gate promises: a motion is reported unless an event is more recent than the cooldown |
| `MoteConfig` | the configuration service, its three copies of the values, the page |
| `MoteConfigProofs` | theorems about it |
| `BthomeScan`, `MCBthomeScan` | the bytes of an advertisement, as the mote composes them and as the scanner walks them; the `MC` module chooses the advertisements |
| `BthomeScanProofs` | theorems about it |
| `EventPath`, `MCEventPath` | packet ids, scanner, MQTT delivery, store: the two stages of deduplication. It composes mote, gateways and backend; the `MC` module adds symmetry |
| `EventPathProofs` | theorems about it, and the safety half of its refinement of `Delivery` |
| `Delivery` | what that path promises: an event taken on is stored or lost, once, in the order of its mote |
| `BackendFeed` | store, MQTT thread, connection to the broker, broadcasts, reaper, pages |
| `BackendFeedProofs` | theorems about it |
| `GatewayNet`, `MCGatewayNet` | Wi-Fi, MQTT client, settings and the start of a gateway; the `MC` module adds symmetry |
| `GatewayNetProofs` | theorems about its Wi-Fi half |
| `GatewayClientProofs` | theorems about its MQTT half, from those of the Wi-Fi half |

**MoteAdv.** One variable per static of `main.c`, plus `radio` for the controller
and `link` for the connection of the host. `job` and `at` say which function a
thread runs and whether it waits for `adv_mutex` (`lock`) or is in
`bt_le_adv_stop` or `bt_le_adv_start`. Each function is cut at the host calls it
makes under the mutex: `start_bthome_burst` is `BurstSuppressed`, or `BurstBegin`,
`StopAdvertising`, then `BurstStarted` or `BurstStartFailed`;
`enter_config_window` and `enter_idle` alike. All that lies between two host calls
is one action. The host answers a call by its own threads, and which of those of
the model it works on depends on the Zephyr release: `hostNeeds` is any subset of
the workqueue and the host's receiving thread (`HostMayNeed`), fixed at the start,
and no call of another thread returns while one of them waits for `adv_mutex`
(`HostAnswers`, a guard of every action that ends a host call).
`k_work_cancel_delayable` and `k_work_schedule` are `Cancel` and `Schedulable`:
cancelling an item whose handler runs only marks it, and scheduling a marked item
is refused. A delay may expire at any time, so no property relies on how long one
is.

**MotionGate.** `motion_gate_update` by outcome: `GateInactivity`, `GateQuiet`,
`GateSuppress`, `GateEmit`, with the order of the code's tests in their guards.
`Round` adds what `state_machine_task` does around it: four samples are captured
only with the wake bit set, and a failed capture leaves the score zero. `Score`
is `motion_score_mg`, with the differences the code takes in 32 bits. `emits`
and `wakes` are history; they are also the state of `RateLimiter`, in which a
round with motion is `Move` and any other a stutter. The code decides by
`last_emit_ms` alone, the abstract specification by all events.

**MoteConfig.** `WriteRegister` and `CopyToRam` are the two halves of a write
handler; `SaveThs`, `SaveDur` and `SysReboot` the steps of the deferred reboot;
`Boot` loads and programs with all the partial failures these may have.
Either save, a load, and a transfer may fail; power may go at any step, and flash
keeps what it has by then.

The page is a set of `calls`, the functions that await an exchange with the mote.
Whatever button is enabled starts one more (`StartRead`, `StartSave`,
`StartReboot`; `Connect` for the connect button, which is never disabled):
`connect` enables all four before it reads, `writeValues` disables them and
enables them when it ends (`Ends`), `readValues` and `reboot` disable none. So
calls overlap in the model as they do in the code. `Read` and `Write` are their
exchanges, `Command` the reboot command that ends a save and is all of `reboot`,
`ReadEnds` the report of a read. `CallFails` is a failed transfer, or the browser's
refusal of a second exchange at once. `OtherClientWrites` is any other client, with
either value. `kept` is history: the pair the last commanded reboot began to save;
so is `sure` of a call.

**BthomeScan.** One step per structure of an advertisement (`Skip`, `Enter`,
`Finish`) and per object of a BTHome payload (`Object`, `ParseError`, `Parsed`),
which are the turns of the two loops. `Payload` and `MoteAd` are the mote's side.
`Meant` says what an advertisement means without walking it: from sets of the
offsets that lengths lead to. `reads` is history.

**EventPath.** `Burst` numbers an event as `fill_bthome_payload` does. `Hear` is
`parse_bthome` with `find_or_add_dedup` and the publish, `Deliver` is
`_on_message` with `add_event`. Time is counted; `Ttl`, `BurstLen`, `Latency` and
`Gap` relate as the code's window of 2 s, bursts of at most half a second, the
delay of the network, and the cooldown of 2 s. `heard` and `owed` are history.
`Delivery` knows of all this only the number of events, which are owed, and the
log: a burst is `Happen`, the first time a connected gateway hears it `TakeOn`,
`Store` the store of the backend, and a message lost `Lose`. Its `Safe` is what
may happen, its `Settles` what must.

**BackendFeed.** The MQTT thread changes the store and then schedules a
coroutine (`EventFrame`, `TouchGateway`, `ScheduleEvent`, `ScheduleGateway`). A
broadcast is a task with the slot it waits at; `TaskSends`, `TaskEnds` and
`TaskRaises` are its resumption, the last when the size of the set has changed.
`ReapFlips` and `ReapEmits` are the reaper, which flips all stale gateways at
once and then awaits a broadcast for each. `OnConnect`, `OnDisconnect` and
`Reconfigure` change `up`, the flag of the client, and tell the pages. `Apply` is
the page. An event stands for its place in the count, so that the lists of
events of the store and of a page can be compared. `excused` is history.

**GatewayNet.** `HandleDown` and `HandleIp` are the event handler of
`wifi_mgr.c`, the latter with `OnWifiConnected`; `TimerFires` the reconnect
timer. `HandleWifiPost` and `HandleMqttPost` are the pages' handlers,
`CmdWifiConnect` and `CmdMqttConnect` the console's, which take empty values too.
`mqtt_mgr_reconfigure` is cut where other tasks can see it half done: `MqttStop`
(the client is stopped, which waits for its task, and destroyed), `MqttClear`
(the handle and the flag are reset), `MqttRestart`. The CONNECTED event is cut
between the flag and the subscription (`ClientConnects`, `Greet`), a publish of
the scanner or of the timer for the status between its test of the handle and its
use (`TestHandle`, `UseHandle`). The clients that exist are kept apart from the
handle, so that one whose handle was overwritten lives on. `early` is history, and
so are `chosen`, the broker chosen last in this boot, and what `publish` tells of a
publish that was overtaken. `SaveWifi`, `SaveMqtt` and `NvsClear` may leave flash as
it is, and `Load` may find less than was saved, since `nvs_config.c` goes on silently
when a call on flash fails; the callers start the new client all the same.

## 3. Runs

| Run | Shows |
|---|---|
| `MoteAdvFaults` | with every host call failing at will, every thread preempted anywhere and motion at any time: `BurstWatchdog`, `WindowWatchdog`: what must end is scheduled; `LedTellsState` with its parts `ConnectedBlinks` and `LedGoesOff`; `ConnectedEndsIdle` (only a disconnect or a stale timeout leaves CONNECTED, and to IDLE) |
| `MoteAdvLive` | without failures and with the real priorities, for every `hostNeeds`: `RadioFollowsState`, and bursts end (`BurstEnds`), calls return (`CallsReturn`), silence returns (`ReturnsToSilence`), each unless `Deadlocked`, a state the run reaches (section 6) |
| `MoteAdvConnectionIsKnown` | a violation: see [6](#6-known-divergences) |
| `MotionGateCheck` | `Spacing` and `NoMotionLost` over all sequences of rounds; `ScoreSeesMovement` over all captures of the accelerations chosen; `ImplementsLimiter`: the gate implements `RateLimiter` |
| `MoteConfigFaults` | with failing bus, flash and power, other clients, and two calls of the page at once: `ImuMatchesRam`, `PageTellsTruth` (what the page reports as saved, or read, is what the mote has), `RebootKeepsConfig` (every boot that can load comes up with the pair last saved by command), `RebootHappens` |
| `BthomeScanWalk` | advertisements of motes, and others with lengths that lie, unknown objects and cut ends: `ReadsInBounds`, `HeardIsMeant`, `MoteIsHeard`, `WalkEnds` |
| `EventPathWrap` | two packet ids that wrap at once, two gateways, restarts of both kinds, losses: `EachEventOnce` |
| `EventPathRelay` | packet ids that do not recur, two motes for one slot, two gateways: `FreshIsStored`; `ImplementsDelivery`: the path implements `Delivery`, its liveness included |
| `BackendFeedChurn` | browsers come and go during broadcasts: `OpenIsServed`, `PagesCountEvents` |
| `BackendFeedLive` | pages that stay, a broker lost, regained and changed: `PagesShowStore`, `SilenceIsShown` |
| `BackendFeedReaperDies` | a violation: see [6](#6-known-divergences) |
| `GatewayNetStart` | restarts, lost links, settings changed at any moment: `WifiKeepsTrying`, `StatusIsCurrent` (what is shown of Wi-Fi is its state once the waiting events are handled), `ScannerStartsOnce`, `FlagIsSound`, `OneClientOneBroker`, `HandleIsSafe` with its parts `GreetsOwnClient` and `PublishFindsClient` |

Every passing run also checks `TypeOK` of its module once. No run bounds the
length of behaviours of `MoteAdv`, `MoteConfig` and `GatewayNet`: their state is
finite by itself but for the bounds named here.

Bounds, and why they are enough:

- `MoteAdv`: none. `wake_sem` has the code's own limit, and `HostMayNeed` has both
  threads the host could work on.
- `MotionGate`: `Cooldown` 3, uptime up to 6: two cooldowns with every offset of
  the next round, and one round may follow another at the same uptime; the
  accelerations are both ends of the 16 bits and one that is 90 mg, the minimum,
  from the upper end. The theorems remove the bounds.
- `MoteConfig`: thresholds and durations 0..1. The code compares values only
  with the maximum and copies them otherwise; two values tell old from new, and
  the other client also sends the threshold above the maximum. Two `Calls` at once:
  a save against a read, a command, or a second save, which `PageTellsTruth` relates
  in pairs; the theorem is for any number.
- `BthomeScan`: the advertisements of a mote with every packet id, and that of
  one cut at every length; service data with every body of up to four bytes
  drawn from the two objects that matter, the one of four bytes, and one that is
  unknown, so that objects end before, at and behind the end of their payload;
  longer bodies with both values and an error or a repetition; a length of the
  structure one too small, right, and one too large, with nothing, flags or an
  empty structure before it, and nothing or a good structure behind it.
- `EventPathWrap`: `PidMod` 2 lets a packet id recur after two bursts, the
  soonest it can and sooner than the code's 256 allow; `MaxEvents` 3 reaches
  the recurrence, `MaxTime` 6 takes it across the time to live (3), one restart
  of a gateway lets a burst be heard twice by the same one. `SeenLimit` 1 makes
  the collection run at each second event.
- `EventPathRelay`: `PidMod` 8 keeps packet ids below the sentinel and distinct;
  two motes on `MaxMotes` 1 fill the table; `MaxTime` 3 is the `Gap`, so that a
  mote can move twice, with the copies of both on their way.
- `BackendFeed`: two browsers are the fewest with one served before and one
  after another changes the set; `MaxPending` 2 lets broadcasts overtake; two
  events tell a double count from a missed one. `BackendFeedLive` has two gateways,
  for the reaper to tell of one after the other, and lists of one event, which the
  second event cuts. `BackendFeedChurn` has one gateway and no lists, to keep its
  state space small: its properties speak of neither.
- `GatewayNet`: two brokers; three clients, one more than a lost handle and its
  successor; three waiting events, the station's longest burst of them.
  `Unused # {}` in `MqttStart` bounds the clients that leak. Brokers are
  interchangeable and the run claims no liveness, so symmetry is sound.

Deadlock is checked except in `MoteAdvFaults`, where a boot heartbeat that fails
makes `main` return before it starts the IMU thread, and the mote stops for good,
in `MoteAdvLive`, where `adv_mutex` may be deadlocked and whose properties claim
that nothing else blocks, in `EventPath`, which ends at `MaxTime`, and in
`BthomeScan`, which ends when the advertisement is read.

## 4. Fairness

Threads run and timers fire; nothing is assumed of people, radio or network.

- `MoteAdv`: weak fairness for each thread, each timer and the cooldown. Strong
  fairness for `RunWork`: the workqueue takes items in the order they were
  submitted and its cooperative thread outranks the IMU thread, so an item that
  is queued again and again is served, although a new burst may cancel it
  meanwhile. No fairness for motion, the central, or connections. A host call
  returns only when `HostAnswers` lets it: fairness cannot make it return while a
  thread the host works on waits for the mutex.
- `MoteConfig`: the mote boots when powered, the handler and the workqueue run;
  clients and power promise nothing.
- `BthomeScan`: the callback runs; it waits for nothing.
- `BackendFeed`: the MQTT thread, the event loop and the reaper run; browsers
  and gateways promise nothing.
- `EventPath`: the head of what a gateway has sent is delivered or lost in the
  end. Motes, gateways and time promise nothing, so `Delivery` claims that what a
  connected gateway heard settles, not that it was heard.
- `GatewayNet`: none. `WifiKeepsTrying` is a safety property: that an attempt is
  scheduled, whatever the access point and the administrator do.

## 5. Proofs

Every theorem holds for all values of the constants that satisfy the assumptions
of its module; the bounds of section 3 play no part. Each proof has the same
plan: an inductive invariant, one lemma per action or per group of actions that
it takes the same care of, and theorems that conclude. The theorems a reader
should know of are listed in `PROJECT.json`. What follows says which invariant
is needed, and why the property alone is not inductive.

**`MotionGateProofs`**, from `GateAssumption`. `Spacing` is not inductive: a round
compares the uptime with `last_emit_ms` and knows nothing of earlier events.
`LastEmitInv` ties the two: `last_emit_ms` is an event, the latest one, and not in
the future. `IInv` adds the type and both properties; `QuietRound` and `EmitRound`
are the two cases of a round. `MaxDeltaIsReached` bounds the score of any capture.
Results: `TypeCorrect`, `EventsAreSpaced`, `EveryMotionIsReported`, `Invariance`,
`ScoreIsTrue` (`ScoreSeesMovement`), and `ScoreFits`: no capture overflows the
`int32_t` of `motion_score_mg`. `GateIsLimiter` proves the refinement:
`DueIsNotRecent` shows, from `LastEmitInv`, that the gate's test of one time and
the limiter's test of all events agree, and `RoundIsMove` that every outcome of a
round is a `Move` or a stutter. `EventPath` relies on the gate only by `Gap`,
which `EventsAreSpaced` justifies.

**`MoteAdvProofs`**, from `FlagsAssumption`: for every choice of failing or not,
preemptive or not. `IInv` is the conjunction of `TypeOK`, `LockInv` (only the
owner of `adv_mutex` is past its lock, each thread runs only the functions its
code calls), `WqInv` (the workqueue thread runs the function of the handler that
is running) and the two watchdogs. The last two are not inductive without the
first: that the end of a burst is pending could be undone by a second thread
inside a function, which `LockInv` excludes, or by a cancellation whose mark
survives its handler, which `WqInv` excludes. The lemmas about `Call`, `Return`,
`Cancel` and `Schedulable` carry the work. Results: `TypeCorrect`, `Invariance`,
`BurstAlwaysEnds`, `WindowAlwaysEnds`.

What the mote shows needs more, `AInv`. Between two host calls of a function
nothing is scheduled, the LED shows no state, and a burst or a window found the
mote unconnected (`BusyInv`). The blinking work is armed only in the state it
shows (`BlinkInv`), the exception being a tick which a cancellation met while it
waited for the mutex: it finds the mote disconnected (`TickInv`). While the
connect callback runs there is a connection and no connectable advertising
(`LinkInv`), and a function that starts the radio finds it stopped unless the
stop failed (`StoppedInv`). With `ColourInv`, `ConnectedBlinks`, `LedGoesOff` and
`RadioFollowsState` this is inductive relative to `IInv`. Results: `LedIsTrue`
(`LedTellsState`), `RadioIsTrue` (`RadioFollowsState`), and the action property
`ConnectionLeftByIdle` (`ConnectedEndsIdle`).

**`MoteConfigProofs`**. `ImuMatchesRam` speaks of an idle handler; `RegisterInv`
says what holds between its two assignments: the register is one write ahead of
the copy in RAM. `HandlerInv` says that a handler which runs while the page is
connected has the value of a call of the page that waits for it; without it
another client's write could be taken for the page's own. `SaveInv` says that a
save that is sure is the only one, with the buttons disabled that could start
another, and `SureInv` that each exchange of a sure call that is over has left one
of its values true (`Half`, then `Whole`). `KeptInv` relates `kept`, RAM and flash
at each step of the deferred reboot: flash holds the pair kept, and between the
two saves its threshold, with the duration in RAM. `OffInv` says that nothing runs
without power. Results: `TypeCorrect`, `RegistersMatch` (`ImuMatchesRam`),
`PageIsTruthful` (`PageTellsTruth`), and the action property `RebootLosesNothing`
(`RebootKeepsConfig`).

**`BthomeScanProofs`**, for every advertisement, name and byte of a mote. `IInv`
adds `WalkInv` to the type: the payload under way ends where the next structure
begins, so that the inner loop stays within the structure the outer loop has
measured. It gives `NoReadOutOfBounds` (`ReadsInBounds`) for any bytes of any
length. `MoteInv` lists where the walk over what a mote sends may be, and with
which values found; `EveryMoteIsHeard` (`MoteIsHeard`) follows.

`AllIsHeard` (`HeardIsMeant`) compares the walk with `Meant`, which is defined without
one. `ReachedBy` characterises `Reached`, a recursive function, as a fixed point: a
solution of its equation exists since the least closed set of offsets is one. No
induction over data is needed beyond the least number principle
(`LeastNatural`), which `StepOn` uses to show that a step of the walk leads over
one offset reached and over no other: the least one missed would have a
predecessor that is missed too. `MeantInv` is the invariant: outside a payload the
walk has heard what all structures before `pos` mean, inside one what those before
it mean, and holds the values of the last objects before `i`. `ErrorMeansNothing`
and `EndMeansFound` are the two ways out of a payload; `NothingLeft` says that
where the walk stops early, nothing has a meaning any more.

**`EventPathProofs`**, for any motes, gateways and packet ids, from
`PathAssumption` and `WindowAssumption`.

- `StoredOnce` (`EachEventOnce`), with restarts of motes and gateways, losses and
  packet ids that recur. `IInv` adds to the type: bursts known anywhere have
  happened, and a number identifies one (`KnownInv`); a message on its way was
  sent within its burst and is not overdue (`TimeInv`); `_seen` has the key of an
  event stored since the event happened, or the time to live is over
  (`SeenInv`). The last two contradict each other for a copy of an event that is
  stored already: this is the argument for the 2 s of `DEDUP_TTL_S`.
- `HeardIsStored` (`FreshIsStored`) under `NoRecurrence`, that is without restarts
  of motes and with fewer bursts than packet ids. The property is false
  otherwise (section 6). `PidInv` makes a packet id as good a name as the number
  of a burst, `SlotInv` says that a gateway whose slot holds the packet id on the
  air has heard that burst, `OwedInv` that what `_seen` remembers is stored.
- `PathIsDelivery` under `InOrder`: without restarts of motes, and with a burst and
  the delay of the network shorter than the cooldown, every step of the path is a
  step of `Delivery` or a stutter, so `Spec => Promise!Safe`. `PaceInv`, from the
  `Gap` between motions, and `TimeInv` give the order: all copies of an event are
  delivered before the mote moves again. That the copies of one mote arrive in
  order of its events therefore rests on a delay of less than 1.5 s, which the
  code does not enforce.

**`GatewayNetProofs`**, about Wi-Fi and the start of a gateway, for any brokers and
bounds. `IInv` adds to `WifiKeepsTrying` and `ScannerStartsOnce` the types of
their variables and `StartInv`: while the callback is registered the scanner is
not started, without which a second `STA_GOT_IP` could start it again. `WaitsOn`
and `WaitsBehind` say that an event which starts the timer still waits after
another one is appended, and after one of another kind is taken. `StatusIsTrue`
reads from the last event that waits what the station's link will be taken for.
Results: `NeverStopsTrying`, `ScannerIsStartedOnce`, `StatusIsTrue`
(`StatusIsCurrent`).

**`GatewayClientProofs`**, about the MQTT client of the same module. `CInv` says of
the handle that it is that of a client, except between the destruction and the
reset (`HandleInv`); that no other client exists unless a handle was lost, and
none until the callback has run or while a change of the broker is half done
(`OwnInv`); of a publisher that is not late, that it tested the handle of a client
that still exists (`PubInv`); of the client of the handle, and of the one to
come, that they talk to the broker chosen last, saved or not (`BrokerInv`). Results:
`HandlesAreSafe` (`HandleIsSafe`), `FlagIsTrue` (`FlagIsSound`), `OneClient`
(`OneClientOneBroker`), `TypeCorrect`.

**`BackendFeedProofs`**, for any number of gateways and browsers, three invariants,
each on top of the one before.

- `IInv`: `QueueInv` (a frame is accepted only with room for its broadcasts),
  `MqInv`, `ReaperInv` (the reaper awaits one broadcast) and `DeadInv`: a client
  that a broadcast found dead is gone and has not come back. Without the last, a
  broadcast could remove a client from the set that is open again. Result:
  `EveryOpenPageIsServed` (`OpenIsServed`).
- `FeedInv`, with churn: `OnceInv` says that an event waits in one place only, with
  the MQTT thread, among the coroutines, or in one broadcast; `CountInv` that the
  total of a page and the number of events it is owed are the total of the store.
  Result: `EveryPageCounts` (`PagesCountEvents`).
- `LiveInv`, for pages that stay: `SteadyInv` (the set is fixed while a broadcast
  runs, and broadcasts do not overtake), `OrderInv` (events are broadcast in the
  order counted), `ListInv` (a page lists the newest events it has counted and is
  owed those that follow), `StatusInv` (the last broadcast under way of a gateway
  which nobody is going to read again says how it is, or the page does) and
  `LinkInv`, the same of the connection to the broker, which is told by value.
  Result: `StayingPagesShowStore` (`PagesShowStore`), for `~Churn` as in the run
  `BackendFeedLive`: with churn the property is false (section 6).

Only model-checked is liveness under fairness, which is out of the prover's reach:
`BurstEnds`, `CallsReturn`, `ReturnsToSilence`, `RebootHappens`, `WalkEnds`,
`SilenceIsShown`, and the half of `ImplementsDelivery` that says that what is owed
settles. Every invariant and action property of a passing run is a theorem, some
under the hypotheses named above (`NoRecurrence`, `InOrder`, `~Churn`), which the
runs of these properties satisfy.

## 6. Known divergences

Two are kept as runs, whose counterexample is the expected result.

- `MoteAdvConnectionIsKnown`: `config_timeout_handler` does not look at
  `adv_state` (`mote/src/main.c:448`). When it waits for `adv_mutex` while the
  central connects, `bt_connected` cannot cancel it any more, and it takes a
  connected mote to IDLE with the LED off. `mote/README.md:19` has the LED blink
  cyan while connected.
- `BackendFeedReaperDies`: `_gateway_reaper` awaits a broadcast, which raises when
  a connection is added or removed while it iterates (`app/backend/main.py:36`);
  the task ends, and no gateway is flipped offline any more.

Met while modelling and left without a run:

- A burst that was starting while the central connected goes on in CONNECTED, as
  `bt_connected` does not stop advertising (`mote/src/main.c:497`); the same stale
  timeout as above may also end a burst that has just begun, and no window
  follows. `start_bthome_burst` flashes green before it knows whether the burst
  started (`main.c:371`; `mote/README.md:22` says only for a real broadcast).
- `adv_mutex` can deadlock where the host works on a thread that waits for it
  (`mote/src/main.c:346`). `mote/west.yml` pins NCS v2.9.2, whose Zephyr sends the
  HCI commands of other threads from the system workqueue: if main's boot
  heartbeat or the IMU thread is in `bt_le_adv_stop` or `bt_le_adv_start` under
  the mutex while a handler of the workqueue waits in `k_mutex_lock(&adv_mutex,
  K_FOREVER)`, neither goes on; the connection callback in the host's receiving
  thread is the other such waiter. What then happens, a timeout of the host's
  command among it, is Zephyr's matter. The liveness properties excuse this state
  by name (`Deadlocked`) and claim that there is no other circle of waiting.
- The score cannot stand in for a missing wake bit (`mote/README.md:50`), as it is
  measured only when the bit is set (`mote/src/main.c:813`).
- GATT writes are not persisted when acknowledged, as `mote/src/cfg_svc.c:13`
  says, but by the commanded reboot.
- That reboot saves the two values one after the other (`mote/src/main.c:653`): if
  power is lost in between, or the duration is written, the mote comes back with
  one value of each of two pairs. A failed save is only logged.
  `RebootKeepsConfig` excuses these by name.
- The page enables its buttons before its first read
  (`tools/web-bt/index.html:890`), and a read disables none: a read during which a
  save is answered may report the older value as read, or one value of each pair.
  Connecting again enables the buttons of a save that is still under way, and a
  second save may then run into the first, each reporting its own pair.
  `PageTellsTruth` excuses the calls this happens to.
- A gateway drops a new event whose packet id equals the last one it heard from
  that mote, however long ago, for instance after a restart of the mote
  (`gateway/main/ble_scanner.c:70`); and the first event it hears if its packet id
  is 255, the mark of a fresh slot (`ble_scanner.c:34`).
- A duplicate event does not mark the gateway that sent it online
  (`app/backend/mqtt_client.py:139`; lines 9-10 there say any frame does).
- A page that joins after an event was stored and before it was broadcast counts
  and lists it twice. `PagesCountEvents` and `PagesShowStore` excuse these pages
  by name.
- With churn, a broadcast that meets a gone client overtakes an older one, and a
  page may show a stale status until the next frame. `PagesShowStore` is therefore
  checked without churn.
- `on_wifi_connected` starts a client with the settings of the boot and overwrites
  the handle (`gateway/main/main.c:28`): a broker chosen before Wi-Fi was up is
  replaced by the old one, and its client is never stopped, while `README.md:75`
  says brokers are switched on the fly. `OneClientOneBroker` shows that this needs
  a choice made before the start was complete.
- In the same case the client that lost its handle goes on: its disconnection
  clears `connected` while the client of the handle is connected, and events are
  dropped until that one connects again; its CONNECTED subscribes by the handle of
  the other (`mqtt_mgr.c:25`). The second half of `FlagIsSound` and
  `GreetsOwnClient` are therefore claimed unless a handle was lost.
- A publish that has tested the handle may be overtaken by a change of the broker
  and use a client already destroyed (`gateway/main/mqtt_mgr.c:126`).
  `PublishFindsClient` shows that nothing else can do this.
- A save of the gateway's settings that fails is silent
  (`gateway/main/nvs_config.c:51`, `62`): the page is told `{"ok":true}`, the new
  client runs, and after a restart the old broker is back.
- A gateway with a broker saved that is given its Wi-Fi settings later does not
  start MQTT until it restarts (`gateway/main/main.c:49`).
- `docs/architecture.md` describes an ESPHome gateway; the code is ESP-IDF C.

## 7. Modelling assumptions

- Zephyr: `k_mutex_unlock` hands the mutex to the waiter of the best priority; the
  semantics of delayable work are those of `kernel/work.c`, as named above;
  connection callbacks run in the host's thread; one connection
  (`CONFIG_BT_MAX_CONN` is 1 by default), and no connectable advertising while it
  is taken; `bt_le_adv_start` refuses when already advertising; the threads the
  host works on do not change while it runs (`hostNeeds`).
- `MoteConfig`: one page has the mote's one connection; the mote serves one
  exchange of it at a time; a call that was rejected by a lost connection ends
  before the page connects again.
- `CooldownOutlastsBurst`: a motion burst is ended before the gate lets the next
  one pass (2 s against 500 ms). Assumed for liveness only; the safety run is
  without it.
- `EventPath`: a message is delivered within `Latency` or lost, and a burst with
  this delay is shorter than the time to live (`WindowAssumption`); this is
  exactly what the 2 s of `DEDUP_TTL_S` are for. Two motion bursts of a mote are
  `Gap` apart, which `EventsAreSpaced` proves of the gate.
- `GatewayNet`: `app_main` is done before the reconnect timer first fires, two
  seconds after the station started; `esp_wifi_connect` does nothing without an
  SSID or when not idle; clients share a client id, so a broker keeps the last;
  one person at a time changes settings; the values of one settings call are saved
  together or not at all, as far as the model tells them apart (an SSID, a
  broker); `xTimerStart` and `esp_wifi_connect` do not fail, on whose results the
  code does not look and `WifiKeepsTrying` relies; `on_wifi_connected` is one step
  for page and console, so that a change of the settings in the midst of it is not
  represented; `esp_mqtt_client_stop` waits for the handler of the client that
  runs, and a client's handler runs in a task of its own.
- `BackendFeed`: sends to one client are served in order; the set is iterated in
  the order of the slots, and Python raises when its size differs; `loop_stop` of
  paho waits for the callback that runs, and disconnecting an open connection then
  calls `on_disconnect` in the caller's thread. `BackendFeedChurn` leaves the
  broker connected, to keep its state space small: its properties do not speak of
  the broker.

## 8. Not modelled

- `touch_poll` (debug builds), the yellow LED of the bring-up, the advertised name.
- The scan for networks, the captive DNS and the status pages of the gateway: they
  answer without changing state others use. The restart of a scan that completed:
  it was asked to go on for ever.
- The locate command from the page of the dashboard to the gateway, and the LED it
  blinks: each command makes a task of its own that ends with the LED off, and
  nothing reads the LED. What it needs of the network, that a connected client
  subscribes, is part of `HandleIsSafe`. The static page.
- Semantic events and settings of the backend, pure formatting and files; its mock
  source, a script that takes the place of the MQTT thread for demonstrations.
- Rendering of the dashboard, the developer command line and its tests, releases.

`PROJECT.json` lists each under `components` with its reason.

## 9. Plan

Done, in this order: `MoteAdv` (the part with most interleavings), `MotionGate`,
`EventPath`, `MoteConfig`, `BackendFeed`, `GatewayNet`, `BthomeScan`; the abstract
specifications `RateLimiter` and `Delivery` with their refinements; the host's
dependence on threads in `MoteAdv`, the overlapping calls of the page in
`MoteConfig`, the saves that fail in `GatewayNet`; the handle shared by the tasks
of `GatewayNet`, the lists of events of `BackendFeed`; the proofs of all
invariants, of `ConnectedEndsIdle` and `RebootKeepsConfig`, and of the safety of
both refinements.

What is left:

1. A version of `HeardIsStored` with restarts of motes, which names the one event
   that a restart may cost.
2. A version of `StayingPagesShowStore` with churn, for the events and the broker,
   that excuses by name the pages a broadcast has overtaken.
3. The start of a client in `HandleIp` cut where page and console can see it half
   done, as `MqttStop`, `MqttClear` and `MqttRestart` are.
4. `PathIsDelivery` without `InOrder`, against a `Delivery` that promises no order.
