------------------------------- MODULE MoteAdv -------------------------------
(***************************************************************************)
(* The advertising state machine of the mote (mote/src/main.c).            *)
(*                                                                         *)
(* Four threads meet on adv_mutex: main (boot heartbeat), the IMU thread   *)
(* (motion bursts), the system workqueue (delayed work) and the Bluetooth  *)
(* host thread (connection callbacks).  A function that calls the host     *)
(* while it holds the mutex is cut at each such call, because the call     *)
(* blocks and the other threads, the timers and the radio go on meanwhile. *)
(* Whether the host can answer a call while one of the threads it works on *)
(* waits for adv_mutex is up to the Zephyr release: hostNeeds.             *)
(*                                                                         *)
(* Time is abstract: a delayed work item may expire at any moment after    *)
(* it is scheduled.  LEDs keep their colour only.  The payload is left to  *)
(* the module of the event path.                                           *)
(***************************************************************************)
EXTENDS Naturals, FiniteSets

CONSTANTS
    StopMayFail,            \* bt_le_adv_stop may fail and leave the radio on
    StartMayFail,           \* bt_le_adv_start may fail for a reason of its own
    CooldownOutlastsBurst,  \* MOTION_COOLDOWN_MS exceeds the lateness of a
                            \* burst: no motion passes the gate before the
                            \* previous motion burst was ended
    ImuReady,               \* setup_imu_wake_int1 succeeded at boot
    HostMayNeed,            \* the threads of which hostNeeds is a subset
    Cooperative             \* Zephyr's default priorities: the workqueue and
                            \* the host thread are cooperative and yield only
                            \* where they block; FALSE lets every thread be
                            \* preempted anywhere

ASSUME FlagsAssumption ==
    /\ StopMayFail \in BOOLEAN
    /\ StartMayFail \in BOOLEAN
    /\ CooldownOutlastsBurst \in BOOLEAN
    /\ ImuReady \in BOOLEAN
    /\ HostMayNeed \subseteq {"wq", "rx"}
    /\ Cooperative \in BOOLEAN

VARIABLES
    hostNeeds,  \* the threads the host works on: it completes no call of
                \* another thread while one of them waits for adv_mutex; fixed
    adv_state,  \* enum adv_state
    radio,      \* what the controller advertises: nothing, BTHome, config
    link,       \* the host holds a connection
    owner,      \* owner of adv_mutex, or "none"
    job,        \* the function each thread runs under adv_mutex
    at,         \* where in it the thread is
    delayed,    \* work items whose delay is running
    queued,     \* work items whose delay has expired, waiting for the queue
    running,    \* the item whose handler the workqueue runs, or "none"
    canceling,  \* that item was cancelled while its handler ran
    led,        \* colour of the RGB LED
    ledTimer,   \* led_off_timer is running
    wakeSem,    \* the count of wake_sem
    imuOn,      \* the IMU thread was started
    cooling     \* MOTION_COOLDOWN_MS has not passed since the last emit

workVars == <<delayed, queued, running, canceling>>
ledVars  == <<led, ledTimer>>
imuVars  == <<wakeSem, imuOn, cooling>>
lockVars == <<owner, job, at>>
moteVars == <<adv_state, radio, link, lockVars, workVars, ledVars, imuVars>>
vars == <<hostNeeds, moteVars>>

AdvStates == {"IDLE", "EVENT_BURST", "CONFIG_WINDOW", "CONNECTED"}
Threads == {"main", "imu", "wq", "rx"}
Work == {"burst_done", "config_timeout", "config_led", "connected_led"}
Jobs == {"burst", "window", "idle", "config_led", "connected_led", "connected"}
Colours == {"off", "green", "blue", "cyan"}

\* The limit of wake_sem.
SemLimit == 1

\* Thread priorities: the smaller number is served first by k_mutex_unlock.
Rank == [rx |-> 0, wq |-> 1, main |-> 2, imu |-> 3]

\* The function each work handler calls.
HandlerJob == [burst_done     |-> "window",
               config_timeout |-> "idle",
               config_led     |-> "config_led",
               connected_led  |-> "connected_led"]

TypeOK ==
    /\ hostNeeds \in SUBSET HostMayNeed
    /\ adv_state \in AdvStates
    /\ radio \in {"off", "bthome", "config"}
    /\ link \in BOOLEAN
    /\ owner \in Threads \cup {"none"}
    /\ job \in [Threads -> Jobs \cup {"none"}]
    /\ at \in [Threads -> {"out", "lock", "stop", "start"}]
    /\ delayed \in SUBSET Work
    /\ queued \in SUBSET Work
    /\ running \in Work \cup {"none"}
    /\ canceling \in BOOLEAN
    /\ led \in Colours
    /\ ledTimer \in BOOLEAN
    /\ wakeSem \in 0 .. SemLimit
    /\ imuOn \in BOOLEAN
    /\ cooling \in BOOLEAN

\* main has run its set-up and is about to call start_bthome_burst(0, 150).
Init ==
    /\ hostNeeds \in SUBSET HostMayNeed
    /\ adv_state = "IDLE"
    /\ radio = "off"
    /\ link = FALSE
    /\ owner = "main"
    /\ job = [t \in Threads |-> IF t = "main" THEN "burst" ELSE "none"]
    /\ at = [t \in Threads |-> IF t = "main" THEN "lock" ELSE "out"]
    /\ delayed = {}
    /\ queued = {}
    /\ running = "none"
    /\ canceling = FALSE
    /\ led = "off"
    /\ ledTimer = FALSE
    /\ wakeSem = 0
    /\ imuOn = FALSE
    /\ cooling = FALSE

-----------------------------------------------------------------------------
(* adv_mutex: k_mutex_lock blocks, k_mutex_unlock hands the mutex to the    *)
(* waiting thread of the best priority.                                     *)

Waiting == {t \in Threads : at[t] = "lock" /\ owner # t}

Call(t, j) ==
    /\ job' = [job EXCEPT ![t] = j]
    /\ at' = [at EXCEPT ![t] = "lock"]
    /\ owner' = IF owner = "none" THEN t ELSE owner

Return(t) ==
    /\ job' = [job EXCEPT ![t] = "none"]
    /\ at' = [at EXCEPT ![t] = "out"]
    /\ owner' \in IF Waiting = {}
                  THEN {"none"}
                  ELSE {u \in Waiting : \A v \in Waiting : Rank[u] <= Rank[v]}

Holds(t, j, place) == owner = t /\ job[t] = j /\ at[t] = place

Proceed(t, place) ==
    /\ at' = [at EXCEPT ![t] = place]
    /\ UNCHANGED <<owner, job>>

\* The host answers a call that thread t, the owner of adv_mutex, has made.
HostAnswers(t) == hostNeeds \cap (Waiting \ {t}) = {}

\* No cooperative thread is between taking the mutex and its next blocking
\* call, so another thread may start to run.
CpuFree ==
    Cooperative => \A t \in {"wq", "rx"} : ~(owner = t /\ at[t] = "lock")

-----------------------------------------------------------------------------
(* k_work_delayable: cancelling removes an item that is delayed or queued,  *)
(* and only marks one whose handler already runs; scheduling is a no-op on  *)
(* an item that is pending, or running and marked.                          *)

Cancel(items) ==
    /\ delayed' = delayed \ items
    /\ queued' = queued \ items
    /\ canceling' = (canceling \/ running \in items)
    /\ UNCHANGED running

Schedulable(w) == w \notin queued /\ ~(running = w /\ canceling)

\* The workqueue forgets the item when its handler returns; a call made by
\* another thread leaves it alone.
HandlerReturns(t) ==
    IF t = "wq" THEN running' = "none" /\ canceling' = FALSE
                ELSE UNCHANGED <<running, canceling>>

\* Schedule items while, in the same step, thread t returns.
ScheduleAndReturn(t, items) ==
    /\ delayed' = delayed \cup {w \in items : Schedulable(w)}
    /\ UNCHANGED queued
    /\ HandlerReturns(t)
    /\ Return(t)

ReturnOnly(t) ==
    /\ HandlerReturns(t)
    /\ Return(t)
    /\ UNCHANGED <<delayed, queued>>

Pulse(colour) == led' = colour /\ ledTimer' = TRUE

LedOff == led' = "off" /\ UNCHANGED ledTimer

\* The host refuses to advertise twice, and to be connectable while its only
\* connection object is taken.
StartPossible(kind) == radio = "off" /\ (kind = "config" => ~link)

StartFails(kind) == StartMayFail \/ ~StartPossible(kind)

-----------------------------------------------------------------------------
(* start_bthome_burst, called by main (boot) and by the IMU thread.         *)

\* Variant: the early return forgets k_mutex_unlock.
BurstSuppressedKeepsMutex(t) ==
    /\ Holds(t, "burst", "lock")
    /\ adv_state = "CONNECTED"
    /\ job' = [job EXCEPT ![t] = "none"]
    /\ at' = [at EXCEPT ![t] = "out"]
    /\ UNCHANGED <<adv_state, radio, link, owner, workVars, ledVars, imuVars>>

\* Connected: the burst is suppressed.
BurstSuppressed(t) ==
    /\ Holds(t, "burst", "lock")
    /\ adv_state = "CONNECTED"
    /\ ReturnOnly(t)
    /\ UNCHANGED <<adv_state, radio, link, ledVars, imuVars>>

\* Variant: the test of adv_state is missing.
BurstBeginUnchecked(t) ==
    /\ Holds(t, "burst", "lock")
    /\ Cancel(Work)
    /\ IF t = "imu" THEN Pulse("green") ELSE LedOff
    /\ Proceed(t, "stop")
    /\ UNCHANGED <<adv_state, radio, link, imuVars>>

\* Cancel everything and, for motion, flash green.
BurstBegin(t) ==
    /\ Holds(t, "burst", "lock")
    /\ adv_state # "CONNECTED"
    /\ Cancel(Work)
    /\ IF t = "imu" THEN Pulse("green") ELSE LedOff
    /\ Proceed(t, "stop")
    /\ UNCHANGED <<adv_state, radio, link, imuVars>>

\* stop_advertising only logs a failure.
StopAdvertising(t) ==
    /\ owner = t
    /\ job[t] \in {"burst", "window"}
    /\ at[t] = "stop"
    /\ HostAnswers(t)
    /\ \/ radio' = "off"
       \/ StopMayFail /\ UNCHANGED radio
    /\ Proceed(t, "start")
    /\ UNCHANGED <<adv_state, link, workVars, ledVars, imuVars>>

\* Variant: burst_done_work is not scheduled.
BurstStartedUnarmed(t) ==
    /\ Holds(t, "burst", "start") /\ HostAnswers(t)
    /\ StartPossible("bthome")
    /\ radio' = "bthome"
    /\ adv_state' = "EVENT_BURST"
    /\ ReturnOnly(t)
    /\ imuOn' = (imuOn \/ (t = "main" /\ ImuReady))
    /\ UNCHANGED <<link, ledVars, wakeSem, cooling>>

\* After the boot burst main starts the IMU thread, if the IMU is ready.
BurstStarted(t) ==
    /\ Holds(t, "burst", "start") /\ HostAnswers(t)
    /\ StartPossible("bthome")
    /\ radio' = "bthome"
    /\ adv_state' = "EVENT_BURST"
    /\ ScheduleAndReturn(t, {"burst_done"})
    /\ imuOn' = (imuOn \/ (t = "main" /\ ImuReady))
    /\ UNCHANGED <<link, ledVars, wakeSem, cooling>>

\* main returns without starting the IMU thread when the boot burst fails.
BurstStartFailed(t) ==
    /\ Holds(t, "burst", "start") /\ HostAnswers(t)
    /\ StartFails("bthome")
    /\ adv_state' = "IDLE"
    /\ ReturnOnly(t)
    /\ UNCHANGED <<radio, link, ledVars, imuVars>>

-----------------------------------------------------------------------------
(* enter_config_window, called by burst_done_handler.                       *)

WindowSuppressed ==
    /\ Holds("wq", "window", "lock")
    /\ adv_state = "CONNECTED"
    /\ ReturnOnly("wq")
    /\ UNCHANGED <<adv_state, radio, link, ledVars, imuVars>>

WindowBegin ==
    /\ Holds("wq", "window", "lock")
    /\ adv_state # "CONNECTED"
    /\ Cancel(Work)
    /\ LedOff
    /\ Proceed("wq", "stop")
    /\ UNCHANGED <<adv_state, radio, link, imuVars>>

\* Variant: config_timeout_work is cancelled after it was scheduled.
WindowOpenedUnarmed ==
    /\ Holds("wq", "window", "start") /\ HostAnswers("wq")
    /\ StartPossible("config")
    /\ radio' = "config"
    /\ adv_state' = "CONFIG_WINDOW"
    /\ Pulse("blue")
    /\ ScheduleAndReturn("wq", {"config_led"})
    /\ UNCHANGED <<link, imuVars>>

WindowOpened ==
    /\ Holds("wq", "window", "start") /\ HostAnswers("wq")
    /\ StartPossible("config")
    /\ radio' = "config"
    /\ adv_state' = "CONFIG_WINDOW"
    /\ Pulse("blue")
    /\ ScheduleAndReturn("wq", {"config_led", "config_timeout"})
    /\ UNCHANGED <<link, imuVars>>

WindowStartFailed ==
    /\ Holds("wq", "window", "start") /\ HostAnswers("wq")
    /\ StartFails("config")
    /\ adv_state' = "IDLE"
    /\ ReturnOnly("wq")
    /\ UNCHANGED <<radio, link, ledVars, imuVars>>

-----------------------------------------------------------------------------
(* enter_idle, called by config_timeout_handler and bt_disconnected.        *)

IdleBegin(t) ==
    /\ Holds(t, "idle", "lock")
    /\ Cancel(Work)
    /\ LedOff
    /\ Proceed(t, "stop")
    /\ UNCHANGED <<adv_state, radio, link, imuVars>>

\* Variant: the advertising is not stopped.
IdleDoneOnAir(t) ==
    /\ Holds(t, "idle", "stop") /\ HostAnswers(t)
    /\ adv_state' = "IDLE"
    /\ ReturnOnly(t)
    /\ UNCHANGED <<radio, link, ledVars, imuVars>>

IdleDone(t) ==
    /\ Holds(t, "idle", "stop") /\ HostAnswers(t)
    /\ \/ radio' = "off"
       \/ StopMayFail /\ UNCHANGED radio
    /\ adv_state' = "IDLE"
    /\ ReturnOnly(t)
    /\ UNCHANGED <<link, ledVars, imuVars>>

-----------------------------------------------------------------------------
(* The two blinking handlers check the state again under the mutex.         *)

\* Variant: the handler does not check the state again.
ConfigLedTickUnchecked ==
    /\ Holds("wq", "config_led", "lock")
    /\ Pulse("blue")
    /\ ScheduleAndReturn("wq", {"config_led"})
    /\ UNCHANGED <<adv_state, radio, link, imuVars>>

ConfigLedTick ==
    /\ Holds("wq", "config_led", "lock")
    /\ adv_state = "CONFIG_WINDOW"
    /\ Pulse("blue")
    /\ ScheduleAndReturn("wq", {"config_led"})
    /\ UNCHANGED <<adv_state, radio, link, imuVars>>

ConfigLedStale ==
    /\ Holds("wq", "config_led", "lock")
    /\ adv_state # "CONFIG_WINDOW"
    /\ ReturnOnly("wq")
    /\ UNCHANGED <<adv_state, radio, link, ledVars, imuVars>>

ConnectedLedTick ==
    /\ Holds("wq", "connected_led", "lock")
    /\ adv_state = "CONNECTED"
    /\ Pulse("cyan")
    /\ ScheduleAndReturn("wq", {"connected_led"})
    /\ UNCHANGED <<adv_state, radio, link, imuVars>>

ConnectedLedStale ==
    /\ Holds("wq", "connected_led", "lock")
    /\ adv_state # "CONNECTED"
    /\ ReturnOnly("wq")
    /\ UNCHANGED <<adv_state, radio, link, ledVars, imuVars>>

-----------------------------------------------------------------------------
(* bt_connected calls no host function, so it is one step.  It does not     *)
(* stop the advertising.  The led_off_timer it stops is started again by    *)
(* the tick.                                                                *)

BtConnected ==
    LET cancelled == {"config_timeout", "burst_done", "config_led"} IN
    /\ Holds("rx", "connected", "lock")
    /\ queued' = queued \ cancelled
    /\ canceling' = (canceling \/ running \in cancelled)
    /\ delayed' = (delayed \ cancelled)
                    \cup {w \in {"connected_led"} : Schedulable(w)}
    /\ adv_state' = "CONNECTED"
    /\ Pulse("cyan")
    /\ Return("rx")
    /\ UNCHANGED <<radio, link, running, imuVars>>

-----------------------------------------------------------------------------
(* The Bluetooth host reports a connection, which ends the connectable      *)
(* advertising, and its loss; it calls back from its own thread, which is   *)
(* then busy until the callback returns.                                    *)

LinkUp ==
    /\ CpuFree
    /\ radio = "config"
    /\ at["rx"] = "out"
    /\ link' = TRUE
    /\ radio' = "off"
    /\ Call("rx", "connected")
    /\ UNCHANGED <<adv_state, workVars, ledVars, imuVars>>

LinkDown ==
    /\ CpuFree
    /\ link
    /\ at["rx"] = "out"
    /\ link' = FALSE
    /\ Call("rx", "idle")
    /\ UNCHANGED <<adv_state, radio, workVars, ledVars, imuVars>>

-----------------------------------------------------------------------------
(* The kernel: timers, the workqueue, the interrupt.                        *)

WorkTimerExpires(w) ==
    /\ w \in delayed
    /\ delayed' = delayed \ {w}
    /\ queued' = queued \cup {w}
    /\ UNCHANGED <<adv_state, radio, link, lockVars, running, canceling,
                   ledVars, imuVars>>

\* The workqueue runs one handler at a time, and each handler starts by
\* locking adv_mutex.
RunWork(w) ==
    /\ CpuFree
    /\ running = "none"
    /\ w \in queued
    /\ queued' = queued \ {w}
    /\ running' = w
    /\ Call("wq", HandlerJob[w])
    /\ UNCHANGED <<adv_state, radio, link, delayed, canceling, ledVars,
                   imuVars>>

LedTimerExpires ==
    /\ ledTimer
    /\ led' = "off"
    /\ ledTimer' = FALSE
    /\ UNCHANGED <<adv_state, radio, link, lockVars, workVars, imuVars>>

\* Variant: the semaphore has no limit.
ImuInterruptCounts ==
    /\ wakeSem' = wakeSem + 1
    /\ UNCHANGED <<adv_state, radio, link, lockVars, workVars, ledVars,
                   imuOn, cooling>>

\* imu_int_handler: an interrupt that finds the semaphore at its limit changes
\* nothing.
ImuInterrupt ==
    /\ wakeSem < SemLimit
    /\ wakeSem' = wakeSem + 1
    /\ UNCHANGED <<adv_state, radio, link, lockVars, workVars, ledVars,
                   imuOn, cooling>>

-----------------------------------------------------------------------------
(* state_machine_task: take the semaphore, read the IMU, ask the gate.      *)

\* A register read failed, or the gate answered NONE or INACTIVITY.
WakeIgnored ==
    /\ CpuFree
    /\ imuOn /\ wakeSem > 0 /\ at["imu"] = "out"
    /\ wakeSem' = wakeSem - 1
    /\ UNCHANGED <<adv_state, radio, link, lockVars, workVars, ledVars,
                   imuOn, cooling>>

\* The gate starts its cooldown before the burst, whatever becomes of it.
WakeEmits ==
    /\ CpuFree
    /\ imuOn /\ wakeSem > 0 /\ at["imu"] = "out"
    /\ ~cooling
    /\ wakeSem' = wakeSem - 1
    /\ cooling' = TRUE
    /\ Call("imu", "burst")
    /\ UNCHANGED <<adv_state, radio, link, workVars, ledVars, imuOn>>

CooldownOver ==
    /\ cooling
    /\ CooldownOutlastsBurst =>
         /\ at["imu"] = "out"
         /\ "burst_done" \notin delayed \cup queued \cup {running}
    /\ cooling' = FALSE
    /\ UNCHANGED <<adv_state, radio, link, lockVars, workVars, ledVars,
                   wakeSem, imuOn>>

-----------------------------------------------------------------------------
BurstStep(t) ==
    \/ BurstSuppressed(t) \/ BurstBegin(t)
    \/ BurstStarted(t) \/ BurstStartFailed(t)

WindowStep ==
    \/ WindowSuppressed \/ WindowBegin
    \/ WindowOpened \/ WindowStartFailed

IdleStep(t) == IdleBegin(t) \/ IdleDone(t)

LedStep ==
    \/ ConfigLedTick \/ ConfigLedStale
    \/ ConnectedLedTick \/ ConnectedLedStale

MainStep == BurstStep("main") \/ StopAdvertising("main")
ImuStep  == BurstStep("imu") \/ StopAdvertising("imu")
WqStep   == WindowStep \/ StopAdvertising("wq") \/ IdleStep("wq") \/ LedStep
RxStep   == BtConnected \/ IdleStep("rx")
Wake     == WakeIgnored \/ WakeEmits

Next ==
    /\ UNCHANGED hostNeeds
    /\ \/ MainStep \/ ImuStep \/ WqStep \/ RxStep
       \/ LinkUp \/ LinkDown
       \/ \E w \in Work : WorkTimerExpires(w) \/ RunWork(w)
       \/ LedTimerExpires
       \/ ImuInterrupt \/ Wake \/ CooldownOver

Spec == Init /\ [][Next]_vars

\* Threads run, timers fire, the queue serves what is queued.  Nothing is
\* assumed of motion, of the central or of the radio.
Fairness ==
    /\ WF_moteVars(MainStep) /\ WF_moteVars(ImuStep)
    /\ WF_moteVars(WqStep) /\ WF_moteVars(RxStep)
    /\ WF_moteVars(Wake) /\ WF_moteVars(LedTimerExpires) /\ WF_moteVars(CooldownOver)
    /\ \A w \in Work : WF_moteVars(WorkTimerExpires(w)) /\ SF_moteVars(RunWork(w))

FairSpec == Spec /\ Fairness

-----------------------------------------------------------------------------
(* Properties.                                                              *)

\* No function is between two host calls: the state is not in transition.
Settled == \A t \in Threads : at[t] \notin {"stop", "start"}

Armed(w) == w \in delayed \cup queued
Pending(w) == Armed(w) \/ running = w

\* Every burst has an end: while the mote is in EVENT_BURST, burst_done_work
\* is scheduled or its handler is under way, whatever cancelled it before.
BurstWatchdog ==
    Settled /\ adv_state = "EVENT_BURST" => Pending("burst_done")

\* Every configuration window has an end: config_timeout_work is scheduled or
\* its handler is under way.
WindowWatchdog ==
    Settled /\ adv_state = "CONFIG_WINDOW" => Pending("config_timeout")

\* The cyan blinking of a connection never dies: k_work_schedule on
\* connected_led_work was not swallowed by a cancellation still in progress.
ConnectedBlinks ==
    Settled /\ adv_state = "CONNECTED" => Pending("connected_led")

\* The LED is never left burning: a lit LED has its off-timer running, even
\* after bt_connected stopped that timer.
LedGoesOff == led # "off" => ledTimer

\* The LED tells the state (mote/README.md, LED table): the slow blinks exclude
\* each other, that of a connection goes on, and a colour is never left over
\* from a state the mote has left, nor burning for ever.
LedTellsState ==
    /\ ConnectedBlinks
    /\ LedGoesOff
    /\ ~(Armed("config_led") /\ Armed("connected_led"))
    /\ (Settled /\ led = "blue") => adv_state = "CONFIG_WINDOW"
    /\ (Settled /\ led = "cyan") => adv_state = "CONNECTED"

\* The mote is connectable only in its configuration window, and silent when
\* idle (mote/README.md: no advertising when quiet); the state the code keeps
\* agrees with the radio unless a stop failed.
RadioFollowsState ==
    ~StopMayFail /\ Settled =>
        /\ radio = "config" => adv_state = "CONFIG_WINDOW"
        /\ adv_state = "IDLE" => radio = "off"
        /\ adv_state = "EVENT_BURST" => radio = "bthome"
        /\ adv_state = "CONFIG_WINDOW" =>
             (radio = "config" \/ job["rx"] = "connected")

\* A step out of CONNECTED is the disconnect callback or a stale
\* config_timeout handler, and always goes through IDLE: motion and the end of
\* a burst never take the mote out of CONNECTED.
ConnectedEndsIdle ==
    [][adv_state = "CONNECTED" /\ adv_state' # "CONNECTED"
         => adv_state' = "IDLE" /\ \E t \in {"rx", "wq"} : job[t] = "idle"]_vars

\* The deadlock of adv_mutex: its owner is in a call of the host, which needs a
\* thread that waits for adv_mutex.
Deadlocked == owner # "none" /\ at[owner] # "lock" /\ ~HostAnswers(owner)

\* A burst ends, although motion may come again as soon as the cooldown is
\* over, unless adv_mutex is deadlocked.
BurstEnds ==
    adv_state = "EVENT_BURST" ~> adv_state # "EVENT_BURST" \/ Deadlocked

\* Each call and each callback returns, of every thread, unless the owner of
\* adv_mutex is in a call of the host and the host needs a thread that waits for
\* adv_mutex: no other circle of waiting is possible, nor does one thread
\* overtake another for ever.
CallsReturn ==
    \A t \in Threads : at[t] # "out" ~> at[t] = "out" \/ Deadlocked

\* When motion stops, the mote returns to silence for good, unless a
\* central keeps the connection or adv_mutex is deadlocked.
ReturnsToSilence ==
    <>[](wakeSem = 0) => <>[](radio = "off" \/ link \/ Deadlocked)

-----------------------------------------------------------------------------
(* What the repository says and the code does not do.                       *)

\* "Web BT connected: cyan, every 2 s" (mote/README.md:19): once the
\* connection was reported the mote stays in CONNECTED until it ends.
ConnectionIsKnown ==
    Settled /\ link /\ at["rx"] = "out" => adv_state = "CONNECTED"
=============================================================================
