---------------------------- MODULE MoteAdvProofs ----------------------------
(***************************************************************************)
(* Theorems about MoteAdv, for every value of its constants.               *)
(***************************************************************************)
EXTENDS MoteAdv, TLAPS

\* adv_mutex protects the functions: only its owner is past its lock, and a
\* thread runs only the functions its code calls.
LockInv ==
    /\ \A t \in Threads : at[t] = "out" <=> job[t] = "none"
    /\ \A t \in Threads : at[t] \in {"stop", "start"} => owner = t
    /\ owner # "none" => at[owner] # "out"
    /\ job["main"] \in {"none", "burst"}
    /\ job["imu"] \in {"none", "burst"}
    /\ job["rx"] \in {"none", "connected", "idle"}

\* The workqueue thread runs the function of the handler it is in.
WqInv ==
    /\ running = "none" => job["wq"] = "none" /\ ~canceling
    /\ running # "none" => job["wq"] = HandlerJob[running]

Watchdogs == BurstWatchdog /\ WindowWatchdog

IInv == TypeOK /\ LockInv /\ WqInv /\ Watchdogs

-----------------------------------------------------------------------------
(* The types of what each helper leaves behind.                             *)

LEMMA CallType ==
  ASSUME TypeOK, NEW t \in Threads, NEW j \in Jobs, Call(t, j)
  PROVE  /\ owner' \in Threads \cup {"none"}
         /\ job' \in [Threads -> Jobs \cup {"none"}]
         /\ at' \in [Threads -> {"out", "lock", "stop", "start"}]
  BY DEF TypeOK, Call

LEMMA ReturnType ==
  ASSUME TypeOK, NEW t \in Threads, Return(t)
  PROVE  /\ owner' \in Threads \cup {"none"}
         /\ job' \in [Threads -> Jobs \cup {"none"}]
         /\ at' \in [Threads -> {"out", "lock", "stop", "start"}]
<1>1. owner' \in Waiting \cup {"none"}
  BY DEF Return
<1>2. Waiting \subseteq Threads
  BY DEF Waiting
<1> QED BY <1>1, <1>2 DEF TypeOK, Return

LEMMA ProceedType ==
  ASSUME TypeOK, NEW t \in Threads, NEW place \in {"stop", "start"},
         Proceed(t, place)
  PROVE  /\ owner' \in Threads \cup {"none"}
         /\ job' \in [Threads -> Jobs \cup {"none"}]
         /\ at' \in [Threads -> {"out", "lock", "stop", "start"}]
  BY DEF TypeOK, Proceed

LEMMA CancelType ==
  ASSUME TypeOK, NEW items, Cancel(items)
  PROVE  /\ delayed' \in SUBSET Work
         /\ queued' \in SUBSET Work
         /\ running' \in Work \cup {"none"}
         /\ canceling' \in BOOLEAN
  BY DEF TypeOK, Cancel

LEMMA HandlerReturnsType ==
  ASSUME TypeOK, NEW t \in Threads, HandlerReturns(t)
  PROVE  running' \in Work \cup {"none"} /\ canceling' \in BOOLEAN
  BY DEF TypeOK, HandlerReturns

LEMMA ReturnOnlyType ==
  ASSUME TypeOK, NEW t \in Threads, ReturnOnly(t)
  PROVE  /\ owner' \in Threads \cup {"none"}
         /\ job' \in [Threads -> Jobs \cup {"none"}]
         /\ at' \in [Threads -> {"out", "lock", "stop", "start"}]
         /\ delayed' \in SUBSET Work
         /\ queued' \in SUBSET Work
         /\ running' \in Work \cup {"none"}
         /\ canceling' \in BOOLEAN
<1>1. Return(t) /\ HandlerReturns(t) /\ UNCHANGED <<delayed, queued>>
  BY DEF ReturnOnly
<1> QED BY <1>1, ReturnType, HandlerReturnsType DEF TypeOK

LEMMA ScheduleType ==
  ASSUME TypeOK, NEW t \in Threads, NEW items \in SUBSET Work,
         ScheduleAndReturn(t, items)
  PROVE  /\ owner' \in Threads \cup {"none"}
         /\ job' \in [Threads -> Jobs \cup {"none"}]
         /\ at' \in [Threads -> {"out", "lock", "stop", "start"}]
         /\ delayed' \in SUBSET Work
         /\ queued' \in SUBSET Work
         /\ running' \in Work \cup {"none"}
         /\ canceling' \in BOOLEAN
<1>1. Return(t) /\ HandlerReturns(t) /\ queued' = queued
  BY DEF ScheduleAndReturn
<1>2. delayed' \in SUBSET Work
  BY DEF ScheduleAndReturn, TypeOK
<1> QED BY <1>1, <1>2, ReturnType, HandlerReturnsType DEF TypeOK

-----------------------------------------------------------------------------
LEMMA InitType == Init => TypeOK
<1> SUFFICES ASSUME Init PROVE TypeOK
  OBVIOUS
<1>1. /\ job \in [Threads -> Jobs \cup {"none"}]
      /\ at \in [Threads -> {"out", "lock", "stop", "start"}]
  BY DEF Init, Jobs
<1>2. owner \in Threads
  BY DEF Init, Threads
<1>3. wakeSem \in 0 .. SemLimit
  BY DEF Init, SemLimit
<1> QED BY <1>1, <1>2, <1>3 DEF Init, TypeOK, AdvStates, Work, Colours

LEMMA ThreadNames ==
  /\ "main" \in Threads /\ "imu" \in Threads
  /\ "wq" \in Threads /\ "rx" \in Threads
  BY DEF Threads

LEMMA WorkNames ==
  /\ "burst_done" \in Work /\ "config_timeout" \in Work
  /\ "config_led" \in Work /\ "connected_led" \in Work
  /\ "none" \notin Work
  /\ \A w \in Work : HandlerJob[w] \in Jobs
  BY DEF Work, HandlerJob, Jobs

\* Every step keeps every variable in its type.
LEMMA NextType == TypeOK /\ [Next]_vars => TypeOK'
<1> SUFFICES ASSUME TypeOK, [Next]_vars PROVE TypeOK'
  OBVIOUS
<1>0. hostNeeds' = hostNeeds
  BY DEF Next, vars
<1> USE ThreadNames, WorkNames, <1>0
<1>1. ASSUME NEW t \in Threads, BurstStep(t) PROVE TypeOK'
  <2>1. CASE BurstSuppressed(t)
    <3>1. ReturnOnly(t)
      BY <2>1 DEF BurstSuppressed
    <3> QED BY <2>1, <3>1, ReturnOnlyType
            DEF BurstSuppressed, TypeOK, ledVars, imuVars
  <2>2. CASE BurstBegin(t)
    <3>1. Cancel(Work) /\ Proceed(t, "stop")
      BY <2>2 DEF BurstBegin
    <3>2. led' \in Colours /\ ledTimer' \in BOOLEAN
      BY <2>2 DEF BurstBegin, Pulse, LedOff, TypeOK, Colours
    <3> QED BY <2>2, <3>1, <3>2, CancelType, ProceedType
            DEF BurstBegin, TypeOK, imuVars
  <2>3. CASE BurstStarted(t)
    <3>1. ScheduleAndReturn(t, {"burst_done"})
      BY <2>3 DEF BurstStarted
    <3>2. imuOn' \in BOOLEAN
      BY <2>3 DEF BurstStarted, TypeOK
    <3> QED BY <2>3, <3>1, <3>2, ScheduleType
            DEF BurstStarted, TypeOK, ledVars, AdvStates
  <2>4. CASE BurstStartFailed(t)
    <3>1. ReturnOnly(t)
      BY <2>4 DEF BurstStartFailed
    <3> QED BY <2>4, <3>1, ReturnOnlyType
            DEF BurstStartFailed, TypeOK, ledVars, imuVars, AdvStates
  <2> QED BY <1>1, <2>1, <2>2, <2>3, <2>4 DEF BurstStep
<1>2. ASSUME NEW t \in Threads, StopAdvertising(t) PROVE TypeOK'
  <2>1. Proceed(t, "start")
    BY <1>2 DEF StopAdvertising
  <2> QED BY <1>2, <2>1, ProceedType
          DEF StopAdvertising, TypeOK, workVars, ledVars, imuVars
<1>3. ASSUME WindowStep PROVE TypeOK'
  <2>1. CASE WindowSuppressed
    <3>1. ReturnOnly("wq")
      BY <2>1 DEF WindowSuppressed
    <3> QED BY <2>1, <3>1, ReturnOnlyType
            DEF WindowSuppressed, TypeOK, ledVars, imuVars
  <2>2. CASE WindowBegin
    <3>1. Cancel(Work) /\ Proceed("wq", "stop")
      BY <2>2 DEF WindowBegin
    <3> QED BY <2>2, <3>1, CancelType, ProceedType
            DEF WindowBegin, TypeOK, LedOff, Colours, imuVars
  <2>3. CASE WindowOpened
    <3>1. ScheduleAndReturn("wq", {"config_led", "config_timeout"})
      BY <2>3 DEF WindowOpened
    <3> QED BY <2>3, <3>1, ScheduleType
            DEF WindowOpened, TypeOK, Pulse, Colours, AdvStates, imuVars
  <2>4. CASE WindowStartFailed
    <3>1. ReturnOnly("wq")
      BY <2>4 DEF WindowStartFailed
    <3> QED BY <2>4, <3>1, ReturnOnlyType
            DEF WindowStartFailed, TypeOK, ledVars, imuVars, AdvStates
  <2> QED BY <1>3, <2>1, <2>2, <2>3, <2>4 DEF WindowStep
<1>4. ASSUME NEW t \in Threads, IdleStep(t) PROVE TypeOK'
  <2>1. CASE IdleBegin(t)
    <3>1. Cancel(Work) /\ Proceed(t, "stop")
      BY <2>1 DEF IdleBegin
    <3> QED BY <2>1, <3>1, CancelType, ProceedType
            DEF IdleBegin, TypeOK, LedOff, Colours, imuVars
  <2>2. CASE IdleDone(t)
    <3>1. ReturnOnly(t)
      BY <2>2 DEF IdleDone
    <3> QED BY <2>2, <3>1, ReturnOnlyType
            DEF IdleDone, TypeOK, ledVars, imuVars, AdvStates
  <2> QED BY <1>4, <2>1, <2>2 DEF IdleStep
<1>5. ASSUME LedStep PROVE TypeOK'
  <2>1. CASE ConfigLedTick
    <3>1. ScheduleAndReturn("wq", {"config_led"})
      BY <2>1 DEF ConfigLedTick
    <3> QED BY <2>1, <3>1, ScheduleType
            DEF ConfigLedTick, TypeOK, Pulse, Colours, imuVars
  <2>2. CASE ConnectedLedTick
    <3>1. ScheduleAndReturn("wq", {"connected_led"})
      BY <2>2 DEF ConnectedLedTick
    <3> QED BY <2>2, <3>1, ScheduleType
            DEF ConnectedLedTick, TypeOK, Pulse, Colours, imuVars
  <2>3. CASE ConfigLedStale \/ ConnectedLedStale
    <3>1. ReturnOnly("wq")
      BY <2>3 DEF ConfigLedStale, ConnectedLedStale
    <3> QED BY <2>3, <3>1, ReturnOnlyType
            DEF ConfigLedStale, ConnectedLedStale, TypeOK, ledVars, imuVars
  <2> QED BY <1>5, <2>1, <2>2, <2>3 DEF LedStep
<1>6. ASSUME BtConnected PROVE TypeOK'
  <2>1. Return("rx")
    BY <1>6 DEF BtConnected
  <2>2. /\ delayed' \in SUBSET Work /\ queued' \in SUBSET Work
        /\ canceling' \in BOOLEAN
    BY <1>6 DEF BtConnected, TypeOK
  <2> QED BY <1>6, <2>1, <2>2, ReturnType
          DEF BtConnected, TypeOK, Pulse, Colours, AdvStates, imuVars
<1>7. ASSUME LinkUp \/ LinkDown PROVE TypeOK'
  <2>1. Call("rx", "connected") \/ Call("rx", "idle")
    BY <1>7 DEF LinkUp, LinkDown
  <2>2. "connected" \in Jobs /\ "idle" \in Jobs
    BY DEF Jobs
  <2> QED BY <1>7, <2>1, <2>2, CallType
          DEF LinkUp, LinkDown, TypeOK, workVars, ledVars, imuVars
<1>8. ASSUME NEW w \in Work, WorkTimerExpires(w) PROVE TypeOK'
  BY <1>8 DEF WorkTimerExpires, TypeOK, lockVars, ledVars, imuVars
<1>9. ASSUME NEW w \in Work, RunWork(w) PROVE TypeOK'
  <2>1. Call("wq", HandlerJob[w])
    BY <1>9 DEF RunWork
  <2> QED BY <1>9, <2>1, CallType
          DEF RunWork, TypeOK, ledVars, imuVars
<1>10. ASSUME LedTimerExpires PROVE TypeOK'
  BY <1>10 DEF LedTimerExpires, TypeOK, Colours, lockVars, workVars, imuVars
<1>11. ASSUME WakeEmits PROVE TypeOK'
  <2>1. Call("imu", "burst")
    BY <1>11 DEF WakeEmits
  <2>2. "burst" \in Jobs
    BY DEF Jobs
  <2>3. wakeSem' \in 0 .. SemLimit
    BY <1>11 DEF WakeEmits, TypeOK, SemLimit
  <2> QED BY <1>11, <2>1, <2>2, <2>3, CallType
          DEF WakeEmits, TypeOK, workVars, ledVars
<1>12. ASSUME ImuInterrupt \/ WakeIgnored \/ CooldownOver PROVE TypeOK'
  <2>1. wakeSem' \in 0 .. SemLimit
    BY <1>12 DEF ImuInterrupt, WakeIgnored, CooldownOver, TypeOK, SemLimit
  <2> QED BY <1>12, <2>1
          DEF ImuInterrupt, WakeIgnored, CooldownOver, TypeOK,
              lockVars, workVars, ledVars
<1>13. CASE UNCHANGED vars
  BY <1>13 DEF vars, moteVars, lockVars, workVars, ledVars, imuVars, TypeOK
<1> QED
  BY <1>1, <1>2, <1>3, <1>4, <1>5, <1>6, <1>7, <1>8, <1>9, <1>10, <1>11,
     <1>12, <1>13
  DEF Next, MainStep, ImuStep, WqStep, RxStep, Wake

\* Every variable keeps its type in every reachable state.
THEOREM TypeCorrect == Spec => []TypeOK
<1> QED BY InitType, NextType, PTL DEF Spec
-----------------------------------------------------------------------------
(* How each helper keeps the mutex and the workqueue consistent.            *)

LEMMA LockReturn ==
  ASSUME TypeOK, LockInv, NEW t \in Threads, owner = t, Return(t)
  PROVE  LockInv'
<1>1. \/ owner' = "none"
      \/ owner' \in Threads /\ owner' # t /\ at[owner'] = "lock"
  BY DEF Return, Waiting
<1>2. \A u \in Threads : u # t => at'[u] = at[u] /\ job'[u] = job[u]
  BY DEF Return, TypeOK
<1>3. at'[t] = "out" /\ job'[t] = "none"
  BY DEF Return, TypeOK
<1>4. \A u \in Threads : at'[u] = "out" <=> job'[u] = "none"
  BY <1>2, <1>3 DEF LockInv
<1>5. \A u \in Threads : at'[u] \in {"stop", "start"} => owner' = u
  BY <1>2, <1>3 DEF LockInv
<1>6. owner' # "none" => at'[owner'] # "out"
  BY <1>1, <1>2
<1>7. /\ job'["main"] \in {"none", "burst"} /\ job'["imu"] \in {"none", "burst"}
      /\ job'["rx"] \in {"none", "connected", "idle"}
  BY <1>2, <1>3, ThreadNames DEF LockInv
<1> QED BY <1>4, <1>5, <1>6, <1>7 DEF LockInv

LEMMA LockProceed ==
  ASSUME TypeOK, LockInv, NEW t \in Threads, owner = t, at[t] # "out",
         NEW place \in {"stop", "start"}, Proceed(t, place)
  PROVE  LockInv'
<1>1. \A u \in Threads : u # t => at'[u] = at[u]
  BY DEF Proceed, TypeOK
<1>2. at'[t] = place /\ place # "out" /\ owner' = owner /\ job' = job
  BY DEF Proceed, TypeOK
<1> QED BY <1>1, <1>2 DEF LockInv

LEMMA LockCall ==
  ASSUME TypeOK, LockInv, NEW t \in Threads, at[t] = "out",
         NEW j \in Jobs, Call(t, j),
         t \in {"main", "imu"} => j = "burst",
         t = "rx" => j \in {"connected", "idle"}
  PROVE  LockInv'
<1>1. \A u \in Threads : u # t => at'[u] = at[u] /\ job'[u] = job[u]
  BY DEF Call, TypeOK
<1>2. at'[t] = "lock" /\ job'[t] = j /\ j # "none"
  BY DEF Call, TypeOK, Jobs
<1>3. owner' = IF owner = "none" THEN t ELSE owner
  BY DEF Call
<1>4. owner = "none" \/ owner \in Threads
  BY DEF TypeOK
<1>5. \A u \in Threads : at'[u] = "out" <=> job'[u] = "none"
  BY <1>1, <1>2 DEF LockInv
<1>6. \A u \in Threads : at'[u] \in {"stop", "start"} => owner' = u
  <2> TAKE u \in Threads
  <2>1. at'[u] \in {"stop", "start"} => u # t
    BY <1>2
  <2>2. u # t /\ at[u] \in {"stop", "start"} => owner' = u
    BY <1>3, ThreadNames DEF LockInv, Threads
  <2> QED BY <2>1, <2>2, <1>1
<1>7. owner' # "none" => at'[owner'] # "out"
  BY <1>1, <1>2, <1>3, <1>4 DEF LockInv
<1>8. /\ job'["main"] \in {"none", "burst"} /\ job'["imu"] \in {"none", "burst"}
      /\ job'["rx"] \in {"none", "connected", "idle"}
  BY <1>1, <1>2, ThreadNames DEF LockInv
<1> QED BY <1>5, <1>6, <1>7, <1>8 DEF LockInv

LEMMA WqReturn ==
  ASSUME TypeOK, WqInv, NEW t \in Threads, Return(t), HandlerReturns(t)
  PROVE  WqInv'
<1>1. CASE t = "wq"
  BY <1>1 DEF WqInv, Return, HandlerReturns, TypeOK
<1>2. CASE t # "wq"
  <2>1. job'["wq"] = job["wq"]
    BY <1>2, ThreadNames DEF Return, TypeOK
  <2> QED BY <1>2, <2>1 DEF WqInv, HandlerReturns
<1> QED BY <1>1, <1>2

LEMMA WqCancel ==
  ASSUME WqInv, NEW items \in SUBSET Work, Cancel(items), UNCHANGED job
  PROVE  WqInv'
  BY WorkNames DEF WqInv, Cancel

\* Every step keeps the mutex and the workqueue consistent.
LEMMA NextLock == TypeOK /\ LockInv /\ WqInv /\ [Next]_vars => LockInv' /\ WqInv'
<1> SUFFICES ASSUME TypeOK, LockInv, WqInv, [Next]_vars PROVE LockInv' /\ WqInv'
  OBVIOUS
<1> USE ThreadNames, WorkNames
<1>a. ASSUME NEW t \in Threads, owner = t, ReturnOnly(t) PROVE LockInv' /\ WqInv'
  BY <1>a, LockReturn, WqReturn DEF ReturnOnly
<1>b. ASSUME NEW t \in Threads, owner = t, NEW items, ScheduleAndReturn(t, items)
      PROVE LockInv' /\ WqInv'
  BY <1>b, LockReturn, WqReturn DEF ScheduleAndReturn
<1>c. ASSUME NEW t \in Threads, owner = t, at[t] = "lock",
             Proceed(t, "stop"), Cancel(Work)
      PROVE LockInv' /\ WqInv'
  BY <1>c, LockProceed, WqCancel DEF Proceed
<1>d. ASSUME UNCHANGED <<owner, job, at>>, UNCHANGED <<running, canceling>>
      PROVE LockInv' /\ WqInv'
  BY <1>d DEF LockInv, WqInv
<1>1. ASSUME NEW t \in Threads, BurstStep(t) PROVE LockInv' /\ WqInv'
  <2>1. owner = t
    BY <1>1 DEF BurstStep, BurstSuppressed, BurstBegin, BurstStarted,
                BurstStartFailed, Holds
  <2>2. \/ ReturnOnly(t)
        \/ at[t] = "lock" /\ Proceed(t, "stop") /\ Cancel(Work)
        \/ ScheduleAndReturn(t, {"burst_done"})
    BY <1>1 DEF BurstStep, BurstSuppressed, BurstBegin, BurstStarted,
                BurstStartFailed, Holds
  <2> QED BY <1>a, <1>b, <1>c, <2>1, <2>2
<1>2. ASSUME NEW t \in Threads, StopAdvertising(t) PROVE LockInv' /\ WqInv'
  <2>1. /\ owner = t /\ at[t] = "stop" /\ Proceed(t, "start")
        /\ UNCHANGED <<job, running, canceling>>
    BY <1>2 DEF StopAdvertising, workVars, Proceed
  <2> QED BY <2>1, LockProceed DEF WqInv
<1>3. ASSUME WindowStep PROVE LockInv' /\ WqInv'
  <2>1. owner = "wq"
    BY <1>3 DEF WindowStep, WindowSuppressed, WindowBegin, WindowOpened,
                WindowStartFailed, Holds
  <2>2. \/ ReturnOnly("wq")
        \/ at["wq"] = "lock" /\ Proceed("wq", "stop") /\ Cancel(Work)
        \/ ScheduleAndReturn("wq", {"config_led", "config_timeout"})
    BY <1>3 DEF WindowStep, WindowSuppressed, WindowBegin, WindowOpened,
                WindowStartFailed, Holds
  <2> QED BY <1>a, <1>b, <1>c, <2>1, <2>2
<1>4. ASSUME NEW t \in Threads, IdleStep(t) PROVE LockInv' /\ WqInv'
  <2>1. owner = t
    BY <1>4 DEF IdleStep, IdleBegin, IdleDone, Holds
  <2>2. \/ ReturnOnly(t)
        \/ at[t] = "lock" /\ Proceed(t, "stop") /\ Cancel(Work)
    BY <1>4 DEF IdleStep, IdleBegin, IdleDone, Holds
  <2> QED BY <1>a, <1>c, <2>1, <2>2
<1>5. ASSUME LedStep PROVE LockInv' /\ WqInv'
  <2>1. owner = "wq"
    BY <1>5 DEF LedStep, ConfigLedTick, ConfigLedStale, ConnectedLedTick,
                ConnectedLedStale, Holds
  <2>2. \/ ReturnOnly("wq")
        \/ ScheduleAndReturn("wq", {"config_led"})
        \/ ScheduleAndReturn("wq", {"connected_led"})
    BY <1>5 DEF LedStep, ConfigLedTick, ConfigLedStale, ConnectedLedTick,
                ConnectedLedStale
  <2> QED BY <1>a, <1>b, <2>1, <2>2
<1>6. ASSUME BtConnected PROVE LockInv' /\ WqInv'
  <2>1. owner = "rx" /\ Return("rx") /\ running' = running
    BY <1>6 DEF BtConnected, Holds
  <2>2. job'["wq"] = job["wq"]
    BY <2>1 DEF Return, TypeOK
  <2>3. canceling' = (canceling \/
           running \in {"config_timeout", "burst_done", "config_led"})
    BY <1>6 DEF BtConnected
  <2>4. WqInv'
    BY <2>1, <2>2, <2>3 DEF WqInv
  <2> QED BY <2>1, <2>4, LockReturn
<1>7. ASSUME LinkUp \/ LinkDown PROVE LockInv' /\ WqInv'
  <2>1. /\ at["rx"] = "out"
        /\ Call("rx", "connected") \/ Call("rx", "idle")
        /\ UNCHANGED <<running, canceling>>
    BY <1>7 DEF LinkUp, LinkDown, workVars
  <2>2. "connected" \in Jobs /\ "idle" \in Jobs
    BY DEF Jobs
  <2>3. job'["wq"] = job["wq"]
    BY <2>1 DEF Call, TypeOK
  <2>4. LockInv'
    BY <2>1, <2>2, LockCall
  <2> QED BY <2>1, <2>3, <2>4 DEF WqInv
<1>8. ASSUME NEW w \in Work, RunWork(w) PROVE LockInv' /\ WqInv'
  <2>1. /\ running = "none" /\ running' = w /\ canceling' = canceling
        /\ Call("wq", HandlerJob[w])
    BY <1>8 DEF RunWork
  <2>2. at["wq"] = "out"
    BY <2>1 DEF WqInv, LockInv
  <2>3. job'["wq"] = HandlerJob[w]
    BY <2>1 DEF Call, TypeOK
  <2>4. LockInv'
    BY <2>1, <2>2, LockCall
  <2> QED BY <2>1, <2>3, <2>4 DEF WqInv
<1>9. ASSUME WakeEmits PROVE LockInv' /\ WqInv'
  <2>1. /\ at["imu"] = "out" /\ Call("imu", "burst")
        /\ UNCHANGED <<running, canceling>>
    BY <1>9 DEF WakeEmits, workVars
  <2>2. "burst" \in Jobs
    BY DEF Jobs
  <2>3. job'["wq"] = job["wq"]
    BY <2>1 DEF Call, TypeOK
  <2>4. LockInv'
    BY <2>1, <2>2, LockCall
  <2> QED BY <2>1, <2>3, <2>4 DEF WqInv
<1>10. ASSUME NEW w \in Work, WorkTimerExpires(w) PROVE LockInv' /\ WqInv'
  BY <1>10, <1>d DEF WorkTimerExpires, lockVars
<1>11. ASSUME LedTimerExpires \/ ImuInterrupt \/ WakeIgnored \/ CooldownOver
       PROVE LockInv' /\ WqInv'
  BY <1>11, <1>d DEF LedTimerExpires, ImuInterrupt, WakeIgnored, CooldownOver,
                     lockVars, workVars
<1>12. CASE UNCHANGED vars
  BY <1>12, <1>d DEF vars, moteVars, lockVars, workVars
<1> QED
  BY <1>1, <1>2, <1>3, <1>4, <1>5, <1>6, <1>7, <1>8, <1>9, <1>10, <1>11, <1>12
  DEF Next, MainStep, ImuStep, WqStep, RxStep, Wake
-----------------------------------------------------------------------------
(* The watchdogs: a thread between two host calls owes its end; every other *)
(* step keeps the pending work or sets a state that has its own.            *)

LEMMA Unsettled ==
  ASSUME NEW t \in Threads, NEW place \in {"stop", "start"}, at'[t] = place
  PROVE  Watchdogs'
  BY DEF Watchdogs, BurstWatchdog, WindowWatchdog, Settled

LEMMA ProceedUnsettled ==
  ASSUME TypeOK, NEW t \in Threads, NEW place \in {"stop", "start"},
         Proceed(t, place)
  PROVE  Watchdogs'
  BY Unsettled DEF Proceed, TypeOK

LEMMA OtherState ==
  ASSUME adv_state' \in {"IDLE", "CONNECTED"}
  PROVE  Watchdogs'
  BY DEF Watchdogs, BurstWatchdog, WindowWatchdog

\* A thread that was between two host calls is the owner, so the return of a
\* call made at its lock leaves the others settled as they were.
LEMMA Frame ==
  ASSUME Watchdogs, UNCHANGED adv_state, Settled' => Settled,
         Pending("burst_done") => Pending("burst_done")',
         Pending("config_timeout") => Pending("config_timeout")'
  PROVE  Watchdogs'
  BY DEF Watchdogs, BurstWatchdog, WindowWatchdog

LEMMA SettledReturn ==
  ASSUME TypeOK, NEW t \in Threads, at[t] = "lock", Return(t)
  PROVE  Settled' => Settled
<1>1. \A u \in Threads : u # t => at'[u] = at[u]
  BY DEF Return, TypeOK
<1> QED BY <1>1 DEF Settled

LEMMA SettledCall ==
  ASSUME TypeOK, NEW t \in Threads, NEW j, at[t] = "out", Call(t, j)
  PROVE  Settled' => Settled
<1>1. \A u \in Threads : u # t => at'[u] = at[u]
  BY DEF Call, TypeOK
<1> QED BY <1>1 DEF Settled

\* An item scheduled by a handler of another item, or by another thread, is
\* pending afterwards.
LEMMA ScheduledIsPending ==
  ASSUME TypeOK, NEW t \in Threads, NEW items \in SUBSET Work, NEW w \in items,
         ScheduleAndReturn(t, items), t = "wq" => running # w
  PROVE  Pending(w)'
<1>1. delayed' = delayed \cup {x \in items : Schedulable(x)} /\ queued' = queued
  BY DEF ScheduleAndReturn
<1>2. CASE Schedulable(w)
  BY <1>1, <1>2 DEF Pending, Armed
<1>3. CASE w \in queued
  BY <1>1, <1>3 DEF Pending, Armed
<1>4. CASE running = w
  BY <1>4 DEF ScheduleAndReturn, HandlerReturns, Pending
<1> QED BY <1>2, <1>3, <1>4 DEF Schedulable

\* Returning from the handler of one item keeps the other items pending.
LEMMA PendingReturn ==
  ASSUME NEW t \in Threads, NEW w \in Work, HandlerReturns(t),
         delayed \subseteq delayed', queued' = queued,
         Pending(w), t = "wq" => running # w
  PROVE  Pending(w)'
  BY DEF HandlerReturns, Pending, Armed

\* Every step keeps the two watchdogs.
LEMMA NextWatch == IInv /\ [Next]_vars => Watchdogs'
<1> SUFFICES ASSUME TypeOK, LockInv, WqInv, Watchdogs, [Next]_vars
             PROVE  Watchdogs'
  BY DEF IInv
<1> USE ThreadNames, WorkNames
<1>1. ASSUME NEW t \in Threads, BurstStep(t) PROVE Watchdogs'
  <2>1. CASE BurstSuppressed(t)
    BY <2>1, OtherState DEF BurstSuppressed
  <2>2. CASE BurstBegin(t)
    BY <2>2, ProceedUnsettled DEF BurstBegin
  <2>3. CASE BurstStarted(t)
    <3>1. adv_state' = "EVENT_BURST" /\ ScheduleAndReturn(t, {"burst_done"})
      BY <2>3 DEF BurstStarted
    <3>2. t = "wq" => running # "burst_done"
      BY <2>3 DEF BurstStarted, Holds, WqInv, HandlerJob, Work
    <3>3. Pending("burst_done")'
      BY <3>1, <3>2, ScheduledIsPending
    <3> QED BY <3>1, <3>3 DEF Watchdogs, BurstWatchdog, WindowWatchdog
  <2>4. CASE BurstStartFailed(t)
    BY <2>4, OtherState DEF BurstStartFailed
  <2> QED BY <1>1, <2>1, <2>2, <2>3, <2>4 DEF BurstStep
<1>2. ASSUME NEW t \in Threads, StopAdvertising(t) PROVE Watchdogs'
  BY <1>2, ProceedUnsettled DEF StopAdvertising
<1>3. ASSUME WindowStep PROVE Watchdogs'
  <2>1. CASE WindowSuppressed
    BY <2>1, OtherState DEF WindowSuppressed
  <2>2. CASE WindowBegin
    BY <2>2, ProceedUnsettled DEF WindowBegin
  <2>3. CASE WindowOpened
    <3>1. /\ adv_state' = "CONFIG_WINDOW"
          /\ ScheduleAndReturn("wq", {"config_led", "config_timeout"})
      BY <2>3 DEF WindowOpened
    <3>2. running # "config_timeout"
      BY <2>3 DEF WindowOpened, Holds, WqInv, HandlerJob, Work
    <3>3. Pending("config_timeout")'
      BY <3>1, <3>2, ScheduledIsPending
    <3> QED BY <3>1, <3>3 DEF Watchdogs, BurstWatchdog, WindowWatchdog
  <2>4. CASE WindowStartFailed
    BY <2>4, OtherState DEF WindowStartFailed
  <2> QED BY <1>3, <2>1, <2>2, <2>3, <2>4 DEF WindowStep
<1>4. ASSUME NEW t \in Threads, IdleStep(t) PROVE Watchdogs'
  BY <1>4, ProceedUnsettled, OtherState DEF IdleStep, IdleBegin, IdleDone
<1>5. ASSUME LedStep PROVE Watchdogs'
  <2>1. job["wq"] \in {"config_led", "connected_led"} /\ at["wq"] = "lock"
    BY <1>5 DEF LedStep, ConfigLedTick, ConfigLedStale, ConnectedLedTick,
                ConnectedLedStale, Holds
  <2>2. running # "burst_done" /\ running # "config_timeout"
    BY <2>1 DEF WqInv, HandlerJob, Work
  <2>3. /\ adv_state' = adv_state /\ queued' = queued /\ delayed \subseteq delayed'
        /\ Return("wq") /\ HandlerReturns("wq")
    BY <1>5 DEF LedStep, ConfigLedTick, ConfigLedStale, ConnectedLedTick,
                ConnectedLedStale, ReturnOnly, ScheduleAndReturn
  <2>4. Settled' => Settled
    BY <2>1, <2>3, SettledReturn
  <2> QED BY <2>2, <2>3, <2>4, PendingReturn, Frame
<1>6. ASSUME BtConnected PROVE Watchdogs'
  BY <1>6, OtherState DEF BtConnected
<1>7. ASSUME LinkUp \/ LinkDown PROVE Watchdogs'
  <2>1. /\ at["rx"] = "out" /\ adv_state' = adv_state
        /\ UNCHANGED <<delayed, queued, running>>
        /\ Call("rx", "connected") \/ Call("rx", "idle")
    BY <1>7 DEF LinkUp, LinkDown, workVars
  <2> QED BY <2>1, SettledCall, Frame DEF Pending, Armed
<1>8. ASSUME NEW w \in Work, RunWork(w) PROVE Watchdogs'
  <2>1. /\ running = "none" /\ running' = w /\ queued' = queued \ {w}
        /\ Call("wq", HandlerJob[w])
        /\ UNCHANGED <<adv_state, delayed>>
    BY <1>8 DEF RunWork
  <2>2. at["wq"] = "out"
    BY <2>1 DEF WqInv, LockInv
  <2>3. \A x \in Work : Pending(x) => Pending(x)'
    BY <2>1 DEF Pending, Armed
  <2> QED BY <2>1, <2>2, <2>3, SettledCall, Frame
<1>9. ASSUME WakeEmits PROVE Watchdogs'
  <2>1. /\ at["imu"] = "out" /\ adv_state' = adv_state
        /\ UNCHANGED <<delayed, queued, running>> /\ Call("imu", "burst")
    BY <1>9 DEF WakeEmits, workVars
  <2> QED BY <2>1, SettledCall, Frame DEF Pending, Armed
<1>10. ASSUME NEW w \in Work, WorkTimerExpires(w) PROVE Watchdogs'
  <2>1. /\ delayed' = delayed \ {w} /\ queued' = queued \cup {w}
        /\ UNCHANGED <<adv_state, at, running>>
    BY <1>10 DEF WorkTimerExpires, lockVars
  <2>2. \A x \in Work : Pending(x) => Pending(x)'
    BY <2>1 DEF Pending, Armed
  <2> QED BY <2>1, <2>2, Frame DEF Settled
<1>11. ASSUME LedTimerExpires \/ ImuInterrupt \/ WakeIgnored \/ CooldownOver
       PROVE  Watchdogs'
  BY <1>11, Frame DEF LedTimerExpires, ImuInterrupt, WakeIgnored, CooldownOver,
                      lockVars, workVars, Settled, Pending, Armed
<1>12. CASE UNCHANGED vars
  BY <1>12, Frame DEF vars, moteVars, lockVars, workVars, Settled, Pending, Armed
<1> QED
  BY <1>1, <1>2, <1>3, <1>4, <1>5, <1>6, <1>7, <1>8, <1>9, <1>10, <1>11, <1>12
  DEF Next, MainStep, ImuStep, WqStep, RxStep, Wake

LEMMA InitInv == Init => IInv
<1> SUFFICES ASSUME Init PROVE IInv
  OBVIOUS
<1>1. LockInv
  BY ThreadNames DEF Init, LockInv
<1>2. WqInv
  BY ThreadNames DEF Init, WqInv
<1>3. Watchdogs
  BY DEF Init, Watchdogs, BurstWatchdog, WindowWatchdog
<1> QED BY <1>1, <1>2, <1>3, InitType DEF IInv

\* The inductive invariant holds in every reachable state: the mutex is held by
\* the thread past its lock, and the watchdogs follow.
THEOREM Invariance == Spec => []IInv
<1>1. IInv /\ [Next]_vars => IInv'
  BY NextType, NextLock, NextWatch DEF IInv
<1> QED BY <1>1, InitInv, PTL DEF Spec

\* Every burst has an end: whatever the interleaving and whatever fails, a
\* mote in EVENT_BURST has burst_done_work pending.
THEOREM BurstAlwaysEnds == Spec => []BurstWatchdog
<1>1. IInv => BurstWatchdog
  BY DEF IInv, Watchdogs
<1> QED BY <1>1, Invariance, PTL

\* Every configuration window has an end: a mote in CONFIG_WINDOW has
\* config_timeout_work pending.
THEOREM WindowAlwaysEnds == Spec => []WindowWatchdog
<1>1. IInv => WindowWatchdog
  BY DEF IInv, Watchdogs
<1> QED BY <1>1, Invariance, PTL

-----------------------------------------------------------------------------
(* The LED and the radio.  The steps that matter to them come in a few      *)
(* shapes, whatever the function and the thread.                            *)

\* A function starts: everything is cancelled, the LED is off or green.
Begins(t) ==
    /\ owner = t /\ at[t] = "lock"
    /\ job[t] \in {"burst", "window", "idle"}
    /\ job[t] \in {"burst", "window"} => adv_state # "CONNECTED"
    /\ Cancel(Work)
    /\ Proceed(t, "stop")
    /\ \/ led' = "green" /\ ledTimer' = TRUE
       \/ led' = "off" /\ ledTimer' = ledTimer
    /\ UNCHANGED <<adv_state, radio, link>>

\* A function finds that it has nothing to do, and returns.
Leaves(t) ==
    /\ owner = t /\ at[t] = "lock"
    /\ job[t] \in {"burst", "window"} => adv_state = "CONNECTED"
    /\ job[t] = "connected_led" => adv_state # "CONNECTED"
    /\ job[t] \in {"burst", "window", "config_led", "connected_led"}
    /\ ReturnOnly(t)
    /\ UNCHANGED <<adv_state, radio, link, ledVars>>

\* A function that has stopped the radio ends in IDLE: the start failed, or
\* there was none.
Silences(t) ==
    /\ owner = t
    /\ \/ at[t] = "start" /\ job[t] \in {"burst", "window"} /\ radio' = radio
       \/ at[t] = "stop" /\ job[t] = "idle"
            /\ (radio' = "off" \/ (StopMayFail /\ radio' = radio))
    /\ adv_state' = "IDLE"
    /\ ReturnOnly(t)
    /\ UNCHANGED <<link, ledVars>>

\* The step is none of the LED's, the radio's, the work's or the mutex's.
Quiet == UNCHANGED <<adv_state, radio, link, lockVars, workVars, ledVars>>

Shapes ==
    \/ \E t \in Threads : Begins(t) \/ Leaves(t) \/ Silences(t)
    \/ \E t \in Threads : StopAdvertising(t)
    \/ BurstStarted("main") \/ BurstStarted("imu")
    \/ WindowOpened
    \/ ConfigLedTick \/ ConnectedLedTick
    \/ BtConnected \/ LinkUp \/ LinkDown
    \/ \E w \in Work : WorkTimerExpires(w) \/ RunWork(w)
    \/ WakeEmits \/ LedTimerExpires \/ Quiet

LEMMA StepShapes == [Next]_vars => Shapes
<1> SUFFICES ASSUME [Next]_vars PROVE Shapes
  OBVIOUS
<1> USE ThreadNames
<1>1. ASSUME NEW t \in {"main", "imu"}, BurstStep(t) PROVE Shapes
  <2>1. CASE BurstSuppressed(t)
    <3>1. Leaves(t)
      BY <2>1 DEF BurstSuppressed, Leaves, Holds
    <3> QED BY <3>1 DEF Shapes
  <2>2. CASE BurstBegin(t)
    <3>1. Begins(t)
      BY <2>2 DEF BurstBegin, Begins, Holds, Pulse, LedOff
    <3> QED BY <3>1 DEF Shapes
  <2>3. CASE BurstStarted(t)
    BY <2>3 DEF Shapes
  <2>4. CASE BurstStartFailed(t)
    <3>1. Silences(t)
      BY <2>4 DEF BurstStartFailed, Silences, Holds
    <3> QED BY <3>1 DEF Shapes
  <2> QED BY <1>1, <2>1, <2>2, <2>3, <2>4 DEF BurstStep
<1>2. ASSUME NEW t \in Threads, StopAdvertising(t) PROVE Shapes
  BY <1>2 DEF Shapes
<1>3. ASSUME WindowStep PROVE Shapes
  <2>1. CASE WindowSuppressed
    <3>1. Leaves("wq")
      BY <2>1 DEF WindowSuppressed, Leaves, Holds
    <3> QED BY <3>1 DEF Shapes
  <2>2. CASE WindowBegin
    <3>1. Begins("wq")
      BY <2>2 DEF WindowBegin, Begins, Holds, LedOff
    <3> QED BY <3>1 DEF Shapes
  <2>3. CASE WindowOpened
    BY <2>3 DEF Shapes
  <2>4. CASE WindowStartFailed
    <3>1. Silences("wq")
      BY <2>4 DEF WindowStartFailed, Silences, Holds
    <3> QED BY <3>1 DEF Shapes
  <2> QED BY <1>3, <2>1, <2>2, <2>3, <2>4 DEF WindowStep
<1>4. ASSUME NEW t \in Threads, IdleStep(t) PROVE Shapes
  <2>1. CASE IdleBegin(t)
    <3>1. Begins(t)
      BY <2>1 DEF IdleBegin, Begins, Holds, LedOff
    <3> QED BY <3>1 DEF Shapes
  <2>2. CASE IdleDone(t)
    <3>1. Silences(t)
      BY <2>2 DEF IdleDone, Silences, Holds
    <3> QED BY <3>1 DEF Shapes
  <2> QED BY <1>4, <2>1, <2>2 DEF IdleStep
<1>5. ASSUME LedStep PROVE Shapes
  <2>1. CASE ConfigLedStale \/ ConnectedLedStale
    <3>1. Leaves("wq")
      BY <2>1 DEF ConfigLedStale, ConnectedLedStale, Leaves, Holds
    <3> QED BY <3>1 DEF Shapes
  <2> QED BY <1>5, <2>1 DEF LedStep, Shapes
<1>6. ASSUME ImuInterrupt \/ WakeIgnored \/ CooldownOver \/ UNCHANGED vars
      PROVE  Shapes
  <2>1. Quiet
    BY <1>6 DEF ImuInterrupt, WakeIgnored, CooldownOver, vars, moteVars, Quiet,
                lockVars, workVars, ledVars
  <2> QED BY <2>1 DEF Shapes
<1>7. ASSUME \/ BtConnected \/ LinkUp \/ LinkDown \/ LedTimerExpires \/ WakeEmits
             \/ \E w \in Work : WorkTimerExpires(w) \/ RunWork(w)
      PROVE  Shapes
  BY <1>7 DEF Shapes
<1> QED BY <1>1, <1>2, <1>3, <1>4, <1>5, <1>6, <1>7
        DEF Next, MainStep, ImuStep, WqStep, RxStep, Wake

\* The owner's return leaves nobody between two host calls.
LEMMA ReturnSettles ==
  ASSUME TypeOK, LockInv, NEW t \in Threads, owner = t, Return(t)
  PROVE  /\ Settled'
         /\ \A u \in Threads : u # t => at'[u] = at[u] /\ job'[u] = job[u]
         /\ at'[t] = "out" /\ job'[t] = "none"
<1>1. /\ \A u \in Threads : u # t => at'[u] = at[u] /\ job'[u] = job[u]
      /\ at'[t] = "out" /\ job'[t] = "none"
  BY DEF Return, TypeOK
<1> QED BY <1>1 DEF Settled, LockInv

\* A call is made from outside, and unsettles nobody.
LEMMA CallKeeps ==
  ASSUME TypeOK, NEW t \in Threads, NEW j, at[t] = "out", Call(t, j)
  PROVE  /\ \A u \in Threads : u # t => at'[u] = at[u] /\ job'[u] = job[u]
         /\ at'[t] = "lock" /\ job'[t] = j
         /\ Settled' <=> Settled
<1>1. /\ \A u \in Threads : u # t => at'[u] = at[u] /\ job'[u] = job[u]
      /\ at'[t] = "lock" /\ job'[t] = j
  BY DEF Call, TypeOK
<1> QED BY <1>1 DEF Settled

LEMMA ProceedKeeps ==
  ASSUME TypeOK, NEW t \in Threads, NEW place \in {"stop", "start"},
         Proceed(t, place)
  PROVE  /\ \A u \in Threads : u # t => at'[u] = at[u]
         /\ at'[t] = place /\ job' = job /\ owner' = owner
         /\ ~Settled'
<1>1. /\ \A u \in Threads : u # t => at'[u] = at[u]
      /\ at'[t] = place /\ job' = job /\ owner' = owner
  BY DEF Proceed, TypeOK
<1> QED BY <1>1 DEF Settled

\* At its lock, the owner is alone: nobody is between two host calls.
LEMMA OwnerAlone ==
  ASSUME LockInv, NEW t \in Threads, owner = t, at[t] \notin {"stop", "start"}
  PROVE  Settled
  BY DEF Settled, LockInv

\* The callers of a wake, a work item or a callback are outside.
LEMMA CallersOut ==
  ASSUME LockInv, WqInv
  PROVE  /\ \A w \in Work : RunWork(w) =>
               /\ at["wq"] = "out" /\ running = "none" /\ ~canceling
               /\ Call("wq", HandlerJob[w])
         /\ WakeEmits => at["imu"] = "out" /\ Call("imu", "burst")
         /\ LinkUp => at["rx"] = "out" /\ Call("rx", "connected")
         /\ LinkDown => at["rx"] = "out" /\ Call("rx", "idle")
  BY ThreadNames DEF LockInv, WqInv, RunWork, WakeEmits, LinkUp, LinkDown

-----------------------------------------------------------------------------
(* What the LED, the radio and the blinking work rest on.                   *)

\* Between two host calls of a function nothing is scheduled, the LED shows no
\* state, and a burst or a window found the mote unconnected.
BusyInv ==
    \A t \in Threads : at[t] \in {"stop", "start"} =>
        /\ delayed = {} /\ queued = {}
        /\ led \in {"off", "green"}
        /\ job[t] \in {"burst", "window"} => adv_state # "CONNECTED"

\* The blinking work is armed only in the state it shows.
BlinkInv ==
    /\ Armed("config_led") => adv_state = "CONFIG_WINDOW"
    /\ Armed("connected_led") => adv_state = "CONNECTED"

\* A cyan tick that a cancellation met on its way finds the mote disconnected:
\* the disconnect callback is at its host call, or has just handed the mutex to
\* the workqueue.
TickInv ==
    running = "connected_led" =>
        \/ ~canceling /\ adv_state = "CONNECTED"
        \/ job["rx"] = "idle" /\ at["rx"] = "stop"
        \/ owner = "wq" /\ adv_state = "IDLE"

\* While the connect callback is under way there is a connection, and no
\* connectable advertising.
LinkInv == job["rx"] = "connected" => link /\ radio # "config"

\* A start finds the radio stopped, unless the stop failed.
StoppedInv ==
    ~StopMayFail => \A t \in Threads : at[t] = "start" => radio = "off"

LEMMA NextBusy ==
  ASSUME TypeOK, LockInv, WqInv, BusyInv, Shapes
  PROVE  BusyInv'
<1> USE ThreadNames
<1>a. ASSUME Settled' PROVE BusyInv'
  BY <1>a DEF Settled, BusyInv
<1>b. ASSUME Settled' <=> Settled, delayed' = delayed, queued' \subseteq queued,
             led' = led, adv_state' = adv_state,
             \A u \in Threads : at[u] # "out" => at'[u] = at[u] /\ job'[u] = job[u],
             \A u \in Threads : at[u] = "out" => at'[u] \in {"lock", "out"}
      PROVE  BusyInv'
  BY <1>b DEF BusyInv
<1>1. ASSUME NEW t \in Threads, Begins(t) PROVE BusyInv'
  <2>1. /\ at'[t] = "stop" /\ job' = job
        /\ \A u \in Threads : u # t => at'[u] = at[u]
    BY <1>1, ProceedKeeps DEF Begins
  <2>2. delayed' = {} /\ queued' = {}
    BY <1>1 DEF Begins, Cancel, TypeOK
  <2>3. \A u \in Threads : u # t => at'[u] \notin {"stop", "start"}
    BY <1>1, <2>1 DEF Begins, LockInv
  <2> QED BY <1>1, <2>1, <2>2, <2>3 DEF BusyInv, Begins
<1>2. ASSUME NEW t \in Threads, Leaves(t) \/ Silences(t) PROVE BusyInv'
  <2>1. owner = t /\ Return(t)
    BY <1>2 DEF Leaves, Silences, ReturnOnly
  <2> QED BY <2>1, <1>a, ReturnSettles
<1>3. ASSUME NEW t \in Threads, StopAdvertising(t) PROVE BusyInv'
  <2>1. /\ at'[t] = "start" /\ job' = job
        /\ \A u \in Threads : u # t => at'[u] = at[u]
    BY <1>3, ProceedKeeps DEF StopAdvertising
  <2> QED BY <1>3, <2>1 DEF BusyInv, StopAdvertising, workVars, ledVars
<1>4. ASSUME \/ \E t \in {"main", "imu"} : BurstStarted(t)
             \/ WindowOpened \/ ConfigLedTick \/ ConnectedLedTick \/ BtConnected
      PROVE  BusyInv'
  <2>1. \E t \in Threads : owner = t /\ Return(t)
    BY <1>4 DEF BurstStarted, WindowOpened, ConfigLedTick, ConnectedLedTick,
                BtConnected, ScheduleAndReturn, Holds
  <2> QED BY <2>1, <1>a, ReturnSettles
<1>5. ASSUME LinkUp \/ LinkDown \/ WakeEmits \/ \E w \in Work : RunWork(w)
      PROVE  BusyInv'
  <2>1. /\ delayed' = delayed /\ queued' \subseteq queued
        /\ led' = led /\ adv_state' = adv_state
    BY <1>5 DEF LinkUp, LinkDown, WakeEmits, RunWork, workVars, ledVars
  <2>2. \E t \in Threads, j \in Jobs : at[t] = "out" /\ Call(t, j)
    BY <1>5, CallersOut, WorkNames DEF Jobs
  <2> QED BY <2>1, <2>2, <1>b, CallKeeps
<1>6. ASSUME NEW w \in Work, WorkTimerExpires(w) PROVE BusyInv'
  BY <1>6 DEF WorkTimerExpires, BusyInv, lockVars, ledVars
<1>7. ASSUME LedTimerExpires PROVE BusyInv'
  BY <1>7 DEF LedTimerExpires, BusyInv, lockVars, workVars
<1>8. ASSUME Quiet PROVE BusyInv'
  BY <1>8 DEF Quiet, BusyInv, lockVars, workVars, ledVars
<1> QED BY <1>1, <1>2, <1>3, <1>4, <1>5, <1>6, <1>7, <1>8 DEF Shapes

\* What ScheduleAndReturn arms is what it was asked to arm, beside what was
\* armed before.
LEMMA ArmedAfter ==
  ASSUME NEW t, NEW items, ScheduleAndReturn(t, items), NEW w, Armed(w)'
  PROVE  w \in items \/ Armed(w)
  BY DEF ScheduleAndReturn, Armed

LEMMA NextBlink ==
  ASSUME TypeOK, LockInv, WqInv, BusyInv, BlinkInv, Shapes
  PROVE  BlinkInv'
<1> USE ThreadNames
<1>a. ASSUME adv_state' = adv_state, \A w \in Work : Armed(w)' => Armed(w)
      PROVE  BlinkInv'
  BY <1>a, WorkNames DEF BlinkInv
<1>b. ASSUME NEW t \in Threads, at[t] \in {"stop", "start"}
      PROVE  \A w : ~Armed(w)
  BY <1>b DEF BusyInv, Armed
<1>1. ASSUME NEW t \in Threads, Begins(t) PROVE BlinkInv'
  <2>1. delayed' = {} /\ queued' = {}
    BY <1>1 DEF Begins, Cancel, TypeOK
  <2> QED BY <2>1 DEF BlinkInv, Armed
<1>2. ASSUME NEW t \in Threads, Leaves(t) PROVE BlinkInv'
  BY <1>2, <1>a DEF Leaves, ReturnOnly, Armed
<1>3. ASSUME NEW t \in Threads, Silences(t) PROVE BlinkInv'
  <2>1. \A w : ~Armed(w)'
    BY <1>3, <1>b DEF Silences, ReturnOnly, Armed
  <2> QED BY <2>1 DEF BlinkInv
<1>4. ASSUME NEW t \in Threads, StopAdvertising(t) PROVE BlinkInv'
  BY <1>4, <1>a DEF StopAdvertising, Armed, workVars
<1>5. ASSUME NEW t \in {"main", "imu"}, BurstStarted(t) PROVE BlinkInv'
  <2>1. at[t] = "start" /\ ScheduleAndReturn(t, {"burst_done"})
    BY <1>5 DEF BurstStarted, Holds
  <2>2. ~Armed("config_led")' /\ ~Armed("connected_led")'
    BY <2>1, <1>b, ArmedAfter
  <2> QED BY <2>2 DEF BlinkInv
<1>6. ASSUME WindowOpened PROVE BlinkInv'
  <2>1. /\ at["wq"] = "start" /\ adv_state' = "CONFIG_WINDOW"
        /\ ScheduleAndReturn("wq", {"config_led", "config_timeout"})
    BY <1>6 DEF WindowOpened, Holds
  <2>2. ~Armed("connected_led")'
    BY <2>1, <1>b, ArmedAfter
  <2> QED BY <2>1, <2>2 DEF BlinkInv
<1>7. ASSUME ConfigLedTick PROVE BlinkInv'
  <2>1. /\ adv_state = "CONFIG_WINDOW" /\ adv_state' = adv_state
        /\ ScheduleAndReturn("wq", {"config_led"})
    BY <1>7 DEF ConfigLedTick
  <2>2. Armed("connected_led")' => Armed("connected_led")
    BY <2>1, ArmedAfter
  <2> QED BY <2>1, <2>2 DEF BlinkInv
<1>8. ASSUME ConnectedLedTick PROVE BlinkInv'
  <2>1. /\ adv_state = "CONNECTED" /\ adv_state' = adv_state
        /\ ScheduleAndReturn("wq", {"connected_led"})
    BY <1>8 DEF ConnectedLedTick
  <2>2. Armed("config_led")' => Armed("config_led")
    BY <2>1, ArmedAfter
  <2> QED BY <2>1, <2>2 DEF BlinkInv
<1>9. ASSUME BtConnected PROVE BlinkInv'
  <2>1. adv_state' = "CONNECTED" /\ ~Armed("config_led")'
    BY <1>9 DEF BtConnected, Armed
  <2> QED BY <2>1 DEF BlinkInv
<1>10. ASSUME LinkUp \/ LinkDown \/ WakeEmits \/ LedTimerExpires \/ Quiet
       PROVE  BlinkInv'
  BY <1>10, <1>a DEF LinkUp, LinkDown, WakeEmits, LedTimerExpires, Quiet,
                     workVars, Armed
<1>11. ASSUME NEW w \in Work, WorkTimerExpires(w) \/ RunWork(w) PROVE BlinkInv'
  <2>1. adv_state' = adv_state
    BY <1>11 DEF WorkTimerExpires, RunWork
  <2>2. \A x \in Work : Armed(x)' => Armed(x)
    BY <1>11 DEF WorkTimerExpires, RunWork, Armed
  <2> QED BY <2>1, <2>2, <1>a
<1> QED BY <1>1, <1>2, <1>3, <1>4, <1>5, <1>6, <1>7, <1>8, <1>9, <1>10, <1>11
        DEF Shapes

LEMMA NextTick ==
  ASSUME TypeOK, LockInv, WqInv, BusyInv, BlinkInv, TickInv, Shapes
  PROVE  TickInv'
<1> SUFFICES ASSUME running' = "connected_led"
             PROVE  \/ ~canceling' /\ adv_state' = "CONNECTED"
                    \/ job'["rx"] = "idle" /\ at'["rx"] = "stop"
                    \/ owner' = "wq" /\ adv_state' = "IDLE"
  BY DEF TickInv
<1> DEFINE Goal == \/ ~canceling' /\ adv_state' = "CONNECTED"
                   \/ job'["rx"] = "idle" /\ at'["rx"] = "stop"
                   \/ owner' = "wq" /\ adv_state' = "IDLE"
<1> USE ThreadNames
<1>1. ASSUME NEW w \in Work, RunWork(w) PROVE Goal
  <2>1. running = "none" /\ running' = w /\ w \in queued
        /\ adv_state' = adv_state /\ canceling' = canceling
    BY <1>1 DEF RunWork
  <2>2. adv_state = "CONNECTED"
    BY <2>1 DEF BlinkInv, Armed
  <2> QED BY <2>1, <2>2 DEF WqInv
<1>r. ASSUME ~\E w \in Work : RunWork(w) PROVE running = "connected_led"
  <2>1. ASSUME NEW t \in Threads, HandlerReturns(t)
        PROVE  running = "connected_led"
    BY <2>1 DEF HandlerReturns
  <2>2. ASSUME NEW t \in Threads, Begins(t) \/ StopAdvertising(t)
        PROVE  running' = running
    BY <2>2 DEF Begins, StopAdvertising, Cancel, workVars
  <2>3. ASSUME NEW t \in Threads, Leaves(t) \/ Silences(t)
        PROVE  HandlerReturns(t)
    BY <2>3 DEF Leaves, Silences, ReturnOnly
  <2>4. ASSUME NEW t \in {"main", "imu"}, BurstStarted(t)
        PROVE  HandlerReturns(t)
    BY <2>4 DEF BurstStarted, ScheduleAndReturn
  <2>5. ASSUME WindowOpened \/ ConfigLedTick \/ ConnectedLedTick
        PROVE  HandlerReturns("wq")
    BY <2>5 DEF WindowOpened, ConfigLedTick, ConnectedLedTick,
                ScheduleAndReturn
  <2>6. ASSUME \/ BtConnected \/ LinkUp \/ LinkDown \/ WakeEmits
               \/ LedTimerExpires \/ Quiet
               \/ \E w \in Work : WorkTimerExpires(w)
        PROVE  running' = running
    BY <2>6 DEF BtConnected, LinkUp, LinkDown, WakeEmits, LedTimerExpires,
                Quiet, WorkTimerExpires, workVars
  <2> QED BY <1>r, <2>1, <2>2, <2>3, <2>4, <2>5, <2>6 DEF Shapes
<1>2. ASSUME running = "connected_led" PROVE Goal
  <2>1. job["wq"] = "connected_led" /\ at["wq"] # "out"
    BY <1>2 DEF WqInv, HandlerJob, Work, LockInv
  <2>2. \/ ~canceling /\ adv_state = "CONNECTED"
        \/ job["rx"] = "idle" /\ at["rx"] = "stop" /\ owner = "rx"
        \/ owner = "wq" /\ adv_state = "IDLE"
    BY <1>2 DEF TickInv, LockInv
  \* The workqueue is in this handler, which ends with it.
  <2>3. ASSUME NEW t \in Threads, HandlerReturns(t) PROVE t # "wq" /\ canceling' = canceling
    BY <2>3 DEF HandlerReturns
  <2>a. ASSUME adv_state' = adv_state, canceling' = canceling,
               job'["rx"] = job["rx"], at'["rx"] = at["rx"],
               owner' = owner
        PROVE  Goal
    BY <2>2, <2>a
  <2>4. ASSUME NEW t \in Threads, Begins(t) PROVE Goal
    <3>1. at'[t] = "stop" /\ job' = job /\ owner = t /\ owner' = owner
          /\ t # "wq" /\ adv_state' = adv_state /\ at[t] = "lock"
      BY <2>4, <2>1, ProceedKeeps DEF Begins
    <3>2. t \in {"main", "imu"} => job[t] = "burst"
      BY <2>4 DEF Begins, LockInv
    <3>3. t = "rx"
      BY <2>4, <3>1, <3>2, <2>2 DEF Begins, Threads
    <3>4. job["rx"] = "idle"
      BY <2>4, <3>3 DEF Begins, LockInv
    <3> QED BY <3>1, <3>3, <3>4
  <2>5. ASSUME NEW t \in Threads, Leaves(t) PROVE Goal
    <3>1. /\ owner = t /\ at[t] = "lock" /\ t # "wq" /\ canceling' = canceling
          /\ adv_state' = adv_state
          /\ job[t] \in {"burst", "window", "config_led", "connected_led"}
      BY <2>5, <2>3 DEF Leaves, ReturnOnly
    <3>2. job["rx"] # "idle" \/ owner # "rx"
      BY <3>1
    <3> QED BY <3>1, <3>2, <2>2
  <2>6. ASSUME NEW t \in Threads, Silences(t) PROVE Goal
    <3>1. /\ owner = t /\ at[t] \in {"stop", "start"} /\ t # "wq"
          /\ canceling' = canceling /\ adv_state' = "IDLE" /\ Return(t)
          /\ job[t] \in {"burst", "window"} => adv_state # "CONNECTED"
      BY <2>6, <2>3 DEF Silences, ReturnOnly, BusyInv
    <3>2. t = "rx"
      <4>1. CASE ~canceling /\ adv_state = "CONNECTED"
        <5>1. job[t] = "idle"
          BY <2>6, <3>1, <4>1 DEF Silences
        <5> QED BY <5>1, <3>1 DEF LockInv, Threads
      <4> QED BY <4>1, <2>2, <3>1
    <3>3. at["wq"] = "lock"
      BY <2>1, <3>1, <3>2 DEF TypeOK, LockInv
    <3>4. "wq" \in Waiting /\ "rx" \notin Waiting /\ Waiting \subseteq Threads
      BY <3>1, <3>2, <3>3 DEF Waiting
    <3>5. owner' \in Waiting /\ Rank[owner'] <= Rank["wq"]
      BY <3>1, <3>4 DEF Return
    <3>6. owner' = "wq"
      BY <3>4, <3>5 DEF Rank, Threads
    <3> QED BY <3>1, <3>6
  <2>7. ASSUME NEW t \in Threads, StopAdvertising(t) PROVE Goal
    <3>1. /\ adv_state' = adv_state /\ canceling' = canceling /\ owner' = owner
          /\ job' = job /\ t = owner
          /\ \A u \in Threads : u # t => at'[u] = at[u]
      BY <2>7, ProceedKeeps DEF StopAdvertising, workVars
    <3>2. t # "rx"
      BY <2>7 DEF StopAdvertising, LockInv
    <3> QED BY <3>1, <3>2, <2>a
  <2>8. ASSUME NEW t \in {"main", "imu"}, BurstStarted(t) PROVE Goal
    <3>1. /\ owner = t /\ at[t] = "start" /\ job[t] = "burst" /\ t \in Threads
      BY <2>8 DEF BurstStarted, Holds
    <3> QED BY <3>1, <2>2 DEF BusyInv
  <2>9. ~WindowOpened /\ ~ConfigLedTick
    BY <2>1 DEF WindowOpened, ConfigLedTick, Holds
  <2>10. ~ConnectedLedTick
    BY <2>3 DEF ConnectedLedTick, ScheduleAndReturn
  <2>11. ASSUME BtConnected PROVE Goal
    <3>1. owner = "rx" /\ at["rx"] = "lock" /\ adv_state' = "CONNECTED"
          /\ canceling' = canceling
      BY <2>11, <1>2 DEF BtConnected, Holds, TypeOK
    <3> QED BY <3>1, <2>2
  <2>12. ASSUME LinkUp \/ LinkDown PROVE Goal
    <3>1. at["rx"] = "out" /\ adv_state' = adv_state /\ canceling' = canceling
          /\ (owner # "none" => owner' = owner)
      BY <2>12 DEF LinkUp, LinkDown, Call, workVars
    <3> QED BY <3>1, <2>2
  <2>13. ASSUME WakeEmits PROVE Goal
    <3>1. /\ adv_state' = adv_state /\ canceling' = canceling
          /\ (owner # "none" => owner' = owner)
          /\ at["imu"] = "out" /\ Call("imu", "burst")
      BY <2>13 DEF WakeEmits, Call, workVars
    <3>2. at'["rx"] = at["rx"] /\ job'["rx"] = job["rx"]
      BY <3>1, CallKeeps
    <3> QED BY <3>1, <3>2, <2>2
  <2>14. ASSUME NEW w \in Work, WorkTimerExpires(w) PROVE Goal
    BY <2>14, <2>a DEF WorkTimerExpires, lockVars
  <2>15. ASSUME LedTimerExpires \/ Quiet PROVE Goal
    BY <2>15, <2>a DEF LedTimerExpires, Quiet, lockVars, workVars
  <2> HIDE DEF Goal
  <2> QED BY <1>1, <2>4, <2>5, <2>6, <2>7, <2>8, <2>9, <2>10, <2>11, <2>12,
             <2>13, <2>14, <2>15
          DEF Shapes
<1> HIDE DEF Goal
<1>3. Goal
  BY <1>1, <1>r, <1>2
<1> QED BY <1>3 DEF Goal

\* A connection keeps its cyan blinking: the tick that would be swallowed by a
\* cancellation in progress does not happen in CONNECTED.
LEMMA NextBlinks ==
  ASSUME TypeOK, LockInv, WqInv, BusyInv, TickInv, ConnectedBlinks, Shapes
  PROVE  ConnectedBlinks'
<1> USE ThreadNames, WorkNames
<1>a. ASSUME adv_state' = adv_state, Settled' => Settled,
             Pending("connected_led") => Pending("connected_led")'
      PROVE  ConnectedBlinks'
  BY <1>a DEF ConnectedBlinks
<1>b. ASSUME ~Settled' \/ adv_state' # "CONNECTED" PROVE ConnectedBlinks'
  BY <1>b DEF ConnectedBlinks
<1>1. ASSUME NEW t \in Threads, Begins(t) \/ StopAdvertising(t)
      PROVE  ConnectedBlinks'
  BY <1>1, <1>b, ProceedKeeps DEF Begins, StopAdvertising
<1>2. ASSUME NEW t \in Threads, Leaves(t) PROVE ConnectedBlinks'
  <2>1. /\ at[t] = "lock" /\ Return(t) /\ HandlerReturns(t)
        /\ adv_state' = adv_state /\ UNCHANGED <<delayed, queued>>
        /\ job[t] = "connected_led" => adv_state # "CONNECTED"
    BY <1>2 DEF Leaves, ReturnOnly
  <2>2. CASE t = "wq" /\ running = "connected_led"
    <3>1. job["wq"] = "connected_led"
      BY <2>2 DEF WqInv, HandlerJob, Work
    <3> QED BY <2>1, <2>2, <3>1, <1>b
  <2>3. CASE ~(t = "wq" /\ running = "connected_led")
    <3>1. Pending("connected_led") => Pending("connected_led")'
      BY <2>1, <2>3, PendingReturn
    <3>2. Settled' => Settled
      BY <2>1, SettledReturn
    <3> QED BY <2>1, <3>1, <3>2, <1>a
  <2> QED BY <2>2, <2>3
<1>3. ASSUME NEW t \in Threads, Silences(t) PROVE ConnectedBlinks'
  BY <1>3, <1>b DEF Silences
<1>4. ASSUME \E t \in {"main", "imu"} : BurstStarted(t) PROVE ConnectedBlinks'
  BY <1>4, <1>b DEF BurstStarted
<1>5. ASSUME WindowOpened \/ ConfigLedTick PROVE ConnectedBlinks'
  BY <1>5, <1>b DEF WindowOpened, ConfigLedTick
<1>6. ASSUME ConnectedLedTick PROVE ConnectedBlinks'
  <2>1. /\ owner = "wq" /\ job["wq"] = "connected_led" /\ at["wq"] = "lock"
        /\ adv_state = "CONNECTED"
        /\ ScheduleAndReturn("wq", {"connected_led"})
    BY <1>6 DEF ConnectedLedTick, Holds
  <2>2. running = "connected_led"
    BY <2>1 DEF WqInv, HandlerJob, Work, TypeOK
  <2>3. ~canceling
    BY <2>1, <2>2 DEF TickInv, LockInv
  <2>4. Armed("connected_led")'
    BY <2>1, <2>3 DEF ScheduleAndReturn, Schedulable, Armed
  <2> QED BY <2>4 DEF ConnectedBlinks, Pending
<1>7. ASSUME BtConnected PROVE ConnectedBlinks'
  <2>1. CASE Schedulable("connected_led")
    BY <1>7, <2>1 DEF BtConnected, ConnectedBlinks, Pending, Armed
  <2>2. CASE "connected_led" \in queued
    BY <1>7, <2>2 DEF BtConnected, ConnectedBlinks, Pending, Armed
  <2>3. CASE running = "connected_led"
    BY <1>7, <2>3 DEF BtConnected, ConnectedBlinks, Pending
  <2> QED BY <2>1, <2>2, <2>3 DEF Schedulable
<1>8. ASSUME LinkUp \/ LinkDown \/ WakeEmits \/ \E w \in Work : RunWork(w)
      PROVE  ConnectedBlinks'
  <2>1. adv_state' = adv_state
    BY <1>8 DEF LinkUp, LinkDown, WakeEmits, RunWork
  <2>2. Pending("connected_led") => Pending("connected_led")'
    BY <1>8 DEF LinkUp, LinkDown, WakeEmits, RunWork, Pending, Armed, workVars
  <2>3. \E t \in Threads, j \in Jobs : at[t] = "out" /\ Call(t, j)
    BY <1>8, CallersOut DEF Jobs
  <2> QED BY <2>1, <2>2, <2>3, <1>a, CallKeeps
<1>9. ASSUME NEW w \in Work, WorkTimerExpires(w) PROVE ConnectedBlinks'
  BY <1>9, <1>a DEF WorkTimerExpires, Pending, Armed, Settled, lockVars
<1>10. ASSUME LedTimerExpires \/ Quiet PROVE ConnectedBlinks'
  BY <1>10, <1>a DEF LedTimerExpires, Quiet, Pending, Armed, Settled,
                     lockVars, workVars
<1> QED BY <1>1, <1>2, <1>3, <1>4, <1>5, <1>6, <1>7, <1>8, <1>9, <1>10
        DEF Shapes

\* The colour of a settled mote is one its state shows.
ColourInv ==
    Settled =>
        /\ led = "blue" => adv_state = "CONFIG_WINDOW"
        /\ led = "cyan" => adv_state = "CONNECTED"

\* Every step that lights the LED starts its off-timer, and shows the state.
LEMMA NextColour ==
  ASSUME TypeOK, LockInv, WqInv, BusyInv, LedGoesOff, ColourInv, Shapes
  PROVE  LedGoesOff' /\ ColourInv'
<1> USE ThreadNames
<1>a. ASSUME led' = led, ledTimer' = ledTimer,
             ~Settled' \/ (adv_state' = adv_state /\ Settled)
      PROVE  LedGoesOff' /\ ColourInv'
  BY <1>a DEF LedGoesOff, ColourInv
<1>b. ASSUME NEW t \in Threads, at[t] \in {"stop", "start"},
             led' = led, ledTimer' = ledTimer
      PROVE  LedGoesOff' /\ ColourInv'
  BY <1>b DEF LedGoesOff, ColourInv, BusyInv
<1>1. ASSUME NEW t \in Threads, Begins(t) PROVE LedGoesOff' /\ ColourInv'
  <2>1. ~Settled'
    BY <1>1, ProceedKeeps DEF Begins
  <2> QED BY <1>1, <2>1 DEF Begins, LedGoesOff, ColourInv
<1>2. ASSUME NEW t \in Threads, Leaves(t) PROVE LedGoesOff' /\ ColourInv'
  BY <1>2, <1>a, SettledReturn DEF Leaves, ReturnOnly, ledVars
<1>3. ASSUME NEW t \in Threads, Silences(t) PROVE LedGoesOff' /\ ColourInv'
  BY <1>3, <1>b DEF Silences, ledVars
<1>4. ASSUME NEW t \in Threads, StopAdvertising(t)
      PROVE LedGoesOff' /\ ColourInv'
  BY <1>4, <1>b DEF StopAdvertising, ledVars
<1>5. ASSUME NEW t \in {"main", "imu"}, BurstStarted(t)
      PROVE LedGoesOff' /\ ColourInv'
  BY <1>5, <1>b DEF BurstStarted, Holds, ledVars
<1>6. ASSUME \/ WindowOpened \/ ConfigLedTick \/ ConnectedLedTick
             \/ BtConnected
      PROVE  LedGoesOff' /\ ColourInv'
  BY <1>6 DEF WindowOpened, ConfigLedTick, ConnectedLedTick, BtConnected,
              Pulse, LedGoesOff, ColourInv
<1>7. ASSUME LinkUp \/ LinkDown \/ WakeEmits \/ \E w \in Work : RunWork(w)
      PROVE  LedGoesOff' /\ ColourInv'
  <2>1. adv_state' = adv_state /\ led' = led /\ ledTimer' = ledTimer
    BY <1>7 DEF LinkUp, LinkDown, WakeEmits, RunWork, ledVars
  <2>2. \E t \in Threads, j \in Jobs : at[t] = "out" /\ Call(t, j)
    BY <1>7, CallersOut, WorkNames DEF Jobs
  <2> QED BY <2>1, <2>2, <1>a, CallKeeps
<1>8. ASSUME \/ Quiet
             \/ \E w \in Work : WorkTimerExpires(w)
      PROVE  LedGoesOff' /\ ColourInv'
  BY <1>8, <1>a DEF Quiet, WorkTimerExpires, Settled, lockVars, ledVars
<1>9. ASSUME LedTimerExpires PROVE LedGoesOff' /\ ColourInv'
  BY <1>9 DEF LedTimerExpires, LedGoesOff, ColourInv
<1> QED BY <1>1, <1>2, <1>3, <1>4, <1>5, <1>6, <1>7, <1>8, <1>9 DEF Shapes

LEMMA NextLink ==
  ASSUME TypeOK, LockInv, WqInv, LinkInv, Shapes
  PROVE  LinkInv'
<1> USE ThreadNames
<1>a. ASSUME job'["rx"] = job["rx"] \/ job'["rx"] # "connected",
             link' = link, radio' \in {radio, "off", "bthome"}
      PROVE  LinkInv'
  BY <1>a DEF LinkInv
<1>1. ASSUME NEW t \in Threads, Begins(t) PROVE LinkInv'
  BY <1>1, <1>a DEF Begins, Proceed
<1>2. ASSUME NEW t \in Threads, Leaves(t) \/ Silences(t) PROVE LinkInv'
  <2>1. /\ Return(t) /\ owner = t /\ link' = link
        /\ radio' = radio \/ radio' = "off"
    BY <1>2 DEF Leaves, Silences, ReturnOnly
  <2>2. job'["rx"] = job["rx"] \/ job'["rx"] = "none"
    BY <2>1, ReturnSettles
  <2> QED BY <2>1, <2>2, <1>a
<1>3. ASSUME NEW t \in Threads, StopAdvertising(t) PROVE LinkInv'
  BY <1>3, <1>a DEF StopAdvertising, Proceed
<1>4. ASSUME NEW t \in {"main", "imu"}, BurstStarted(t) PROVE LinkInv'
  <2>1. Return(t) /\ owner = t /\ link' = link /\ radio' = "bthome"
    BY <1>4 DEF BurstStarted, ScheduleAndReturn, Holds
  <2>2. job'["rx"] = job["rx"]
    BY <2>1, ReturnSettles
  <2> QED BY <2>1, <2>2, <1>a
<1>5. ASSUME WindowOpened \/ ConfigLedTick \/ ConnectedLedTick PROVE LinkInv'
  <2>1. Return("wq") /\ owner = "wq" /\ link' = link
    BY <1>5 DEF WindowOpened, ConfigLedTick, ConnectedLedTick,
                ScheduleAndReturn, Holds
  <2>2. job'["rx"] = job["rx"]
    BY <2>1, ReturnSettles
  <2>3. CASE WindowOpened
    <3>1. ~link
      BY <2>3 DEF WindowOpened, StartPossible
    <3> QED BY <2>2, <3>1 DEF LinkInv
  <2>4. CASE ConfigLedTick \/ ConnectedLedTick
    BY <2>1, <2>2, <2>4, <1>a DEF ConfigLedTick, ConnectedLedTick
  <2> QED BY <1>5, <2>3, <2>4
<1>6. ASSUME BtConnected PROVE LinkInv'
  <2>1. job'["rx"] = "none"
    BY <1>6, ReturnSettles DEF BtConnected, Holds
  <2> QED BY <2>1 DEF LinkInv
<1>7. ASSUME LinkUp PROVE LinkInv'
  BY <1>7 DEF LinkUp, LinkInv
<1>8. ASSUME LinkDown PROVE LinkInv'
  <2>1. job'["rx"] = "idle"
    BY <1>8, CallersOut, CallKeeps
  <2> QED BY <2>1 DEF LinkInv
<1>9. ASSUME WakeEmits \/ \E w \in Work : RunWork(w) PROVE LinkInv'
  <2>1. \E t \in Threads \ {"rx"}, j \in Jobs : at[t] = "out" /\ Call(t, j)
    BY <1>9, CallersOut, WorkNames DEF Jobs
  <2>2. job'["rx"] = job["rx"]
    BY <2>1, CallKeeps
  <2> QED BY <1>9, <2>2, <1>a DEF WakeEmits, RunWork
<1>10. ASSUME LedTimerExpires \/ Quiet \/ \E w \in Work : WorkTimerExpires(w)
       PROVE  LinkInv'
  BY <1>10, <1>a DEF LedTimerExpires, Quiet, WorkTimerExpires, lockVars
<1> QED BY <1>1, <1>2, <1>3, <1>4, <1>5, <1>6, <1>7, <1>8, <1>9, <1>10
        DEF Shapes

\* When no stop fails, the radio is off between a stop and the start after it,
\* and follows the state whenever the mote is settled.
LEMMA NextRadio ==
  ASSUME TypeOK, LockInv, WqInv, LinkInv, StoppedInv, RadioFollowsState, Shapes
  PROVE  StoppedInv' /\ RadioFollowsState'
<1> SUFFICES ASSUME ~StopMayFail
             PROVE  StoppedInv' /\ RadioFollowsState'
  BY DEF StoppedInv, RadioFollowsState
<1> USE ThreadNames
<1>a. ASSUME Settled' PROVE StoppedInv'
  BY <1>a DEF StoppedInv, Settled
<1>b. ASSUME Settled' => Settled, adv_state' = adv_state, radio' = radio,
             job["rx"] = "connected" => job'["rx"] = "connected",
             \A t \in Threads : at'[t] = "start" => at[t] = "start"
      PROVE  StoppedInv' /\ RadioFollowsState'
  BY <1>b DEF StoppedInv, RadioFollowsState
<1>1. ASSUME NEW t \in Threads, Begins(t)
      PROVE  StoppedInv' /\ RadioFollowsState'
  <2>1. /\ ~Settled' /\ at'[t] = "stop" /\ radio' = radio
        /\ \A u \in Threads : u # t => at'[u] = at[u]
    BY <1>1, ProceedKeeps DEF Begins
  <2> QED BY <2>1 DEF StoppedInv, RadioFollowsState
<1>2. ASSUME NEW t \in Threads, Leaves(t)
      PROVE  StoppedInv' /\ RadioFollowsState'
  <2>1. /\ owner = t /\ at[t] = "lock" /\ Return(t)
        /\ job[t] # "connected" /\ adv_state' = adv_state /\ radio' = radio
    BY <1>2 DEF Leaves, ReturnOnly
  <2>2. /\ job["rx"] = "connected" => job'["rx"] = "connected"
        /\ \A u \in Threads : at'[u] = "start" => at[u] = "start"
    BY <2>1, ReturnSettles
  <2> QED BY <2>1, <2>2, <1>b, SettledReturn
<1>3. ASSUME NEW t \in Threads, Silences(t)
      PROVE  StoppedInv' /\ RadioFollowsState'
  <2>1. owner = t /\ Return(t) /\ adv_state' = "IDLE"
    BY <1>3 DEF Silences, ReturnOnly
  <2>2. radio' = "off"
    BY <1>3 DEF Silences, StoppedInv
  <2>3. Settled'
    BY <2>1, ReturnSettles
  <2> QED BY <2>1, <2>2, <2>3, <1>a DEF RadioFollowsState
<1>4. ASSUME NEW t \in Threads, StopAdvertising(t)
      PROVE  StoppedInv' /\ RadioFollowsState'
  <2>1. ~Settled' /\ radio' = "off"
    BY <1>4, ProceedKeeps DEF StopAdvertising
  <2> QED BY <2>1 DEF StoppedInv, RadioFollowsState
<1>5. ASSUME NEW t \in {"main", "imu"}, BurstStarted(t)
      PROVE  StoppedInv' /\ RadioFollowsState'
  <2>1. /\ owner = t /\ Return(t)
        /\ adv_state' = "EVENT_BURST" /\ radio' = "bthome"
    BY <1>5 DEF BurstStarted, ScheduleAndReturn, Holds
  <2>2. Settled'
    BY <2>1, ReturnSettles
  <2> QED BY <2>1, <2>2, <1>a DEF RadioFollowsState
<1>6. ASSUME WindowOpened PROVE StoppedInv' /\ RadioFollowsState'
  <2>1. /\ owner = "wq" /\ Return("wq")
        /\ adv_state' = "CONFIG_WINDOW" /\ radio' = "config"
    BY <1>6 DEF WindowOpened, ScheduleAndReturn, Holds
  <2>2. Settled'
    BY <2>1, ReturnSettles
  <2> QED BY <2>1, <2>2, <1>a DEF RadioFollowsState
<1>7. ASSUME ConfigLedTick \/ ConnectedLedTick
      PROVE  StoppedInv' /\ RadioFollowsState'
  <2>1. /\ owner = "wq" /\ at["wq"] = "lock" /\ Return("wq")
        /\ adv_state' = adv_state /\ radio' = radio
    BY <1>7 DEF ConfigLedTick, ConnectedLedTick, ScheduleAndReturn, Holds
  <2>2. /\ job["rx"] = "connected" => job'["rx"] = "connected"
        /\ \A u \in Threads : at'[u] = "start" => at[u] = "start"
    BY <2>1, ReturnSettles
  <2> QED BY <2>1, <2>2, <1>b, SettledReturn
<1>8. ASSUME BtConnected PROVE StoppedInv' /\ RadioFollowsState'
  <2>1. /\ owner = "rx" /\ job["rx"] = "connected" /\ Return("rx")
        /\ adv_state' = "CONNECTED" /\ radio' = radio
    BY <1>8 DEF BtConnected, Holds
  <2>2. Settled' /\ radio' # "config"
    BY <2>1, ReturnSettles DEF LinkInv
  <2> QED BY <2>1, <2>2, <1>a DEF RadioFollowsState
<1>9. ASSUME LinkUp PROVE StoppedInv' /\ RadioFollowsState'
  <2>1. /\ radio = "config" /\ radio' = "off" /\ adv_state' = adv_state
        /\ job'["rx"] = "connected" /\ (Settled' <=> Settled)
    BY <1>9, CallersOut, CallKeeps DEF LinkUp
  <2> QED BY <2>1 DEF StoppedInv, RadioFollowsState
<1>10. ASSUME LinkDown \/ WakeEmits \/ \E w \in Work : RunWork(w)
       PROVE  StoppedInv' /\ RadioFollowsState'
  <2>1. adv_state' = adv_state /\ radio' = radio
    BY <1>10 DEF LinkDown, WakeEmits, RunWork
  <2>2. \E t \in Threads, j \in Jobs : at[t] = "out" /\ Call(t, j)
    BY <1>10, CallersOut, WorkNames DEF Jobs
  <2>3. /\ Settled' <=> Settled
        /\ \A u \in Threads : at[u] # "out" => job'[u] = job[u]
        /\ \A u \in Threads : at'[u] = "start" => at[u] = "start"
    BY <2>2, CallKeeps
  <2>4. job["rx"] = "connected" => job'["rx"] = "connected"
    BY <2>3 DEF LockInv
  <2> QED BY <2>1, <2>3, <2>4, <1>b
<1>11. ASSUME LedTimerExpires \/ Quiet \/ \E w \in Work : WorkTimerExpires(w)
       PROVE  StoppedInv' /\ RadioFollowsState'
  BY <1>11, <1>b DEF LedTimerExpires, Quiet, WorkTimerExpires, lockVars, Settled
<1> QED BY <1>1, <1>2, <1>3, <1>4, <1>5, <1>6, <1>7, <1>8, <1>9, <1>10, <1>11
        DEF Shapes

-----------------------------------------------------------------------------
\* The inductive invariant of what the mote shows: added to IInv, what each thread
\* has shown and stopped when it is between two of its host calls.
AInv ==
    /\ BusyInv /\ BlinkInv /\ TickInv /\ LinkInv
    /\ ConnectedBlinks /\ LedGoesOff /\ ColourInv
    /\ StoppedInv /\ RadioFollowsState

LEMMA InitShown == Init => AInv
<1> SUFFICES ASSUME Init PROVE AInv
  OBVIOUS
<1>1. \A t \in Threads : at[t] \in {"lock", "out"}
  BY DEF Init
<1>2. BusyInv /\ StoppedInv
  BY <1>1 DEF BusyInv, StoppedInv
<1>3. LinkInv
  BY ThreadNames DEF Init, LinkInv
<1> QED BY <1>2, <1>3
        DEF Init, AInv, BlinkInv, TickInv, ConnectedBlinks, LedGoesOff,
            ColourInv, RadioFollowsState, Armed

LEMMA NextShown == IInv /\ AInv /\ [Next]_vars => AInv'
  BY StepShapes, NextBusy, NextBlink, NextTick, NextBlinks, NextColour,
     NextLink, NextRadio
  DEF AInv, IInv

LEMMA Shown == Spec => []AInv
  BY Invariance, InitShown, NextShown, PTL DEF Spec

\* The LED tells the state: whatever the interleaving of the handlers, the
\* callbacks and the motion, and whatever fails, a settled mote shows a colour
\* of its own state, never burns for ever, and blinks as long as it is
\* connected.
THEOREM LedIsTrue == Spec => []LedTellsState
<1>1. AInv => LedTellsState
  BY DEF AInv, BlinkInv, ColourInv, LedTellsState
<1> QED BY <1>1, Shown, PTL

\* The radio follows the state the code keeps, unless a stop failed: the mote
\* is connectable only in its configuration window, and silent when idle.
THEOREM RadioIsTrue == Spec => []RadioFollowsState
<1>1. AInv => RadioFollowsState
  BY DEF AInv
<1> QED BY <1>1, Shown, PTL

\* A connection is left through IDLE only, by the disconnect callback or by a
\* stale config_timeout handler: a burst or a window that is past its test of
\* adv_state has found the mote unconnected and it stays so until the function
\* returns.
THEOREM ConnectionLeftByIdle == Spec => ConnectedEndsIdle
<1> DEFINE Leave == adv_state = "CONNECTED" /\ adv_state' # "CONNECTED"
                      => adv_state' = "IDLE"
                         /\ \E t \in {"rx", "wq"} : job[t] = "idle"
<1>1. ASSUME IInv, AInv, Shapes, adv_state = "CONNECTED",
             adv_state' # "CONNECTED"
      PROVE  adv_state' = "IDLE" /\ \E t \in {"rx", "wq"} : job[t] = "idle"
  <2>1. ASSUME NEW t \in Threads, at[t] = "start", job[t] \in {"burst", "window"}
        PROVE  FALSE
    BY <1>1, <2>1 DEF AInv, BusyInv
  <2>2. ASSUME NEW t \in Threads, Silences(t)
        PROVE  adv_state' = "IDLE" /\ \E u \in {"rx", "wq"} : job[u] = "idle"
    <3>1. adv_state' = "IDLE" /\ job[t] = "idle"
      BY <2>1, <2>2 DEF Silences
    <3>2. t \in {"rx", "wq"}
      BY <1>1, <3>1 DEF IInv, LockInv, Threads
    <3> QED BY <3>1, <3>2
  <2>3. ~BurstStarted("main") /\ ~BurstStarted("imu") /\ ~WindowOpened
    BY <2>1, ThreadNames DEF BurstStarted, WindowOpened, Holds
  <2>4. /\ \A t \in Threads : ~Begins(t) /\ ~Leaves(t) /\ ~StopAdvertising(t)
        /\ ~ConfigLedTick /\ ~ConnectedLedTick /\ ~BtConnected
        /\ ~LinkUp /\ ~LinkDown /\ ~WakeEmits /\ ~LedTimerExpires /\ ~Quiet
        /\ \A w \in Work : ~WorkTimerExpires(w) /\ ~RunWork(w)
    BY <1>1 DEF Begins, Leaves, StopAdvertising, ConfigLedTick,
                ConnectedLedTick, BtConnected, LinkUp, LinkDown, WakeEmits,
                LedTimerExpires, Quiet, WorkTimerExpires, RunWork
  <2> QED BY <1>1, <2>2, <2>3, <2>4 DEF Shapes
<1>2. IInv /\ AInv /\ [Next]_vars => [Leave]_vars
  BY <1>1, StepShapes
<1> HIDE DEF Leave
<1>3. Spec => [][Leave]_vars
  BY <1>2, Invariance, Shown, PTL DEF Spec
<1>4. [][Leave]_vars => ConnectedEndsIdle
  BY DEF Leave, ConnectedEndsIdle
<1> QED BY <1>3, <1>4, PTL
=============================================================================
