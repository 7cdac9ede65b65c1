----------------------------- MODULE MoteConfig -----------------------------
(***************************************************************************)
(* The configuration of the mote's IMU over GATT: the service              *)
(* (mote/src/cfg_svc.c), the runtime values and their persistence          *)
(* (mote/src/main.c), and the page that writes them                        *)
(* (tools/web-bt/index.html).                                              *)
(*                                                                         *)
(* A value lives in three places: the IMU register, the RAM copy, and the  *)
(* settings in flash.  GATT handlers run in the Bluetooth thread; the      *)
(* deferred reboot runs in the workqueue and saves the two settings one    *)
(* after the other.  Power may go at any step.                             *)
(***************************************************************************)
EXTENDS Naturals

CONSTANTS
    Calls,          \* the calls of the page's functions, a bound on those that
                    \* are under way at once
    MaxThs,         \* 63 in the code: the largest threshold accepted
    MaxDur,         \* 255 in the code, all a byte can hold
    DefaultThs, DefaultDur,
    Missing,        \* no value: a setting that was never saved
    PowerMayFail,   \* the battery may be pulled
    FlashMayFail,   \* the settings subsystem, a load or a save may fail
    BusMayFail      \* an I2C transfer may fail

ASSUME ConfigAssumption ==
    /\ MaxThs \in Nat /\ MaxDur \in Nat
    /\ DefaultThs \in 0 .. MaxThs
    /\ DefaultDur \in 0 .. MaxDur
    /\ Missing \notin Nat /\ Missing \notin Calls
    /\ PowerMayFail \in BOOLEAN
    /\ FlashMayFail \in BOOLEAN
    /\ BusMayFail \in BOOLEAN

VARIABLES
    power,      \* the mote runs
    imu,        \* registers WAKE_UP_THS and WAKE_UP_DUR
    imuReady,   \* setup_imu_wake_int1 succeeded
    ram,        \* imu_wake_ths and imu_wake_dur
    nvs,        \* the settings in flash
    ready,      \* cfg_settings_ready
    handler,    \* the GATT write handler between register and RAM copy
    reboot,     \* how far deferred_reboot is
    connected,  \* the page is connected to the mote
    enabled,    \* its four action buttons are enabled
    calls,      \* its functions that await an exchange with the mote
    kept        \* history: the values in RAM when the last commanded reboot
                \* began to save (at first the defaults), or Missing once one of
                \* its saves failed, a power loss or a write of the duration
                \* came between them, or a boot could not load them

vars == <<power, imu, imuReady, ram, nvs, ready, handler, reboot,
          connected, enabled, calls, kept>>
pageVars == <<connected, enabled, calls>>

Pairs == [ths : 0 .. MaxThs, dur : 0 .. MaxDur]
Default == [ths |-> DefaultThs, dur |-> DefaultDur]
Idle == [key |-> "none", value |-> 0, by |-> Missing]

\* The steps of readValues, up to its report, of writeValues, whose "saved" is
\* its report too, and of reboot.
Reading == {"read_ths", "read_dur", "shown"}
Saving == {"ths", "dur", "saved"}
Awaiting == {"read_ths", "read_dur"} \cup Saving \cup {"reboot"}

\* A call has the values read so far, or those to save.  History: a read is sure
\* unless a write was answered since it began, a save unless connect enabled the
\* buttons since it began or while the save before it was still under way.
NoCall == [at |-> "none", pair |-> Default, sure |-> FALSE]
CallRecords == [at : Awaiting \cup {"none", "shown"}, pair : Pairs, sure : BOOLEAN]

\* A write handler has set the register to the value that call by has sent.
Writes ==
    [key : {"ths"}, value : 0 .. MaxThs, by : Calls \cup {Missing}]
      \cup [key : {"dur"}, value : 0 .. MaxDur, by : Calls \cup {Missing}]

TypeOK ==
    /\ power \in BOOLEAN /\ ready \in BOOLEAN /\ imuReady \in BOOLEAN
    /\ imu \in Pairs /\ ram \in Pairs
    /\ nvs \in [ths : 0 .. MaxThs \cup {Missing}, dur : 0 .. MaxDur \cup {Missing}]
    /\ handler \in Writes \cup {Idle}
    /\ reboot \in {"none", "scheduled", "ths_saved", "dur_saved"}
    /\ connected \in BOOLEAN /\ enabled \in BOOLEAN
    /\ calls \in [Calls -> CallRecords]
    /\ kept \in Pairs \cup {Missing}

Init ==
    /\ power = FALSE /\ ready = FALSE /\ imuReady = FALSE
    /\ imu = Default /\ ram = Default
    /\ nvs = [ths |-> Missing, dur |-> Missing]
    /\ handler = Idle
    /\ reboot = "none"
    /\ connected = FALSE /\ enabled = FALSE
    /\ calls = [c \in Calls |-> NoCall]
    /\ kept = Default

-----------------------------------------------------------------------------
(* Boot: cfg_settings_init loads what flash has over the defaults, then     *)
(* setup_imu_wake_int1 programs the registers.  A mote whose IMU does not   *)
(* answer still serves GATT.                                                *)

Or(stored, default) == IF stored = Missing THEN default ELSE stored

Loaded == [ths |-> Or(nvs.ths, DefaultThs), dur |-> Or(nvs.dur, DefaultDur)]

\* The subsystem does not start, or starts and fails to load a setting: the
\* mote goes on with the defaults, and only the former stops it from saving.
LoadSettings ==
    \/ ready' = TRUE /\ ram' = Loaded /\ UNCHANGED kept
    \/ FlashMayFail /\ ready' = FALSE /\ ram' = Default /\ UNCHANGED kept
    \/ /\ FlashMayFail
       /\ ready' = TRUE
       /\ ram' \in [ths : {DefaultThs, Loaded.ths}, dur : {DefaultDur, Loaded.dur}]
       /\ kept' = Missing

\* The set-up writes WAKE_UP_THS, then WAKE_UP_DUR, and stops where the bus
\* fails.
ProgramImu ==
    \/ imuReady' = TRUE /\ imu' = ram'
    \/ /\ BusMayFail
       /\ imuReady' = FALSE
       /\ imu' \in {imu, [imu EXCEPT !.ths = ram'.ths], ram'}

Boot ==
    /\ ~power
    /\ power' = TRUE
    /\ LoadSettings
    /\ ProgramImu
    /\ UNCHANGED <<nvs, handler, reboot, pageVars>>

\* The page loses its connection: its pending exchanges are rejected and its
\* buttons disabled.
Disconnect ==
    /\ connected' = FALSE /\ enabled' = FALSE
    /\ calls' = [c \in Calls |-> NoCall]

\* RAM, the handlers and the connection are gone.
Halt ==
    /\ power' = FALSE
    /\ handler' = Idle
    /\ reboot' = "none"
    /\ Disconnect
    /\ UNCHANGED <<imu, imuReady, ram, nvs, ready>>

\* Flash keeps what it has; between the two saves that is one new value and one
\* old one.
PowerLoss ==
    /\ PowerMayFail
    /\ power
    /\ kept' = IF reboot = "ths_saved" /\ ready THEN Missing ELSE kept
    /\ Halt

-----------------------------------------------------------------------------
(* GATT writes: write_ths and write_dur set the register, then the RAM      *)
(* copy, then answer.  They save nothing.                                   *)

\* Variant: the largest value accepted is 64.
AcceptedOffByOne(key, v) == key = "ths" => v <= MaxThs + 1

Accepted(key, v) == key = "ths" => v <= MaxThs

WriteRegister(key, v, who) ==
    /\ power
    /\ handler = Idle
    /\ Accepted(key, v)
    /\ imu' = [imu EXCEPT ![key] = v]
    /\ handler' = [key |-> key, value |-> v, by |-> who]
    /\ UNCHANGED <<power, imuReady, ram, nvs, ready, reboot, pageVars, kept>>

\* The step of writeValues after an answered write; it reports success after the
\* second.
After(key) == IF key = "ths" THEN "dur" ELSE "saved"

\* What the answer of the running handler means to call c.
Answered(c) ==
    IF c = handler.by /\ calls[c].at = handler.key
    THEN [calls[c] EXCEPT !.at = After(handler.key)]
    ELSE IF calls[c].at \in Reading THEN [calls[c] EXCEPT !.sure = FALSE]
    ELSE calls[c]

\* Variant: the RAM copy is left for the save to make.
CopyToRamLater ==
    /\ power
    /\ handler # Idle
    /\ calls' = [c \in Calls |-> Answered(c)]
    /\ handler' = Idle
    /\ UNCHANGED <<power, imu, imuReady, ram, nvs, ready, reboot, connected,
                   enabled, kept>>

CopyToRam ==
    /\ power
    /\ handler # Idle
    /\ ram' = [ram EXCEPT ![handler.key] = handler.value]
    /\ kept' = IF reboot = "ths_saved" /\ handler.key = "dur" THEN Missing ELSE kept
    /\ calls' = [c \in Calls |-> Answered(c)]
    /\ handler' = Idle
    /\ UNCHANGED <<power, imu, imuReady, nvs, ready, reboot, connected, enabled>>

\* Variant: a repeated command puts the reboot off.
WriteCommandAgain == handler = Idle /\ reboot' = "scheduled"

\* write_cmd schedules reboot_work, once.
WriteCommand ==
    /\ handler = Idle
    /\ reboot' = IF reboot = "none" THEN "scheduled" ELSE reboot

-----------------------------------------------------------------------------
(* The page.  Its functions await one exchange after the other, and any      *)
(* button that is enabled starts one more: connect enables all four before   *)
(* it reads, readValues and reboot disable none, and writeValues disables    *)
(* them until it ends.  The connect button is never disabled.  The mote      *)
(* serves one connection, and one exchange of it at a time.                  *)

moteVars == <<power, imu, imuReady, ram, nvs, ready, handler, reboot, kept>>

NewRead == [at |-> "read_ths", pair |-> Default, sure |-> TRUE]

\* connect, with a connection or without one, goes on to read both values.
Connect(c) ==
    /\ power /\ (connected \/ handler = Idle)
    /\ calls[c].at = "none"
    /\ connected' = TRUE /\ enabled' = TRUE
    /\ calls' = [d \in Calls |->
         IF d = c THEN NewRead
         ELSE IF calls[d].at \in Saving THEN [calls[d] EXCEPT !.sure = FALSE]
         ELSE calls[d]]
    /\ UNCHANGED moteVars

\* A button that is enabled starts a call.
Starts(c, call) ==
    /\ enabled
    /\ calls[c].at = "none"
    /\ calls' = [calls EXCEPT ![c] = call]
    /\ UNCHANGED <<moteVars, connected>>

StartRead(c) == Starts(c, NewRead) /\ UNCHANGED enabled

StartReboot(c) == Starts(c, [NoCall EXCEPT !.at = "reboot"]) /\ UNCHANGED enabled

NoSave == \A d \in Calls : calls[d].at \notin Saving

\* Variant: the buttons stay enabled.
StartSaveAnyTime(c) ==
    /\ \E p \in Pairs : Starts(c, [at |-> "ths", pair |-> p, sure |-> NoSave])
    /\ UNCHANGED enabled

\* The fields hold what was typed, a preset or the defaults; parseU8 refuses
\* anything out of range.
StartSave(c) ==
    /\ \E p \in Pairs : Starts(c, [at |-> "ths", pair |-> p, sure |-> NoSave])
    /\ enabled' = FALSE

\* read_ths or read_dur answers from the RAM copy.
Reads(c, at, key, then) ==
    /\ calls[c].at = at
    /\ handler = Idle
    /\ calls' = [calls EXCEPT ![c] =
         [at |-> then, pair |-> [calls[c].pair EXCEPT ![key] = ram[key]],
          sure |-> calls[c].sure]]
    /\ UNCHANGED <<moteVars, connected, enabled>>

Read(c) == \/ Reads(c, "read_ths", "ths", "read_dur")
           \/ Reads(c, "read_dur", "dur", "shown")

Write(c) ==
    /\ calls[c].at \in {"ths", "dur"}
    /\ WriteRegister(calls[c].at, calls[c].pair[calls[c].at], c)

\* The call is over; writeValues enables the buttons, whatever came of it.
Ends(c) ==
    /\ calls' = [calls EXCEPT ![c] = NoCall]
    /\ enabled' = (enabled \/ calls[c].at \in Saving)
    /\ UNCHANGED connected

\* Both functions that send the reboot command end with it.
Command(c) ==
    /\ calls[c].at \in {"saved", "reboot"}
    /\ WriteCommand
    /\ Ends(c)
    /\ UNCHANGED <<power, imu, imuReady, ram, nvs, ready, handler, kept>>

ReadEnds(c) == calls[c].at = "shown" /\ Ends(c) /\ UNCHANGED moteVars

\* The I2C write failed, or the browser refuses the exchange because another
\* one is under way: the call gives up.
CallFails(c) ==
    /\ calls[c].at \in Awaiting /\ handler.by # c
    /\ \/ BusMayFail /\ handler = Idle /\ calls[c].at \in {"ths", "dur"}
       \/ \E d \in Calls \ {c} : calls[d].at \in Awaiting
    /\ Ends(c)
    /\ UNCHANGED moteVars

\* Another client writes any byte to either value while the page has no
\* connection.
OtherClientWrites ==
    /\ ~connected
    /\ \/ \E v \in 0 .. MaxThs + 1 : WriteRegister("ths", v, Missing)
       \/ \E v \in 0 .. MaxDur : WriteRegister("dur", v, Missing)

\* The connection is lost; a handler that runs finishes.
LinkLost == connected /\ Disconnect /\ UNCHANGED moteVars

-----------------------------------------------------------------------------
(* deferred_reboot: imu_save_config persists one key after the other and    *)
(* ignores the results, then the mote restarts.                             *)

\* persist_u8_setting
Persist(key) ==
    \/ /\ ready
       /\ nvs' = [nvs EXCEPT ![key] = ram[key]]
       /\ kept' = IF key = "ths" THEN ram ELSE kept
    \/ ready /\ FlashMayFail /\ kept' = Missing /\ UNCHANGED nvs
    \/ ~ready /\ UNCHANGED <<nvs, kept>>

SaveThs ==
    /\ power
    /\ reboot = "scheduled"
    /\ Persist("ths")
    /\ reboot' = "ths_saved"
    /\ UNCHANGED <<power, imu, imuReady, ram, ready, handler, pageVars>>

SaveDur ==
    /\ power
    /\ reboot = "ths_saved"
    /\ Persist("dur")
    /\ reboot' = "dur_saved"
    /\ UNCHANGED <<power, imu, imuReady, ram, ready, handler, pageVars>>

\* Variant: the mote restarts after the first of the two saves.
SysRebootEarly ==
    /\ power
    /\ reboot = "ths_saved"
    /\ UNCHANGED kept
    /\ Halt

SysReboot ==
    /\ power
    /\ reboot = "dur_saved"
    /\ UNCHANGED kept
    /\ Halt

-----------------------------------------------------------------------------
Page ==
    \E c \in Calls :
        \/ Connect(c) \/ StartRead(c) \/ StartSave(c) \/ StartReboot(c)
        \/ Read(c) \/ Write(c) \/ Command(c) \/ ReadEnds(c) \/ CallFails(c)
Client == Page \/ OtherClientWrites \/ LinkLost
Rebooting == SaveThs \/ SaveDur \/ SysReboot

Next == Boot \/ PowerLoss \/ Client \/ CopyToRam \/ Rebooting

Spec == Init /\ [][Next]_vars

\* The mote boots when powered and its threads run; clients promise nothing.
Fairness == WF_vars(Boot) /\ WF_vars(Rebooting) /\ WF_vars(CopyToRam)

FairSpec == Spec /\ Fairness

-----------------------------------------------------------------------------
(* Properties.                                                              *)

\* What a client reads back is what the IMU works with: except within a write
\* handler, the registers agree with the RAM copies, through failed transfers,
\* saves and restarts.
ImuMatchesRam == power /\ imuReady /\ handler = Idle => imu = ram

\* What the page reports as saved are the values of the mote, although the save
\* takes two exchanges, may fail between them, and reads, commands and other
\* clients go on: its buttons keep a second save away, unless connect enables
\* them meanwhile.  What it reports as read are the values of the mote unless a
\* write was answered meanwhile.
PageTellsTruth ==
    \A c \in Calls :
        calls[c].sure /\ calls[c].at \in {"shown", "saved"} => calls[c].pair = ram

\* The mote comes back with the pair of values it had when the last commanded
\* reboot began to save, whatever was written since and wherever power is lost,
\* never with one value of it and one of another pair: unless one of the saves
\* failed, a power loss or a write of the duration came between the two, or a
\* load failed.
RebootKeepsConfig ==
    [][~power /\ power' /\ ready' /\ kept' # Missing => ram' = kept']_vars

\* A reboot once commanded happens and the mote comes back, although the page
\* may repeat the command while it is carried out and the power may go.
RebootHappens == reboot = "scheduled" ~> power /\ reboot = "none"
=============================================================================
