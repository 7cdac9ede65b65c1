--------------------------- MODULE MoteConfigProofs ---------------------------
(***************************************************************************)
(* Theorems about MoteConfig, for every value of its constants.            *)
(***************************************************************************)
EXTENDS MoteConfig, TLAPS

\* Without power there is no handler, no reboot and no connection, and without a
\* connection the page has no call and no button.
OffInv ==
    /\ ~power => handler = Idle /\ reboot = "none" /\ ~connected
    /\ ~connected => ~enabled /\ \A c \in Calls : calls[c].at = "none"

\* A handler between its two assignments leaves the register one write ahead of
\* the RAM copy.
RegisterInv ==
    power /\ imuReady =>
        IF handler = Idle THEN imu = ram
        ELSE imu = [ram EXCEPT ![handler.key] = handler.value]

\* A handler that runs while the page is connected handles a write of the page.
HandlerInv ==
    handler # Idle /\ connected =>
        /\ handler.by \in Calls
        /\ calls[handler.by].at = handler.key
        /\ calls[handler.by].pair[handler.key] = handler.value

\* While a sure save is under way there is no other one, nor a button to start it.
SaveInv ==
    \A c \in Calls :
        calls[c].sure /\ calls[c].at \in Saving =>
            /\ ~enabled
            /\ \A d \in Calls \ {c} : calls[d].at \notin Saving

\* Each exchange of a sure call that is over has left one of its values true.
Half(c) ==
    calls[c].sure /\ calls[c].at \in {"read_dur", "dur"} =>
        calls[c].pair.ths = ram.ths
Whole(c) ==
    calls[c].sure /\ calls[c].at \in {"shown", "saved"} => calls[c].pair = ram
SureInv == \A c \in Calls : Half(c) /\ Whole(c)

PageInv == HandlerInv /\ SaveInv /\ SureInv

\* Outside the two saves flash holds kept; between them it holds the threshold
\* of it, and RAM the duration still to be saved.
KeptInv ==
    kept # Missing =>
        /\ Or(nvs.ths, DefaultThs) = kept.ths
        /\ IF reboot = "ths_saved" /\ ready
           THEN ram.dur = kept.dur
           ELSE Or(nvs.dur, DefaultDur) = kept.dur

IInv == TypeOK /\ OffInv /\ RegisterInv /\ PageInv /\ KeptInv

-----------------------------------------------------------------------------
(* Pairs of values, and what may be written into them.                      *)

\* The values a handler may hold under a key.
Values(key) == IF key = "ths" THEN 0 .. MaxThs ELSE 0 .. MaxDur

\* A write changes one value of a pair.
LEMMA WritePair ==
  ASSUME NEW r \in Pairs, NEW key \in {"ths", "dur"}, NEW v \in Values(key)
  PROVE  /\ [r EXCEPT ![key] = v] \in Pairs
         /\ key = "ths" => /\ [r EXCEPT ![key] = v].ths = v
                           /\ [r EXCEPT ![key] = v].dur = r.dur
         /\ key = "dur" => /\ [r EXCEPT ![key] = v].dur = v
                           /\ [r EXCEPT ![key] = v].ths = r.ths
<1>1. CASE key = "ths"
  BY <1>1 DEF Pairs, Values
<1>2. CASE key = "dur"
  BY <1>2 DEF Pairs, Values
<1> QED BY <1>1, <1>2

\* Pairs with the same values are equal.
LEMMA SamePair ==
  ASSUME NEW r \in Pairs, NEW s \in Pairs, r.ths = s.ths, r.dur = s.dur
  PROVE  r = s
BY DEF Pairs

\* What a handler that is not idle holds.
LEMMA WritesType ==
  ASSUME NEW w \in Writes
  PROVE  /\ w.key \in {"ths", "dur"} /\ w.value \in Values(w.key)
         /\ w.by \in Calls \cup {Missing}
         /\ w # Idle
<1>1. CASE w \in [key : {"ths"}, value : 0 .. MaxThs, by : Calls \cup {Missing}]
  <2>1. w.key = "ths" /\ w.value \in 0 .. MaxThs /\ w.by \in Calls \cup {Missing}
    BY <1>1
  <2> QED BY <2>1 DEF Values, Idle
<1>2. CASE w \in [key : {"dur"}, value : 0 .. MaxDur, by : Calls \cup {Missing}]
  <2>1. w.key = "dur" /\ w.value \in 0 .. MaxDur /\ w.by \in Calls \cup {Missing}
    BY <1>2
  <2> QED BY <2>1 DEF Values, Idle
<1> QED BY <1>1, <1>2 DEF Writes

LEMMA WritesMade ==
  ASSUME NEW key \in {"ths", "dur"}, NEW v \in Values(key), NEW who \in Calls \cup {Missing}
  PROVE  [key |-> key, value |-> v, by |-> who] \in Writes
<1>1. CASE key = "ths"
  BY <1>1 DEF Writes, Values
<1>2. CASE key = "dur"
  BY <1>2 DEF Writes, Values
<1> QED BY <1>1, <1>2

\* What the type invariant says of a handler, a pair in RAM and a call.
LEMMA HandlerType ==
  ASSUME TypeOK, handler # Idle
  PROVE  /\ handler.key \in {"ths", "dur"} /\ handler.value \in Values(handler.key)
         /\ handler.by \in Calls \cup {Missing}
<1>1. handler \in Writes
  BY DEF TypeOK
<1> QED BY <1>1, WritesType

LEMMA CallType ==
  ASSUME TypeOK, NEW c \in Calls
  PROVE  /\ calls[c] \in CallRecords
         /\ calls[c].at \in Awaiting \cup {"none", "shown"}
         /\ calls[c].pair \in Pairs /\ calls[c].sure \in BOOLEAN
<1>1. calls[c] \in CallRecords
  BY DEF TypeOK
<1> QED BY <1>1 DEF CallRecords

LEMMA RecordMade ==
  ASSUME NEW at \in Awaiting \cup {"none", "shown"}, NEW p \in Pairs, NEW b \in BOOLEAN
  PROVE  [at |-> at, pair |-> p, sure |-> b] \in CallRecords
BY DEF CallRecords

\* A call changes, the others stay.
LEMMA OneCall ==
  ASSUME TypeOK, NEW c \in Calls, NEW r \in CallRecords, calls' = [calls EXCEPT ![c] = r]
  PROVE  /\ calls' \in [Calls -> CallRecords]
         /\ calls'[c] = r
         /\ \A d \in Calls \ {c} : calls'[d] = calls[d]
BY DEF TypeOK

LEMMA Defaults ==
  /\ Default \in Pairs
  /\ NoCall \in CallRecords /\ NewRead \in CallRecords
<1>1. Default \in Pairs
  BY ConfigAssumption DEF Default, Pairs
<1>2. NoCall \in CallRecords
  BY <1>1, RecordMade DEF NoCall
<1>3. NewRead \in CallRecords
  BY <1>1, RecordMade DEF NewRead, Awaiting
<1> QED BY <1>1, <1>2, <1>3

-----------------------------------------------------------------------------
LEMMA Initially == Init => IInv
<1> SUFFICES ASSUME Init PROVE IInv
  OBVIOUS
<1>1. \A c \in Calls : calls[c] = NoCall
  BY DEF Init
<1>2. TypeOK
  BY Defaults DEF Init, TypeOK
<1>3. OffInv /\ PageInv
  BY <1>1 DEF Init, OffInv, PageInv, HandlerInv, SaveInv, SureInv, Half, Whole, NoCall,
              Saving
<1>4. RegisterInv /\ KeptInv
  BY DEF Init, RegisterInv, KeptInv, Or, Default
<1> QED BY <1>2, <1>3, <1>4 DEF IInv

-----------------------------------------------------------------------------
(* Boot, power loss and the reboot.                                         *)

LEMMA BootKeeps ==
  ASSUME IInv, Boot
  PROVE  IInv'
<1>1. /\ ~power /\ power' = TRUE /\ handler = Idle /\ reboot = "none" /\ ~connected
      /\ ~enabled /\ \A c \in Calls : calls[c].at = "none"
      /\ UNCHANGED <<nvs, handler, reboot, connected, enabled, calls>>
  BY DEF Boot, IInv, OffInv, pageVars
<1>2. Default \in Pairs /\ Loaded \in Pairs
  BY ConfigAssumption DEF IInv, TypeOK, Default, Loaded, Or, Pairs
<1>3. ram' \in Pairs /\ ready' \in BOOLEAN /\ kept' \in {kept, Missing}
  <2>1. ram' \in Pairs
    BY <1>2, ConfigAssumption DEF Boot, LoadSettings, Default, Loaded, Pairs
  <2> QED BY <2>1 DEF Boot, LoadSettings
<1>4. imu' \in Pairs /\ imuReady' \in BOOLEAN /\ (imuReady' => imu' = ram')
  <2>1. CASE imuReady' = TRUE /\ imu' = ram'
    BY <2>1, <1>3
  <2>2. CASE imuReady' = FALSE /\ imu' \in {imu, [imu EXCEPT !.ths = ram'.ths], ram'}
    <3>1. imu \in Pairs /\ ram'.ths \in Values("ths")
      BY <1>3 DEF IInv, TypeOK, Pairs, Values
    <3>2. [imu EXCEPT !.ths = ram'.ths] \in Pairs
      BY <3>1, WritePair
    <3> QED BY <2>2, <3>1, <3>2, <1>3
  <2> QED BY <2>1, <2>2 DEF Boot, ProgramImu
<1>5. TypeOK'
  BY <1>1, <1>3, <1>4 DEF IInv, TypeOK
<1>6. OffInv' /\ RegisterInv' /\ PageInv'
  <2>1. PageInv'
    BY <1>1 DEF PageInv, HandlerInv, SaveInv, SureInv, Half, Whole, Saving
  <2> QED BY <1>1, <1>4, <2>1 DEF OffInv, RegisterInv
<1>7. KeptInv'
  BY <1>1, <1>3 DEF IInv, KeptInv
<1> QED BY <1>5, <1>6, <1>7 DEF IInv

\* A stop forgets the threads, not what flash holds.
LEMMA HaltKeeps ==
  ASSUME IInv, Halt, kept' \in {kept, Missing},
         (reboot # "ths_saved" \/ ~ready) \/ kept' = Missing
  PROVE  IInv'
<1>1. /\ power' = FALSE /\ handler' = Idle /\ reboot' = "none"
      /\ connected' = FALSE /\ enabled' = FALSE
      /\ calls' = [c \in Calls |-> NoCall]
      /\ UNCHANGED <<imu, imuReady, ram, nvs, ready>>
  BY DEF Halt, Disconnect
<1>2. \A c \in Calls : calls'[c].at = "none"
  BY <1>1 DEF NoCall
<1>3. TypeOK'
  BY <1>1, Defaults DEF IInv, TypeOK
<1>4. OffInv' /\ RegisterInv' /\ KeptInv'
  BY <1>1, <1>2 DEF IInv, OffInv, RegisterInv, KeptInv
<1>5. PageInv'
  BY <1>1, <1>2 DEF PageInv, HandlerInv, SaveInv, SureInv, Half, Whole, Saving
<1> QED BY <1>3, <1>4, <1>5 DEF IInv

LEMMA SaveKeeps ==
  ASSUME IInv, SaveThs \/ SaveDur
  PROVE  IInv'
<1>1. /\ power
      /\ UNCHANGED <<power, imu, imuReady, ram, ready, handler, connected, enabled, calls>>
      /\ reboot' \in {"ths_saved", "dur_saved"}
  BY DEF SaveThs, SaveDur, pageVars
<1>2. /\ ram \in Pairs /\ ram.ths \in 0 .. MaxThs /\ ram.dur \in 0 .. MaxDur
      /\ ram.ths # Missing /\ ram.dur # Missing
  BY ConfigAssumption DEF IInv, TypeOK, Pairs
<1>3. OffInv' /\ RegisterInv' /\ PageInv'
  BY <1>1 DEF IInv, OffInv, RegisterInv, PageInv, HandlerInv, SaveInv, SureInv, Half, Whole
<1>4. CASE kept' = Missing /\ UNCHANGED nvs
  BY <1>1, <1>3, <1>4 DEF IInv, TypeOK, KeptInv
<1>5. CASE ~ready /\ UNCHANGED <<nvs, kept>>
  BY <1>1, <1>3, <1>5 DEF IInv, TypeOK, KeptInv
<1>6. CASE SaveThs /\ ready /\ nvs' = [nvs EXCEPT !["ths"] = ram["ths"]] /\ kept' = ram
  <2>1. nvs' = [nvs EXCEPT !.ths = ram.ths] /\ reboot' = "ths_saved"
    BY <1>6 DEF SaveThs
  <2>2. TypeOK'
    BY <1>1, <1>2, <1>6, <2>1 DEF IInv, TypeOK
  <2>3. nvs'.ths = ram.ths
    BY <2>1 DEF IInv, TypeOK
  <2>4. KeptInv'
    BY <1>1, <1>2, <1>6, <2>1, <2>3 DEF KeptInv, Or
  <2> QED BY <1>3, <2>2, <2>4 DEF IInv
<1>7. CASE SaveDur /\ ready /\ nvs' = [nvs EXCEPT !["dur"] = ram["dur"]] /\ kept' = kept
  <2>1. nvs' = [nvs EXCEPT !.dur = ram.dur] /\ reboot' = "dur_saved" /\ reboot = "ths_saved"
    BY <1>7 DEF SaveDur
  <2>2. TypeOK'
    BY <1>1, <1>2, <1>7, <2>1 DEF IInv, TypeOK
  <2>3. nvs'.dur = ram.dur /\ nvs'.ths = nvs.ths
    BY <2>1 DEF IInv, TypeOK
  <2>4. KeptInv'
    BY <1>1, <1>2, <1>7, <2>1, <2>3 DEF IInv, KeptInv, Or
  <2> QED BY <1>3, <2>2, <2>4 DEF IInv
<1> QED BY <1>4, <1>5, <1>6, <1>7 DEF SaveThs, SaveDur, Persist

-----------------------------------------------------------------------------
(* A write: the register, then the RAM copy.                                *)

LEMMA WriteRegisterKeeps ==
  ASSUME IInv, NEW key \in {"ths", "dur"}, NEW v \in Values(key),
         NEW who \in Calls \cup {Missing}, WriteRegister(key, v, who),
         connected => /\ who \in Calls
                      /\ calls[who].at = key /\ calls[who].pair[key] = v
  PROVE  IInv'
<1> DEFINE w == [key |-> key, value |-> v, by |-> who]
<1>1. /\ power /\ handler = Idle /\ imu' = [imu EXCEPT ![key] = v] /\ handler' = w
      /\ UNCHANGED <<power, imuReady, ram, nvs, ready, reboot, connected, enabled,
                     calls, kept>>
  BY DEF WriteRegister, pageVars
<1>2. w \in Writes
  BY WritesMade
<1>3. w.key = key /\ w.value = v /\ w.by = who
  OBVIOUS
<1> HIDE DEF w
<1>4. w # Idle
  BY <1>2, WritesType
<1>5. imu' \in Pairs
  BY <1>1, WritePair DEF IInv, TypeOK
<1>6. TypeOK'
  BY <1>1, <1>2, <1>5 DEF IInv, TypeOK
<1>7. OffInv' /\ KeptInv'
  BY <1>1 DEF IInv, OffInv, KeptInv
<1>8. RegisterInv'
  BY <1>1, <1>3, <1>4 DEF IInv, RegisterInv
<1>9. HandlerInv'
  BY <1>1, <1>3 DEF HandlerInv
<1>10. SaveInv' /\ SureInv'
  BY <1>1 DEF IInv, PageInv, SaveInv, SureInv, Half, Whole
<1> QED BY <1>6, <1>7, <1>8, <1>9, <1>10 DEF IInv, PageInv

\* What an answer does to a call.
LEMMA AnswerType ==
  ASSUME IInv, handler # Idle, NEW c \in Calls
  PROVE  /\ Answered(c) \in CallRecords
         /\ Answered(c).pair = calls[c].pair
         /\ Answered(c).sure => calls[c].sure
         /\ Answered(c).at \in Saving <=> calls[c].at \in Saving
         /\ calls[c].at = "none" => Answered(c) = calls[c]
<1>1. /\ calls[c] \in CallRecords /\ calls[c].pair \in Pairs /\ calls[c].sure \in BOOLEAN
      /\ calls[c].at \in Awaiting \cup {"none", "shown"}
      /\ handler.key \in {"ths", "dur"}
  BY CallType, HandlerType DEF IInv
<1>2. CASE c = handler.by /\ calls[c].at = handler.key
  <2>1. After(handler.key) \in Saving
    BY <1>1 DEF After, Saving
  <2>2. Answered(c) = [calls[c] EXCEPT !.at = After(handler.key)]
    BY <1>2 DEF Answered
  <2> QED BY <1>1, <1>2, <2>1, <2>2 DEF CallRecords, Saving, Awaiting
<1>3. CASE ~(c = handler.by /\ calls[c].at = handler.key) /\ calls[c].at \in Reading
  <2>1. Answered(c) = [calls[c] EXCEPT !.sure = FALSE]
    BY <1>3 DEF Answered
  <2> QED BY <1>1, <1>3, <2>1 DEF CallRecords, Reading
<1>4. CASE ~(c = handler.by /\ calls[c].at = handler.key) /\ calls[c].at \notin Reading
  BY <1>1, <1>4 DEF Answered
<1> QED BY <1>2, <1>3, <1>4

LEMMA CopyToRamKeeps ==
  ASSUME IInv, CopyToRam
  PROVE  IInv'
<1>1. /\ power /\ handler # Idle /\ ram' = [ram EXCEPT ![handler.key] = handler.value]
      /\ kept' = IF reboot = "ths_saved" /\ handler.key = "dur" THEN Missing ELSE kept
      /\ calls' = [c \in Calls |-> Answered(c)] /\ handler' = Idle
      /\ UNCHANGED <<power, imu, imuReady, nvs, ready, reboot, connected, enabled>>
  BY DEF CopyToRam
<1>2. /\ handler.key \in {"ths", "dur"} /\ handler.value \in Values(handler.key)
      /\ ram \in Pairs
  BY <1>1, HandlerType DEF IInv, TypeOK
<1>3. /\ ram' \in Pairs
      /\ handler.key = "ths" => ram'.ths = handler.value /\ ram'.dur = ram.dur
      /\ handler.key = "dur" => ram'.dur = handler.value /\ ram'.ths = ram.ths
  BY <1>1, <1>2, WritePair
<1>4. \A c \in Calls : calls'[c] = Answered(c)
  BY <1>1
<1>5. TypeOK'
  <2>1. calls' \in [Calls -> CallRecords]
    BY <1>1, AnswerType
  <2> QED BY <1>1, <1>3, <2>1 DEF IInv, TypeOK
<1>6. OffInv'
  BY <1>1, <1>4, AnswerType DEF IInv, OffInv
<1>7. RegisterInv'
  BY <1>1 DEF IInv, RegisterInv
<1>8. KeptInv'
  BY <1>1, <1>2, <1>3 DEF IInv, KeptInv
<1>9. HandlerInv'
  BY <1>1 DEF HandlerInv
<1>10. SaveInv'
  BY <1>1, <1>4, AnswerType DEF IInv, PageInv, SaveInv
<1>11. ASSUME NEW c \in Calls, Answered(c).sure
       PROVE  /\ Answered(c).at \in {"read_dur", "dur"} => Answered(c).pair.ths = ram'.ths
              /\ Answered(c).at \in {"shown", "saved"} => Answered(c).pair = ram'
  <2>1. calls[c].sure /\ Answered(c).pair = calls[c].pair /\ calls[c].pair \in Pairs
    BY <1>1, <1>11, AnswerType, CallType DEF IInv
  <2>2. CASE c = handler.by /\ calls[c].at = handler.key
    <3>1. connected
      BY <1>2, <2>2 DEF IInv, OffInv
    <3>2. calls[c].pair[handler.key] = handler.value
      BY <1>1, <2>2, <3>1 DEF IInv, PageInv, HandlerInv
    <3>3. Answered(c).at = After(handler.key)
      <4>1. calls[c] \in CallRecords
        BY CallType DEF IInv
      <4> QED BY <2>2, <4>1 DEF Answered, CallRecords
    <3>4. CASE handler.key = "ths"
      BY <1>3, <2>1, <3>2, <3>3, <3>4 DEF After
    <3>5. CASE handler.key = "dur"
      <4>1. calls[c].pair.ths = ram.ths
        BY <2>1, <2>2, <3>5 DEF IInv, PageInv, SureInv, Half
      <4>2. calls[c].pair.ths = ram'.ths /\ calls[c].pair.dur = ram'.dur
        BY <1>3, <3>2, <3>5, <4>1
      <4>3. calls[c].pair = ram'
        BY <1>3, <2>1, <4>2, SamePair
      <4> QED BY <2>1, <3>3, <3>5, <4>3 DEF After
    <3> QED BY <1>2, <3>4, <3>5
  <2>3. CASE ~(c = handler.by /\ calls[c].at = handler.key) /\ calls[c].at \in Reading
    <3>1. Answered(c) = [calls[c] EXCEPT !.sure = FALSE] /\ calls[c] \in CallRecords
      BY <2>3, CallType DEF Answered, IInv
    <3>2. Answered(c).sure = FALSE
      BY <3>1 DEF CallRecords
    <3> QED BY <1>11, <3>2
  <2>4. CASE ~(c = handler.by /\ calls[c].at = handler.key) /\ calls[c].at \notin Reading
    <3>1. Answered(c) = calls[c]
      BY <2>4 DEF Answered
    <3>2. SUFFICES ASSUME calls[c].at \in Saving PROVE FALSE
      BY <2>4, <3>1 DEF Reading, Saving
    <3>3. connected
      BY <3>2 DEF IInv, OffInv, Saving
    <3>4. handler.by \in Calls /\ calls[handler.by].at = handler.key
      BY <1>1, <3>3 DEF IInv, PageInv, HandlerInv
    <3>5. handler.by = c
      BY <1>2, <2>1, <3>2, <3>4 DEF IInv, PageInv, SaveInv, Saving
    <3> QED BY <2>4, <3>4, <3>5
  <2> QED BY <2>2, <2>3, <2>4
<1>12. SureInv'
  <2>1. SUFFICES ASSUME NEW c \in Calls PROVE (Half(c) /\ Whole(c))'
    BY DEF SureInv
  <2>2. calls'[c] = Answered(c)
    BY <1>4
  <2> QED BY <1>11, <2>2 DEF Half, Whole
<1> QED BY <1>5, <1>6, <1>7, <1>8, <1>9, <1>10, <1>12 DEF IInv, PageInv

-----------------------------------------------------------------------------
(* The page.                                                                *)

\* Steps that change the page, or schedule the reboot, and nothing else.
LEMMA PageMoves ==
  ASSUME IInv, UNCHANGED <<power, imu, imuReady, ram, nvs, ready, handler, kept>>,
         reboot' = reboot \/ (power /\ reboot = "none" /\ reboot' = "scheduled"),
         connected' \in BOOLEAN, enabled' \in BOOLEAN,
         calls' \in [Calls -> CallRecords],
         connected' => power,
         ~connected' => ~enabled' /\ \A d \in Calls : calls'[d].at = "none",
         PageInv'
  PROVE  IInv'
<1>1. TypeOK'
  BY DEF IInv, TypeOK
<1>2. OffInv' /\ RegisterInv' /\ KeptInv'
  BY DEF IInv, OffInv, RegisterInv, KeptInv
<1> QED BY <1>1, <1>2 DEF IInv

\* One call goes on, starts or ends.
LEMMA OneCallMoves ==
  ASSUME IInv, UNCHANGED <<power, imu, imuReady, ram, nvs, ready, handler, kept, connected>>,
         reboot' = reboot \/ (power /\ reboot = "none" /\ reboot' = "scheduled"),
         connected, enabled' \in BOOLEAN,
         NEW c \in Calls, NEW r \in CallRecords, calls' = [calls EXCEPT ![c] = r],
         handler = Idle \/ handler.by # c,
         enabled' => enabled \/ calls[c].at \in Saving,
         r.at \in Saving => enabled,
         r.sure /\ r.at \in Saving =>
             ~enabled' /\ \A d \in Calls \ {c} : calls[d].at \notin Saving,
         r.sure /\ r.at \in {"read_dur", "dur"} => r.pair.ths = ram.ths,
         r.sure /\ r.at \in {"shown", "saved"} => r.pair = ram
  PROVE  IInv'
<1>1. /\ calls' \in [Calls -> CallRecords] /\ calls'[c] = r
      /\ \A d \in Calls \ {c} : calls'[d] = calls[d]
  BY OneCall DEF IInv
<1>2. HandlerInv'
  BY <1>1 DEF IInv, PageInv, HandlerInv
<1>3. SaveInv'
  <2>1. SUFFICES ASSUME NEW d \in Calls, calls'[d].sure, calls'[d].at \in Saving
                 PROVE  ~enabled' /\ \A e \in Calls \ {d} : calls'[e].at \notin Saving
    BY DEF SaveInv
  <2>2. CASE d = c
    BY <1>1, <2>1, <2>2
  <2>3. CASE d # c
    <3>1. calls[d].sure /\ calls[d].at \in Saving
      BY <1>1, <2>1, <2>3
    <3>2. ~enabled /\ \A e \in Calls \ {d} : calls[e].at \notin Saving
      BY <3>1 DEF IInv, PageInv, SaveInv
    <3>3. r.at \notin Saving /\ calls[c].at \notin Saving
      BY <2>3, <3>2
    <3>4. ~enabled'
      BY <3>2, <3>3
    <3>5. ASSUME NEW e \in Calls \ {d} PROVE calls'[e].at \notin Saving
      BY <1>1, <3>2, <3>3
    <3> QED BY <3>4, <3>5
  <2> QED BY <2>2, <2>3
<1>4. SureInv'
  <2>1. SUFFICES ASSUME NEW d \in Calls PROVE (Half(d) /\ Whole(d))'
    BY DEF SureInv
  <2>2. CASE d = c
    BY <1>1, <2>2 DEF Half, Whole
  <2>3. CASE d # c
    <3>1. calls'[d] = calls[d] /\ ram' = ram
      BY <1>1, <2>3
    <3>2. Half(d) /\ Whole(d)
      BY DEF IInv, PageInv, SureInv
    <3> QED BY <3>1, <3>2 DEF Half, Whole
  <2> QED BY <2>2, <2>3
<1>5. power
  BY DEF IInv, OffInv
<1>6. PageInv'
  BY <1>2, <1>3, <1>4 DEF PageInv
<1> QED BY <1>1, <1>5, <1>6, PageMoves

\* A call that is under way has a connection.
LEMMA CallIsConnected ==
  ASSUME IInv, NEW c \in Calls, calls[c].at # "none"
  PROVE  connected /\ power
BY DEF IInv, OffInv

\* A handler runs for a call that is still writing.
LEMMA HandlerIsWriting ==
  ASSUME IInv, NEW c \in Calls, connected, calls[c].at \notin {"ths", "dur"}
  PROVE  handler = Idle \/ handler.by # c
<1> SUFFICES ASSUME handler # Idle PROVE handler.by # c
  OBVIOUS
<1>1. handler.key \in {"ths", "dur"} /\ calls[handler.by].at = handler.key
  BY HandlerType DEF IInv, PageInv, HandlerInv
<1> QED BY <1>1

LEMMA ConnectKeeps ==
  ASSUME IInv, NEW c \in Calls, Connect(c)
  PROVE  IInv'
<1>1. /\ power /\ (connected \/ handler = Idle) /\ calls[c].at = "none"
      /\ connected' = TRUE /\ enabled' = TRUE
      /\ UNCHANGED <<power, imu, imuReady, ram, nvs, ready, handler, reboot, kept>>
  BY DEF Connect, moteVars
<1>2. calls' = [d \in Calls |->
        IF d = c THEN NewRead
        ELSE IF calls[d].at \in Saving THEN [calls[d] EXCEPT !.sure = FALSE]
        ELSE calls[d]]
  BY DEF Connect
<1>3. /\ calls'[c] = NewRead
      /\ \A d \in Calls \ {c} :
           calls'[d] = IF calls[d].at \in Saving
                       THEN [calls[d] EXCEPT !.sure = FALSE] ELSE calls[d]
  BY <1>2
<1>4. ASSUME NEW d \in Calls \ {c}
      PROVE  /\ calls'[d] \in CallRecords
             /\ calls'[d].at = calls[d].at /\ calls'[d].pair = calls[d].pair
             /\ calls'[d].sure => calls[d].sure /\ calls[d].at \notin Saving
  <2>1. calls[d] \in CallRecords
    BY CallType DEF IInv
  <2> QED BY <1>3, <2>1 DEF CallRecords
<1>5. calls' \in [Calls -> CallRecords]
  <2>1. \A d \in Calls : calls'[d] \in CallRecords
    BY <1>3, <1>4, Defaults
  <2> QED BY <1>2, <2>1
<1>6. NewRead.at = "read_ths"
  BY DEF NewRead
<1>7. HandlerInv'
  <2>1. SUFFICES ASSUME handler # Idle
                 PROVE  /\ handler.by \in Calls
                        /\ calls'[handler.by].at = handler.key
                        /\ calls'[handler.by].pair[handler.key] = handler.value
    BY <1>1 DEF HandlerInv
  <2>2. /\ handler.by \in Calls
        /\ calls[handler.by].at = handler.key
        /\ calls[handler.by].pair[handler.key] = handler.value
    BY <1>1, <2>1 DEF IInv, PageInv, HandlerInv
  <2>3. handler.by # c
    BY <1>1, <2>1, <2>2, HandlerType DEF IInv
  <2> QED BY <1>4, <2>2, <2>3
<1>8. SaveInv'
  <2>1. \A d \in Calls : ~(calls'[d].sure /\ calls'[d].at \in Saving)
    BY <1>3, <1>4, <1>6 DEF Saving
  <2> QED BY <2>1 DEF SaveInv
<1>9. SureInv'
  <2>1. SUFFICES ASSUME NEW d \in Calls PROVE (Half(d) /\ Whole(d))'
    BY DEF SureInv
  <2>2. CASE d = c
    BY <1>3, <1>6, <2>2 DEF Half, Whole
  <2>3. CASE d # c
    <3>1. Half(d) /\ Whole(d) /\ ram' = ram
      BY <1>1 DEF IInv, PageInv, SureInv
    <3> QED BY <1>4, <2>3, <3>1 DEF Half, Whole
  <2> QED BY <2>2, <2>3
<1>10. PageInv'
  BY <1>7, <1>8, <1>9 DEF PageInv
<1> QED BY <1>1, <1>5, <1>10, PageMoves

\* A button is pressed.
LEMMA StartKeeps ==
  ASSUME IInv, NEW c \in Calls, StartRead(c) \/ StartReboot(c) \/ StartSave(c)
  PROVE  IInv'
<1>1. ASSUME NEW r \in CallRecords, Starts(c, r), enabled' \in {enabled, FALSE},
             r.at \in {"read_ths", "ths", "reboot"},
             r.at = "ths" => ~enabled' /\ (r.sure => NoSave)
      PROVE  IInv'
  <2>1. /\ enabled /\ calls[c].at = "none" /\ calls' = [calls EXCEPT ![c] = r]
        /\ UNCHANGED <<power, imu, imuReady, ram, nvs, ready, handler, reboot, kept,
                       connected>>
    BY <1>1 DEF Starts, moteVars
  <2>2. connected /\ enabled' \in BOOLEAN
    BY <1>1, <2>1 DEF IInv, OffInv, TypeOK
  <2>3. handler = Idle \/ handler.by # c
    BY <2>1, <2>2, HandlerIsWriting
  <2>4. r.sure /\ r.at \in Saving =>
          ~enabled' /\ \A d \in Calls \ {c} : calls[d].at \notin Saving
    BY <1>1 DEF NoSave, Saving
  <2>5. r.at \notin {"read_dur", "dur", "shown", "saved"}
    BY <1>1
  <2>6. enabled' => enabled
    BY <2>1
  <2> QED BY <1>1, <2>1, <2>2, <2>3, <2>4, <2>5, <2>6, OneCallMoves
<1>2. CASE StartRead(c)
  <2>1. Starts(c, NewRead) /\ enabled' = enabled /\ NewRead.at = "read_ths"
    BY <1>2 DEF StartRead, NewRead
  <2> QED BY <1>1, <2>1, Defaults
<1>3. CASE StartReboot(c)
  <2>1. NoCall \in CallRecords
    BY Defaults
  <2>2. /\ [NoCall EXCEPT !.at = "reboot"] \in CallRecords
        /\ [NoCall EXCEPT !.at = "reboot"].at = "reboot"
    BY <2>1 DEF CallRecords, Awaiting
  <2>3. Starts(c, [NoCall EXCEPT !.at = "reboot"]) /\ enabled' = enabled
    BY <1>3 DEF StartReboot
  <2> QED BY <1>1, <2>2, <2>3
<1>4. CASE StartSave(c)
  <2>1. PICK p \in Pairs : Starts(c, [at |-> "ths", pair |-> p, sure |-> NoSave])
    BY <1>4 DEF StartSave
  <2>2. enabled' = FALSE /\ NoSave \in BOOLEAN
    BY <1>4 DEF StartSave, NoSave
  <2>3. [at |-> "ths", pair |-> p, sure |-> NoSave] \in CallRecords
    BY <2>2, RecordMade DEF Awaiting, Saving
  <2> QED BY <1>1, <2>1, <2>2, <2>3
<1> QED BY <1>2, <1>3, <1>4

\* A read or a write of the page goes on.
LEMMA ReadKeeps ==
  ASSUME IInv, NEW c \in Calls, Read(c)
  PROVE  IInv'
<1>1. ASSUME NEW at \in {"read_ths", "read_dur"}, NEW key \in {"ths", "dur"},
             NEW then \in {"read_dur", "shown"}, Reads(c, at, key, then),
             at = "read_ths" => key = "ths" /\ then = "read_dur",
             at = "read_dur" => key = "dur" /\ then = "shown"
      PROVE  IInv'
  <2> DEFINE p == [calls[c].pair EXCEPT ![key] = ram[key]]
  <2>1. /\ calls[c].at = at /\ handler = Idle
        /\ calls' = [calls EXCEPT ![c] =
              [at |-> then, pair |-> p, sure |-> calls[c].sure]]
        /\ UNCHANGED <<power, imu, imuReady, ram, nvs, ready, handler, reboot, kept,
                       connected, enabled>>
    BY <1>1 DEF Reads, moteVars
  <2>2. /\ calls[c].pair \in Pairs /\ calls[c].sure \in BOOLEAN
        /\ ram \in Pairs /\ enabled \in BOOLEAN
    BY CallType DEF IInv, TypeOK
  <2>3. ram[key] \in Values(key)
    BY <1>1, <2>2 DEF Pairs, Values
  <2>4. /\ p \in Pairs
        /\ key = "ths" => p.ths = ram.ths
        /\ key = "dur" => p.dur = ram.dur /\ p.ths = calls[c].pair.ths
    BY <2>2, <2>3, WritePair
  <2> HIDE DEF p
  <2>5. calls[c].sure /\ at = "read_dur" => p = ram
    <3>1. SUFFICES ASSUME calls[c].sure, at = "read_dur" PROVE p = ram
      OBVIOUS
    <3>2. calls[c].pair.ths = ram.ths
      BY <2>1, <3>1 DEF IInv, PageInv, SureInv, Half
    <3> QED BY <1>1, <2>2, <2>4, <3>1, <3>2, SamePair
  <2> DEFINE r == [at |-> then, pair |-> p, sure |-> calls[c].sure]
  <2>6. r \in CallRecords
    BY <2>2, <2>4, RecordMade DEF Awaiting
  <2>7. r.at = then /\ r.pair = p /\ r.sure = calls[c].sure
    OBVIOUS
  <2>8. calls' = [calls EXCEPT ![c] = r]
    BY <2>1
  <2> HIDE DEF r
  <2>9. connected
    BY <1>1, <2>1, CallIsConnected
  <2>10. /\ r.at \notin Saving
         /\ r.sure /\ r.at \in {"read_dur", "dur"} => r.pair.ths = ram.ths
         /\ r.sure /\ r.at \in {"shown", "saved"} => r.pair = ram
    BY <1>1, <2>4, <2>5, <2>7 DEF Saving
  <2>11. /\ UNCHANGED <<power, imu, imuReady, ram, nvs, ready, handler, kept, connected>>
         /\ reboot' = reboot /\ handler = Idle
    BY <2>1
  <2>12. enabled' \in BOOLEAN /\ (enabled' => enabled)
    BY <2>1, <2>2
  <2> QED BY <2>6, <2>8, <2>9, <2>10, <2>11, <2>12, OneCallMoves
<1>2. CASE Reads(c, "read_ths", "ths", "read_dur")
  BY <1>1, <1>2
<1>3. CASE Reads(c, "read_dur", "dur", "shown")
  BY <1>1, <1>3
<1> QED BY <1>2, <1>3 DEF Read

LEMMA WriteKeeps ==
  ASSUME IInv, NEW c \in Calls, Write(c)
  PROVE  IInv'
<1>1. /\ calls[c].at \in {"ths", "dur"}
      /\ WriteRegister(calls[c].at, calls[c].pair[calls[c].at], c)
  BY DEF Write
<1>2. calls[c].pair[calls[c].at] \in Values(calls[c].at)
  <2>1. calls[c].pair \in Pairs
    BY CallType DEF IInv
  <2> QED BY <1>1, <2>1 DEF Pairs, Values
<1> QED BY <1>1, <1>2, WriteRegisterKeeps

\* A call is over, whatever came of it.
LEMMA EndKeeps ==
  ASSUME IInv, NEW c \in Calls, Ends(c), calls[c].at # "none",
         handler = Idle \/ handler.by # c,
         UNCHANGED <<power, imu, imuReady, ram, nvs, ready, handler, kept>>,
         reboot' = reboot \/ (reboot = "none" /\ reboot' = "scheduled")
  PROVE  IInv'
<1>1. /\ calls' = [calls EXCEPT ![c] = NoCall] /\ UNCHANGED connected
      /\ enabled' = (enabled \/ calls[c].at \in Saving)
  BY DEF Ends
<1>2. connected /\ power
  BY CallIsConnected
<1>3. NoCall \in CallRecords
  BY Defaults
<1>4. NoCall.sure = FALSE /\ NoCall.at = "none"
  BY DEF NoCall
<1>5. NoCall.at \notin Saving
  BY <1>4 DEF Saving
<1> QED BY <1>1, <1>2, <1>3, <1>4, <1>5, OneCallMoves

LEMMA CallEndKeeps ==
  ASSUME IInv, NEW c \in Calls, Command(c) \/ ReadEnds(c) \/ CallFails(c)
  PROVE  IInv'
<1>1. CASE Command(c)
  <2>1. /\ calls[c].at # "none" /\ Ends(c) /\ handler = Idle
        /\ UNCHANGED <<power, imu, imuReady, ram, nvs, ready, handler, kept>>
        /\ reboot' = IF reboot = "none" THEN "scheduled" ELSE reboot
    BY <1>1 DEF Command, WriteCommand
  <2> QED BY <2>1, EndKeeps
<1>2. CASE ReadEnds(c)
  <2>1. /\ calls[c].at = "shown" /\ Ends(c)
        /\ UNCHANGED <<power, imu, imuReady, ram, nvs, ready, handler, reboot, kept>>
    BY <1>2 DEF ReadEnds, moteVars
  <2>2. connected
    BY <2>1, CallIsConnected
  <2>3. handler = Idle \/ handler.by # c
    BY <2>1, <2>2, HandlerIsWriting
  <2> QED BY <2>1, <2>3, EndKeeps
<1>3. CASE CallFails(c)
  <2>1. /\ calls[c].at # "none" /\ Ends(c) /\ handler.by # c
        /\ UNCHANGED <<power, imu, imuReady, ram, nvs, ready, handler, reboot, kept>>
    BY <1>3 DEF CallFails, moteVars, Awaiting, Saving
  <2> QED BY <2>1, EndKeeps
<1> QED BY <1>1, <1>2, <1>3

LEMMA OtherClientKeeps ==
  ASSUME IInv, OtherClientWrites
  PROVE  IInv'
<1>1. ~connected
  BY DEF OtherClientWrites
<1>2. CASE \E v \in 0 .. MaxThs + 1 : WriteRegister("ths", v, Missing)
  <2>1. PICK v \in 0 .. MaxThs + 1 : WriteRegister("ths", v, Missing)
    BY <1>2
  <2>2. v \in Values("ths")
    BY <2>1, ConfigAssumption DEF WriteRegister, Accepted, Values
  <2> QED BY <1>1, <2>1, <2>2, WriteRegisterKeeps
<1>3. CASE \E v \in 0 .. MaxDur : WriteRegister("dur", v, Missing)
  <2>1. PICK v \in 0 .. MaxDur : WriteRegister("dur", v, Missing)
    BY <1>3
  <2>2. v \in Values("dur")
    BY <2>1 DEF Values
  <2> QED BY <1>1, <2>1, <2>2, WriteRegisterKeeps
<1> QED BY <1>2, <1>3 DEF OtherClientWrites

LEMMA LinkLostKeeps ==
  ASSUME IInv, LinkLost
  PROVE  IInv'
<1>1. /\ connected' = FALSE /\ enabled' = FALSE /\ calls' = [c \in Calls |-> NoCall]
      /\ UNCHANGED <<power, imu, imuReady, ram, nvs, ready, handler, reboot, kept>>
  BY DEF LinkLost, Disconnect, moteVars
<1>2. \A c \in Calls : calls'[c].at = "none"
  BY <1>1 DEF NoCall
<1>3. calls' \in [Calls -> CallRecords]
  BY <1>1, Defaults
<1>4. PageInv'
  BY <1>1, <1>2 DEF PageInv, HandlerInv, SaveInv, SureInv, Half, Whole, Saving
<1> QED BY <1>1, <1>2, <1>3, <1>4, PageMoves

-----------------------------------------------------------------------------
LEMMA Inductive == IInv /\ [Next]_vars => IInv'
<1> SUFFICES ASSUME IInv, [Next]_vars PROVE IInv'
  OBVIOUS
<1>1. CASE Boot
  BY <1>1, BootKeeps
<1>2. CASE PowerLoss
  <2>1. Halt /\ kept' = IF reboot = "ths_saved" /\ ready THEN Missing ELSE kept
    BY <1>2 DEF PowerLoss
  <2> QED BY <2>1, HaltKeeps
<1>3. CASE Client
  <2>1. ASSUME NEW c \in Calls,
               \/ Connect(c) \/ StartRead(c) \/ StartSave(c) \/ StartReboot(c)
               \/ Read(c) \/ Write(c) \/ Command(c) \/ ReadEnds(c) \/ CallFails(c)
        PROVE  IInv'
    BY <2>1, ConnectKeeps, StartKeeps, ReadKeeps, WriteKeeps, CallEndKeeps
  <2> QED BY <1>3, <2>1, OtherClientKeeps, LinkLostKeeps DEF Client, Page
<1>4. CASE CopyToRam
  BY <1>4, CopyToRamKeeps
<1>5. CASE SaveThs \/ SaveDur
  BY <1>5, SaveKeeps
<1>6. CASE SysReboot
  <2>1. Halt /\ kept' = kept /\ reboot # "ths_saved"
    BY <1>6 DEF SysReboot
  <2> QED BY <2>1, HaltKeeps
<1>7. CASE UNCHANGED vars
  BY <1>7 DEF vars, IInv, TypeOK, OffInv, RegisterInv, PageInv, HandlerInv, SaveInv,
              SureInv, Half, Whole, KeptInv
<1> QED BY <1>1, <1>2, <1>3, <1>4, <1>5, <1>6, <1>7 DEF Next, Rebooting

\* The invariant holds in every state, whatever fails and whoever writes.
THEOREM Invariance == Spec => []IInv
BY Initially, Inductive, PTL DEF Spec

\* Every variable of the configuration keeps its type: no byte a client may
\* send gets a value out of range into a register, RAM or flash (cfg_svc.c).
THEOREM TypeCorrect == Spec => []TypeOK
<1>1. IInv => TypeOK
  BY DEF IInv
<1> QED BY <1>1, Invariance, PTL

\* What a client reads back is what the IMU works with, except within a write
\* handler (cfg_svc.c, write_ths and write_dur).
THEOREM RegistersMatch == Spec => []ImuMatchesRam
<1>1. IInv => ImuMatchesRam
  BY DEF IInv, RegisterInv, ImuMatchesRam
<1> QED BY <1>1, Invariance, PTL

\* What the page reports are the values of the mote, whatever other calls of it
\* are under way: as saved, unless connect enabled the buttons while a save was
\* under way; as read, unless a write was answered during the read
\* (tools/web-bt/index.html, connect, readValues and writeValues).
THEOREM PageIsTruthful == Spec => []PageTellsTruth
<1>1. IInv => PageTellsTruth
  BY DEF IInv, PageInv, SureInv, Whole, PageTellsTruth
<1> QED BY <1>1, Invariance, PTL

\* The mote comes back with the pair that the last commanded reboot began to
\* save, also where power was lost, before the saves or after them: unless one
\* of its saves failed, a power loss or a write of the duration came between
\* the two, or a load failed (main.c, imu_save_config and cfg_settings_init).
THEOREM RebootLosesNothing == Spec => RebootKeepsConfig
<1>1. IInv /\ [Next]_vars =>
        [~power /\ power' /\ ready' /\ kept' # Missing => ram' = kept']_vars
  <2>1. SUFFICES ASSUME IInv, Next, ~power, power', ready', kept' # Missing
                 PROVE  ram' = kept'
    OBVIOUS
  <2>2. Boot
    <3>1. ~connected /\ \A c \in Calls : calls[c].at = "none"
      BY <2>1 DEF IInv, OffInv
    <3>2. ~enabled
      BY <2>1 DEF IInv, OffInv
    <3>3. ~Client
      BY <2>1, <3>1, <3>2 DEF Client, Page, Connect, StartRead, StartSave, StartReboot,
         Starts, Read, Reads, Write, WriteRegister, Command, ReadEnds, CallFails,
         OtherClientWrites, LinkLost, Awaiting, Saving
    <3> QED BY <2>1, <3>3 DEF Next, PowerLoss, CopyToRam, Rebooting, SaveThs, SaveDur,
                             SysReboot
  <2>3. ram' = Loaded /\ kept' = kept
    BY <2>1, <2>2 DEF Boot, LoadSettings
  <2>4. /\ kept \in Pairs
        /\ Or(nvs.ths, DefaultThs) = kept.ths /\ Or(nvs.dur, DefaultDur) = kept.dur
    BY <2>1, <2>3 DEF IInv, TypeOK, OffInv, KeptInv
  <2>5. Loaded \in Pairs
    BY ConfigAssumption, <2>1 DEF IInv, TypeOK, Loaded, Or, Pairs
  <2>6. Loaded = kept
    BY <2>4, <2>5, SamePair DEF Loaded
  <2> QED BY <2>3, <2>6
<1> QED BY <1>1, Invariance, PTL DEF Spec, RebootKeepsConfig
=============================================================================
