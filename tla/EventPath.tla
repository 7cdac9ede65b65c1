------------------------------ MODULE EventPath ------------------------------
(***************************************************************************)
(* The path of a motion event: the mote numbers and broadcasts it          *)
(* (fill_bthome_payload in mote/src/main.c), every gateway in range drops  *)
(* the repetitions and publishes it (parse_bthome in                       *)
(* gateway/main/ble_scanner.c, mqtt_mgr_publish_event), and the backend    *)
(* drops the copies of the other gateways (app/backend/store.py).          *)
(*                                                                         *)
(* The radio loses and repeats frames; MQTT at QoS 0 delays and loses      *)
(* messages; motes and gateways restart.  Time passes in Tick, which waits *)
(* for what the bounds BurstLen and Latency say must happen first.         *)
(***************************************************************************)
EXTENDS Integers, Sequences, FiniteSets

CONSTANTS
    Motes, Gateways,
    PidMod,         \* 256 in the code: packet ids are bytes
    MaxMotes,       \* MAX_MOTES: slots of a gateway's dedup_table
    Ttl,            \* DEDUP_TTL_S
    SeenLimit,      \* 4096 in the code: size at which _seen is collected
    BurstLen,       \* a burst is on the air for at most this long
    Latency,        \* a message is delivered within this time or lost
    Gap,            \* time between two motion bursts of a mote (MotionGate)
    MoteReboots, LinksDrop,         \* faults explored
    MaxReboots, MaxEvents, MaxTime  \* bounds: restarts of gateways, bursts, time

ASSUME PathAssumption ==
    /\ PidMod \in Nat \ {0} /\ MaxMotes \in Nat /\ SeenLimit \in Nat
    /\ BurstLen \in Nat /\ Latency \in Nat /\ Gap \in Nat
    /\ MaxEvents \in Nat /\ MaxTime \in Nat
    /\ MaxReboots \in Nat
    /\ MoteReboots \in BOOLEAN /\ LinksDrop \in BOOLEAN

\* The race window of the gateways is shorter than DEDUP_TTL_S.
ASSUME WindowAssumption == Ttl \in Nat /\ BurstLen + Latency < Ttl

VARIABLES
    now,        \* the time
    bthome_pid, \* per mote: the last packet id used
    air,        \* per mote: the frame its last burst repeats
    dedup,      \* per gateway: dedup_table, the last packet id of each mote
    connected,  \* per gateway: the MQTT client is connected
    net,        \* per gateway: messages on their way to the backend
    seen,       \* _seen: when each (mac, packet id) was last stored
    log,        \* the events stored, in their order
    count,      \* history: number of bursts so far
    lastMotion, \* per mote: time of the last motion burst since its boot
    reboots,    \* history: number of restarts of gateways
    heard,      \* history: per gateway and mote, the last burst heard
    owed        \* history: events a connected gateway heard for the first time,
                \* not stored since, nor a copy of them lost by the network

netVars == <<connected, net>>
gwVars == <<dedup, reboots, heard, owed>>
moteVars == <<bthome_pid, air, count, lastMotion>>
vars == <<now, moteVars, gwVars, netVars, seen, log>>

Pids == 0 .. PidMod - 1
Keys == Motes \X Pids

Empty == PidMod         \* an unused slot of dedup_table
Fresh == PidMod - 1     \* 0xFF in the code: the packet id of a slot just taken
Never == 0 - Ttl        \* when an absent key of _seen was last stored
NoMotion == 0 - Gap     \* has_last_emit is false
NoBurst == 0

\* What a burst repeats.  "n" and "born" identify the burst; the code does not
\* see them.
Frames == [mote : Motes, pid : Pids, moving : BOOLEAN, n : Nat, born : Nat]
Messages == [frame : Frames, sent : Nat]

TypeOK ==
    /\ now \in Nat /\ count \in Nat /\ reboots \in Nat
    /\ bthome_pid \in [Motes -> Pids]
    /\ air \in [Motes -> Frames]
    /\ dedup \in [Gateways -> [Motes -> Pids \cup {Empty}]]
    /\ connected \in [Gateways -> BOOLEAN]
    /\ net \in [Gateways -> Seq(Messages)]
    /\ seen \in [Keys -> Int]
    /\ log \in Seq(Frames)
    /\ lastMotion \in [Motes -> Int]
    /\ heard \in [Gateways -> [Motes -> Nat]]
    /\ owed \in SUBSET Frames

\* Each mote is in its boot heartbeat.
Init ==
    /\ now = 0 /\ count = 0 /\ reboots = 0
    /\ bthome_pid = [m \in Motes |-> 1 % PidMod]
    /\ air = [m \in Motes |-> [mote |-> m, pid |-> 1 % PidMod, moving |-> FALSE,
                               n |-> 0, born |-> 0]]
    /\ dedup = [g \in Gateways |-> [m \in Motes |-> Empty]]
    /\ connected = [g \in Gateways |-> FALSE]
    /\ net = [g \in Gateways |-> <<>>]
    /\ seen = [k \in Keys |-> Never]
    /\ log = <<>>
    /\ lastMotion = [m \in Motes |-> NoMotion]
    /\ heard = [g \in Gateways |-> [m \in Motes |-> NoBurst]]
    /\ owed = {}

-----------------------------------------------------------------------------
(* The mote.  A new burst replaces the one on the air.                      *)

\* Variant: the packet id does not wrap.
BurstUnwrapped(m, last, motion) ==
    LET pid == last + 1 IN
    /\ count < MaxEvents
    /\ count' = count + 1
    /\ bthome_pid' = [bthome_pid EXCEPT ![m] = pid]
    /\ air' = [air EXCEPT ![m] = [mote |-> m, pid |-> pid, moving |-> motion,
                                  n |-> count + 1, born |-> now]]
    /\ UNCHANGED <<now, gwVars, netVars, seen, log>>

\* start_bthome_burst with the packet id that fill_bthome_payload takes after
\* "last".
Burst(m, last, motion) ==
    LET pid == (last + 1) % PidMod IN
    /\ count < MaxEvents
    /\ count' = count + 1
    /\ bthome_pid' = [bthome_pid EXCEPT ![m] = pid]
    /\ air' = [air EXCEPT ![m] = [mote |-> m, pid |-> pid, moving |-> motion,
                                  n |-> count + 1, born |-> now]]
    /\ UNCHANGED <<now, gwVars, netVars, seen, log>>

\* Variant: the gate has no cooldown.
MotionUngated(m) ==
    /\ lastMotion' = [lastMotion EXCEPT ![m] = now]
    /\ Burst(m, bthome_pid[m], TRUE)

Motion(m) ==
    /\ now - lastMotion[m] >= Gap
    /\ lastMotion' = [lastMotion EXCEPT ![m] = now]
    /\ Burst(m, bthome_pid[m], TRUE)

\* The packet id and the motion gate live in RAM.
MoteReboot(m) ==
    /\ MoteReboots
    /\ lastMotion' = [lastMotion EXCEPT ![m] = NoMotion]
    /\ Burst(m, 0, FALSE)

-----------------------------------------------------------------------------
(* The gateway: parse_bthome of one advertisement of the burst.             *)

Used(g) == {m \in Motes : dedup[g][m] # Empty}

\* find_or_add_dedup has or finds a slot.
HasSlot(g, m) == m \in Used(g) \/ Cardinality(Used(g)) < MaxMotes

\* The packet id the table holds for the mote, 0xFF if it just got its slot.
LastPid(g, m) == IF m \in Used(g) THEN dedup[g][m] ELSE Fresh

OnAir(m) == now <= air[m].born + BurstLen

Publish(g, frame) ==
    net' = IF connected[g]
           THEN [net EXCEPT ![g] = Append(@, [frame |-> frame, sent |-> now])]
           ELSE net

HearNew(g, m) ==
    /\ OnAir(m)
    /\ HasSlot(g, m)
    /\ LastPid(g, m) # air[m].pid
    /\ dedup' = [dedup EXCEPT ![g][m] = air[m].pid]
    /\ Publish(g, air[m])
    /\ UNCHANGED <<now, moteVars, reboots, connected, seen, log>>

HearKnown(g, m) ==
    /\ OnAir(m)
    /\ HasSlot(g, m)
    /\ LastPid(g, m) = air[m].pid
    /\ dedup' = [dedup EXCEPT ![g][m] = air[m].pid]
    /\ UNCHANGED <<now, moteVars, reboots, netVars, seen, log>>

Stored(frame) == \E i \in DOMAIN log : log[i] = frame

\* History: the burst is now heard, and owed if a connected gateway hears it
\* for the first time.
Note(g, m) ==
    /\ heard' = [heard EXCEPT ![g][m] = air[m].n]
    /\ owed' = IF /\ connected[g] /\ air[m].moving
                  /\ heard[g][m] # air[m].n
                  /\ ~Stored(air[m])
               THEN owed \cup {air[m]}
               ELSE owed

Hear(g, m) == (HearNew(g, m) \/ HearKnown(g, m)) /\ Note(g, m)

\* The table is full: the mote is ignored.
HearNoSlot(g, m) == OnAir(m) /\ ~HasSlot(g, m) /\ UNCHANGED vars

-----------------------------------------------------------------------------
(* The network: messages of a gateway arrive in order; QoS 0 repeats none.  *)

FramesIn(msgs) == {msgs[i].frame : i \in DOMAIN msgs}

Connect(g) ==
    /\ ~connected[g]
    /\ connected' = [connected EXCEPT ![g] = TRUE]
    /\ UNCHANGED <<now, moteVars, gwVars, net, seen, log>>

\* The last messages of the gateway are lost with its connection.
Drop(g) ==
    /\ \E k \in 0 .. Len(net[g]) :
         /\ net' = [net EXCEPT ![g] = SubSeq(@, 1, k)]
         /\ owed' = owed \ FramesIn(SubSeq(net[g], k + 1, Len(net[g])))
    /\ connected' = [connected EXCEPT ![g] = FALSE]
    /\ UNCHANGED <<now, moteVars, seen, log>>

Disconnect(g) ==
    LinksDrop /\ connected[g] /\ Drop(g) /\ UNCHANGED <<dedup, reboots, heard>>

GatewayReboot(g) ==
    /\ reboots < MaxReboots
    /\ reboots' = reboots + 1
    /\ dedup' = [dedup EXCEPT ![g] = [m \in Motes |-> Empty]]
    /\ heard' = [heard EXCEPT ![g] = [m \in Motes |-> NoBurst]]
    /\ Drop(g)

\* The broker holds nothing for a backend that is not connected.
Lose(g) ==
    /\ LinksDrop
    /\ net[g] # <<>>
    /\ net' = [net EXCEPT ![g] = Tail(@)]
    /\ owed' = owed \ {Head(net[g]).frame}
    /\ UNCHANGED <<now, moteVars, dedup, reboots, heard, connected, seen, log>>

-----------------------------------------------------------------------------
(* The backend: EventStore.add_event.                                       *)

\* Variant: the packet id alone is the key.
KeyOfPid(frame) == <<CHOOSE m \in Motes : TRUE, frame.pid>>

Key(frame) == <<frame.mote, frame.pid>>

\* The opportunistic collection of stale entries.
Collect(s) ==
    IF Cardinality({k \in Keys : s[k] # Never}) > SeenLimit
    THEN [k \in Keys |-> IF now - s[k] < Ttl THEN s[k] ELSE Never]
    ELSE s

\* Variant: a duplicate is recognised until the time to live is half over.
DuplicateHalf(frame) == now - seen[Key(frame)] < Ttl \div 2

Duplicate(frame) == now - seen[Key(frame)] < Ttl

Store(frame) ==
    /\ ~Duplicate(frame)
    /\ seen' = Collect([seen EXCEPT ![Key(frame)] = now])
    /\ log' = Append(log, frame)
    /\ owed' = owed \ {frame}

DropDuplicate(frame) == Duplicate(frame) /\ UNCHANGED <<seen, log, owed>>

\* A /seen message stores nothing.
AddEvent(frame) ==
    \/ frame.moving /\ (Store(frame) \/ DropDuplicate(frame))
    \/ ~frame.moving /\ UNCHANGED <<seen, log, owed>>

Deliver(g) ==
    /\ net[g] # <<>>
    /\ AddEvent(Head(net[g]).frame)
    /\ net' = [net EXCEPT ![g] = Tail(@)]
    /\ UNCHANGED <<now, moteVars, dedup, reboots, heard, connected>>

-----------------------------------------------------------------------------
\* No message is older than Latency.
Tick ==
    /\ now < MaxTime
    /\ \A g \in Gateways : \A i \in DOMAIN net[g] : now < net[g][i].sent + Latency
    /\ now' = now + 1
    /\ UNCHANGED <<moteVars, gwVars, netVars, seen, log>>

GatewayStep(g) ==
    \/ \E m \in Motes : Hear(g, m) \/ HearNoSlot(g, m)
    \/ Connect(g) \/ Disconnect(g) \/ GatewayReboot(g)
    \/ Lose(g) \/ Deliver(g)

Next ==
    \/ \E m \in Motes : Motion(m) \/ MoteReboot(m)
    \/ \E g \in Gateways : GatewayStep(g)
    \/ Tick

Spec == Init /\ [][Next]_vars

\* A message is delivered or lost in the end.
FairSpec == Spec /\ \A g \in Gateways : WF_vars(Deliver(g))

-----------------------------------------------------------------------------
(* Properties.                                                              *)

InFlight(frame) ==
    \E g \in Gateways : \E i \in DOMAIN net[g] : net[g][i].frame = frame

\* "Multi-gateway dedup" (README.md): a motion event is stored once, however
\* many gateways heard it, restarted in its burst or delivered it late,
\* although packet ids wrap, motes restart and _seen is collected.
EachEventOnce == \A i, j \in DOMAIN log : log[i] = log[j] => i = j

\* The two stages of deduplication eat no event: what a connected gateway
\* heard is stored or on its way, unless the network lost it.
FreshIsStored == \A e \in owed : InFlight(e)

\* The path delivers: each event that a connected gateway hears is stored or
\* lost by the network, never twice and never behind a later one of its mote,
\* whichever gateway was faster and whatever restarts and disconnects meanwhile.
Promise == INSTANCE Delivery WITH
    happened <- count,
    owed     <- {frame.n : frame \in owed},
    stored   <- [i \in DOMAIN log |-> [mote |-> log[i].mote, n |-> log[i].n]]

ImplementsDelivery == Promise!Spec
=============================================================================
