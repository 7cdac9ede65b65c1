--------------------------- MODULE EventPathProofs ---------------------------
(***************************************************************************)
(* Theorems about EventPath: for any motes, gateways, packet ids and       *)
(* bounds, and that it implements the safety part of Delivery.             *)
(***************************************************************************)
EXTENDS EventPath, SequenceTheorems, TLAPS

In(s, x) == \E k \in DOMAIN s : s[k] = x

\* The frames that are on the air, on their way, stored or owed.
Known(f) ==
    \/ \E m \in Motes : f = air[m]
    \/ \E g \in Gateways : \E msg \in Messages : In(net[g], msg) /\ f = msg.frame
    \/ In(log, f)
    \/ f \in owed

\* Bursts have happened, and each has its number.
KnownInv ==
    /\ \A m \in Motes : air[m].mote = m
    /\ \A f \in Frames : Known(f) =>
         f.n <= count /\ f.born <= now /\ (f.moving => f.n > 0)
    /\ \A f, h \in Frames : Known(f) /\ Known(h) /\ f.n = h.n /\ f.n > 0 => f = h

\* A message was sent within the burst it repeats and is not overdue.
TimeInv ==
    \A g \in Gateways : \A msg \in Messages : In(net[g], msg) =>
        /\ msg.frame.born <= msg.sent /\ msg.sent <= msg.frame.born + BurstLen
        /\ now <= msg.sent + Latency

\* _seen knows of an event stored since it happened, or its time to live is over.
SeenInv ==
    \A f \in Frames : In(log, f) =>
        seen[Key(f)] >= f.born \/ now - f.born >= Ttl

IInv == TypeOK /\ KnownInv /\ TimeInv /\ SeenInv /\ EachEventOnce

\* Without restarts of the mote the motions of a mote are apart.
PaceInv ==
    /\ count <= MaxEvents
    /\ ~MoteReboots =>
        /\ \A f \in Frames : Known(f) /\ f.moving => f.born <= lastMotion[f.mote]
        /\ \A f, h \in Frames :
             Known(f) /\ Known(h) /\ f.mote = h.mote /\ f.moving /\ f.n < h.n =>
                 f.born + Gap <= h.born

\* Packet ids do not recur and stay below the mark of a fresh slot.
NoRecurrence == ~MoteReboots /\ MaxEvents + 2 < PidMod

\* Then the packet id is as good a name as the number of the burst,
PidInv ==
    /\ count <= MaxEvents
    /\ \A m \in Motes : bthome_pid[m] <= count + 1 /\ air[m].pid = bthome_pid[m]
    /\ \A f \in Frames : Known(f) => f.pid <= bthome_pid[f.mote]
    /\ \A f, h \in Frames :
         Known(f) /\ Known(h) /\ f.mote = h.mote /\ f.pid = h.pid => f.n = h.n

\* a gateway whose slot holds the packet id on the air has heard that burst,
SlotInv ==
    \A g \in Gateways, m \in Motes : dedup[g][m] # Empty =>
        /\ dedup[g][m] <= bthome_pid[m]
        /\ dedup[g][m] = air[m].pid => heard[g][m] = air[m].n

\* what _seen remembers is stored, and what is owed is not.
OwedInv ==
    /\ \A k \in Keys : seen[k] # Never => \E f \in Frames : In(log, f) /\ Key(f) = k
    /\ \A f \in owed : f.moving /\ ~In(log, f)

FreshInv == NoRecurrence => PidInv /\ SlotInv /\ OwedInv /\ FreshIsStored

-----------------------------------------------------------------------------
(* Sequences and the collection.                                            *)

\* What a message queue or the log holds after an append,
LEMMA InAppend ==
    ASSUME NEW S, NEW s \in Seq(S), NEW e \in S, NEW x
    PROVE  In(Append(s, e), x) <=> In(s, x) \/ x = e
<1>1. /\ DOMAIN s = 1 .. Len(s) /\ Len(s) \in Nat
      /\ DOMAIN Append(s, e) = 1 .. Len(s) + 1
      /\ \A k \in 1 .. Len(s) : Append(s, e)[k] = s[k]
      /\ Append(s, e)[Len(s) + 1] = e
    OBVIOUS
<1> QED BY <1>1, Z3 DEF In

\* without its first element,
LEMMA InTail ==
    ASSUME NEW S, NEW s \in Seq(S), s # <<>>, NEW x
    PROVE  /\ Tail(s) \in Seq(S) /\ Head(s) \in S /\ In(s, Head(s))
           /\ In(Tail(s), x) => In(s, x)
           /\ In(s, x) => x = Head(s) \/ In(Tail(s), x)
<1>1. /\ DOMAIN s = 1 .. Len(s) /\ Len(s) \in Nat /\ Len(s) > 0
      /\ Tail(s) \in Seq(S) /\ Head(s) \in S /\ Head(s) = s[1]
      /\ DOMAIN Tail(s) = 1 .. Len(s) - 1
      /\ \A k \in 1 .. Len(s) - 1 : Tail(s)[k] = s[k + 1]
    OBVIOUS
<1>2. In(s, Head(s))
    BY <1>1 DEF In
<1>3. ASSUME In(Tail(s), x) PROVE In(s, x)
    BY <1>1, <1>3 DEF In
<1>4. ASSUME In(s, x), x # Head(s) PROVE In(Tail(s), x)
    <2>1. PICK k \in 1 .. Len(s) : s[k] = x
        BY <1>1, <1>4 DEF In
    <2>2. k - 1 \in 1 .. Len(s) - 1 /\ Tail(s)[k - 1] = x
        BY <1>1, <1>4, <2>1
    <2> QED BY <1>1, <2>2 DEF In
<1> QED BY <1>1, <1>2, <1>3, <1>4

\* and when its end is cut off.
LEMMA InPrefix ==
    ASSUME NEW S, NEW s \in Seq(S), NEW k \in 0 .. Len(s), NEW x
    PROVE  /\ SubSeq(s, 1, k) \in Seq(S)
           /\ In(SubSeq(s, 1, k), x) => In(s, x)
           /\ In(s, x) => In(SubSeq(s, 1, k), x) \/ In(SubSeq(s, k + 1, Len(s)), x)
<1>1. /\ DOMAIN s = 1 .. Len(s) /\ Len(s) \in Nat
      /\ SubSeq(s, 1, k) \in Seq(S)
      /\ DOMAIN SubSeq(s, 1, k) = 1 .. k
      /\ \A j \in 1 .. k : SubSeq(s, 1, k)[j] = s[j]
    OBVIOUS
<1>2. /\ DOMAIN SubSeq(s, k + 1, Len(s)) = 1 .. Len(s) - k
      /\ \A j \in 1 .. Len(s) - k : SubSeq(s, k + 1, Len(s))[j] = s[j + k]
    OBVIOUS
<1>3. ASSUME In(SubSeq(s, 1, k), x) PROVE In(s, x)
    BY <1>1, <1>3 DEF In
<1>4. ASSUME In(s, x) PROVE In(SubSeq(s, 1, k), x) \/ In(SubSeq(s, k + 1, Len(s)), x)
    <2>1. PICK j \in 1 .. Len(s) : s[j] = x
        BY <1>1, <1>4 DEF In
    <2>2. CASE j <= k
        <3>1. j \in 1 .. k /\ SubSeq(s, 1, k)[j] = x
            BY <1>1, <2>1, <2>2
        <3> QED BY <1>1, <3>1 DEF In
    <2>3. CASE j > k
        <3>1. j - k \in 1 .. Len(s) - k /\ SubSeq(s, k + 1, Len(s))[j - k] = x
            BY <1>1, <1>2, <2>1, <2>3
        <3> QED BY <1>2, <3>1 DEF In
    <2> QED BY <1>1, <2>1, <2>2, <2>3
<1> QED BY <1>1, <1>3, <1>4

\* The collection forgets only entries whose time to live is over.
LEMMA CollectKeeps ==
    ASSUME NEW s \in [Keys -> Int], now \in Int
    PROVE  /\ Collect(s) \in [Keys -> Int]
           /\ \A k \in Keys :
                Collect(s)[k] = s[k] \/ (now - s[k] >= Ttl /\ Collect(s)[k] = Never)
<1>1. Never \in Int /\ Ttl \in Int
    BY WindowAssumption DEF Never
<1>2. CASE Cardinality({k \in Keys : s[k] # Never}) > SeenLimit
    <2>1. Collect(s) = [k \in Keys |-> IF now - s[k] < Ttl THEN s[k] ELSE Never]
        BY <1>2 DEF Collect
    <2>2. ASSUME NEW k \in Keys
          PROVE  /\ Collect(s)[k] \in Int
                 /\ Collect(s)[k] = s[k] \/ (now - s[k] >= Ttl /\ Collect(s)[k] = Never)
        <3>1. s[k] \in Int
            OBVIOUS
        <3>2. Collect(s)[k] = IF now - s[k] < Ttl THEN s[k] ELSE Never
            BY <2>1
        <3> HIDE DEF Collect
        <3> QED BY <1>1, <3>1, <3>2
    <2> QED BY <2>1, <2>2
<1>3. CASE ~(Cardinality({k \in Keys : s[k] # Never}) > SeenLimit)
    <2>1. Collect(s) = s
        BY <1>3 DEF Collect
    <2> QED BY <2>1
<1> QED BY <1>2, <1>3

-----------------------------------------------------------------------------
(* Types.                                                                   *)

\* What each burst and each message is.
LEMMA BurstTypes ==
    ASSUME TypeOK, NEW m \in Motes, NEW last \in Int, NEW motion \in BOOLEAN,
           Burst(m, last, motion), lastMotion' \in [Motes -> Int]
    PROVE  TypeOK'
<1> DEFINE pid == (last + 1) % PidMod
           f == [mote |-> m, pid |-> pid, moving |-> motion, n |-> count + 1,
                 born |-> now]
<1>1. pid \in Pids
    BY PathAssumption DEF Pids
<1>2. f \in Frames
    BY <1>1 DEF Frames, TypeOK
<1>3. /\ bthome_pid' = [bthome_pid EXCEPT ![m] = pid]
      /\ air' = [air EXCEPT ![m] = f]
      /\ count' = count + 1
      /\ UNCHANGED <<now, gwVars, netVars, seen, log>>
    BY DEF Burst
<1> HIDE DEF pid, f
<1>4. bthome_pid' \in [Motes -> Pids] /\ air' \in [Motes -> Frames]
    BY <1>1, <1>2, <1>3 DEF TypeOK
<1> QED BY <1>3, <1>4 DEF TypeOK, gwVars, netVars

LEMMA PublishTypes ==
    ASSUME TypeOK, NEW g \in Gateways, NEW m \in Motes, Publish(g, air[m])
    PROVE  net' \in [Gateways -> Seq(Messages)]
<1>1. [frame |-> air[m], sent |-> now] \in Messages
    BY DEF TypeOK, Messages
<1>2. net[g] \in Seq(Messages)
    BY DEF TypeOK
<1>3. Append(net[g], [frame |-> air[m], sent |-> now]) \in Seq(Messages)
    BY <1>1, <1>2
<1> HIDE DEF Messages
<1> QED BY <1>3 DEF TypeOK, Publish

LEMMA DropTypes ==
    ASSUME TypeOK, NEW g \in Gateways, Drop(g)
    PROVE  /\ net' \in [Gateways -> Seq(Messages)]
           /\ connected' \in [Gateways -> BOOLEAN]
           /\ owed' \in SUBSET Frames
<1>1. PICK k \in 0 .. Len(net[g]) : net' = [net EXCEPT ![g] = SubSeq(@, 1, k)]
    BY DEF Drop
<1>2. net[g] \in Seq(Messages)
    BY DEF TypeOK
<1>3. SubSeq(net[g], 1, k) \in Seq(Messages)
    BY <1>2, InPrefix
<1> QED BY <1>1, <1>3 DEF TypeOK, Drop

LEMMA StoreTypes ==
    ASSUME TypeOK, NEW f \in Frames, AddEvent(f)
    PROVE  /\ seen' \in [Keys -> Int]
           /\ log' \in Seq(Frames)
           /\ owed' \in SUBSET Frames
<1>1. CASE Store(f)
    <2>1. Key(f) \in Keys /\ now \in Int
        BY DEF Key, Keys, Frames, TypeOK
    <2>2. [seen EXCEPT ![Key(f)] = now] \in [Keys -> Int]
        BY <2>1 DEF TypeOK
    <2>3. Collect([seen EXCEPT ![Key(f)] = now]) \in [Keys -> Int]
        BY <2>1, <2>2, CollectKeeps
    <2>4. log \in Seq(Frames) /\ log' = Append(log, f)
        BY <1>1 DEF Store, TypeOK
    <2>5. log' \in Seq(Frames)
        BY <2>4
    <2> QED BY <1>1, <2>3, <2>5 DEF Store, TypeOK
<1>2. CASE UNCHANGED <<seen, log, owed>>
    BY <1>2 DEF TypeOK
<1> QED BY <1>1, <1>2 DEF AddEvent, DropDuplicate

\* Each step keeps the types.
LEMMA TypeStep == TypeOK /\ [Next]_vars => TypeOK'
<1> SUFFICES ASSUME TypeOK, [Next]_vars PROVE TypeOK'
    OBVIOUS
<1>1. ASSUME NEW m \in Motes, Motion(m) PROVE TypeOK'
    <2>1. lastMotion' \in [Motes -> Int] /\ bthome_pid[m] \in Int
        BY <1>1 DEF Motion, TypeOK, Pids
    <2> QED BY <1>1, <2>1, BurstTypes DEF Motion
<1>2. ASSUME NEW m \in Motes, MoteReboot(m) PROVE TypeOK'
    <2>1. lastMotion' \in [Motes -> Int]
        BY <1>2, PathAssumption DEF MoteReboot, TypeOK, NoMotion
    <2>2. Burst(m, 0, FALSE)
        BY <1>2, Zenon DEF MoteReboot
    <2>3. 0 \in Int /\ FALSE \in BOOLEAN
        OBVIOUS
    <2> QED BY <2>1, <2>2, <2>3, BurstTypes, Zenon
<1>3. ASSUME NEW g \in Gateways, NEW m \in Motes, Hear(g, m) PROVE TypeOK'
    <2>1. /\ dedup' = [dedup EXCEPT ![g][m] = air[m].pid]
          /\ UNCHANGED <<now, moteVars, reboots, connected, seen, log>>
        BY <1>3 DEF Hear, HearNew, HearKnown, netVars
    <2>4. air[m].pid \in Pids /\ dedup[g] \in [Motes -> Pids \cup {Empty}]
        BY DEF TypeOK, Frames
    <2>5. dedup' \in [Gateways -> [Motes -> Pids \cup {Empty}]]
        BY <2>1, <2>4 DEF TypeOK
    <2>2. net' \in [Gateways -> Seq(Messages)]
        BY <1>3, PublishTypes DEF Hear, HearNew, HearKnown, netVars, TypeOK
    <2>3. heard' \in [Gateways -> [Motes -> Nat]] /\ owed' \in SUBSET Frames
        BY <1>3 DEF Hear, Note, TypeOK, Frames
    <2> QED BY <2>1, <2>2, <2>3, <2>5 DEF TypeOK, moteVars
<1>4. ASSUME NEW g \in Gateways, Connect(g) PROVE TypeOK'
    BY <1>4 DEF Connect, TypeOK, moteVars, gwVars
<1>5. ASSUME NEW g \in Gateways, Disconnect(g) PROVE TypeOK'
    BY <1>5, DropTypes DEF Disconnect, Drop, TypeOK, moteVars
<1>6. ASSUME NEW g \in Gateways, GatewayReboot(g) PROVE TypeOK'
    <2>1. /\ dedup' \in [Gateways -> [Motes -> Pids \cup {Empty}]]
          /\ heard' \in [Gateways -> [Motes -> Nat]] /\ reboots' \in Nat
        BY <1>6 DEF GatewayReboot, TypeOK, NoBurst
    <2> QED BY <1>6, <2>1, DropTypes DEF GatewayReboot, Drop, TypeOK, moteVars
<1>7. ASSUME NEW g \in Gateways, Lose(g) PROVE TypeOK'
    <2>1. Tail(net[g]) \in Seq(Messages)
        BY <1>7, InTail DEF Lose, TypeOK
    <2>2. net' \in [Gateways -> Seq(Messages)]
        BY <1>7, <2>1 DEF Lose, TypeOK
    <2> QED BY <1>7, <2>2 DEF Lose, TypeOK, moteVars
<1>8. ASSUME NEW g \in Gateways, Deliver(g) PROVE TypeOK'
    <2>1. Tail(net[g]) \in Seq(Messages) /\ Head(net[g]) \in Messages
        BY <1>8, InTail DEF Deliver, TypeOK
    <2>2. net' \in [Gateways -> Seq(Messages)]
        BY <1>8, <2>1 DEF Deliver, TypeOK
    <2>3. Head(net[g]).frame \in Frames
        BY <2>1 DEF Messages
    <2>4. seen' \in [Keys -> Int] /\ log' \in Seq(Frames) /\ owed' \in SUBSET Frames
        BY <1>8, <2>3, StoreTypes DEF Deliver
    <2> QED BY <1>8, <2>2, <2>4 DEF Deliver, TypeOK, moteVars
<1>9. ASSUME Tick PROVE TypeOK'
    BY <1>9 DEF Tick, TypeOK, moteVars, gwVars, netVars
<1>10. ASSUME UNCHANGED vars PROVE TypeOK'
    BY <1>10 DEF vars, TypeOK, moteVars, gwVars, netVars
<1> QED BY <1>1, <1>2, <1>3, <1>4, <1>5, <1>6, <1>7, <1>8, <1>9, <1>10
        DEF Next, GatewayStep, HearNoSlot

-----------------------------------------------------------------------------
(* Where a frame can come from.                                             *)

\* Hearing a frame puts at most that frame into the queue,
LEMMA PublishNet ==
    ASSUME TypeOK, NEW g \in Gateways, NEW m \in Motes, Publish(g, air[m]),
           NEW x \in Gateways, NEW msg, In(net'[x], msg)
    PROVE  In(net[x], msg) \/ (x = g /\ msg = [frame |-> air[m], sent |-> now])
<1> DEFINE new == [frame |-> air[m], sent |-> now]
<1>1. new \in Messages
    BY DEF TypeOK, Messages
<1>2. net[g] \in Seq(Messages)
    BY DEF TypeOK
<1> HIDE DEF new
<1>3. net' = [net EXCEPT ![g] = Append(@, new)] \/ net' = net
    BY DEF Publish, new
<1>4. net'[x] = net[x] \/ (x = g /\ net'[x] = Append(net[g], new))
    BY <1>3 DEF TypeOK
<1>5. In(Append(net[g], new), msg) <=> In(net[g], msg) \/ msg = new
    BY <1>1, <1>2, InAppend
<1> QED BY <1>4, <1>5, Zenon DEF new

\* and a queue that loses or delivers messages gains none.
LEMMA DropNet ==
    ASSUME TypeOK, NEW g \in Gateways, Drop(g), NEW x \in Gateways, NEW msg,
           In(net'[x], msg)
    PROVE  In(net[x], msg)
<1>1. PICK k \in 0 .. Len(net[g]) : net' = [net EXCEPT ![g] = SubSeq(@, 1, k)]
    BY DEF Drop
<1>2. net[g] \in Seq(Messages)
    BY DEF TypeOK
<1>3. In(SubSeq(net[g], 1, k), msg) => In(net[g], msg)
    BY <1>2, InPrefix
<1>4. net'[x] = net[x] \/ (x = g /\ net'[x] = SubSeq(net[g], 1, k))
    BY <1>1 DEF TypeOK
<1> QED BY <1>3, <1>4, Zenon

LEMMA PopNet ==
    ASSUME TypeOK, NEW g \in Gateways, net[g] # <<>>,
           net' = [net EXCEPT ![g] = Tail(@)], NEW x \in Gateways, NEW msg
    PROVE  /\ In(net'[x], msg) => In(net[x], msg)
           /\ In(net[x], msg) => In(net'[x], msg) \/ (x = g /\ msg = Head(net[g]))
<1>1. net[g] \in Seq(Messages)
    BY DEF TypeOK
<1>2. /\ In(Tail(net[g]), msg) => In(net[g], msg)
      /\ In(net[g], msg) => msg = Head(net[g]) \/ In(Tail(net[g]), msg)
    BY <1>1, InTail
<1>3. (x # g /\ net'[x] = net[x]) \/ (x = g /\ net'[x] = Tail(net[g]))
    BY DEF TypeOK
<1> QED BY <1>2, <1>3, Zenon

\* What is delivered was on its way.
LEMMA HeadKnown ==
    ASSUME TypeOK, NEW g \in Gateways, net[g] # <<>>
    PROVE  /\ Head(net[g]) \in Messages /\ In(net[g], Head(net[g]))
           /\ Head(net[g]).frame \in Frames /\ Known(Head(net[g]).frame)
<1>1. net[g] \in Seq(Messages)
    BY DEF TypeOK
<1>2. Head(net[g]) \in Messages /\ In(net[g], Head(net[g]))
    BY <1>1, InTail
<1>3. Head(net[g]).frame \in Frames
    BY <1>2 DEF Messages
<1> QED BY <1>2, <1>3 DEF Known

\* The log gains at most the frame delivered.
LEMMA AddLog ==
    ASSUME TypeOK, NEW f \in Frames, AddEvent(f), NEW h
    PROVE  /\ In(log', h) => In(log, h) \/ (h = f /\ Store(f))
           /\ In(log, h) => In(log', h)
           /\ owed' \subseteq owed
<1>1. CASE Store(f)
    <2>1. log \in Seq(Frames) /\ log' = Append(log, f)
        BY <1>1 DEF Store, TypeOK
    <2>2. In(Append(log, f), h) <=> In(log, h) \/ h = f
        BY <2>1, InAppend
    <2>3. owed' \subseteq owed
        BY <1>1 DEF Store
    <2> QED BY <1>1, <2>1, <2>2, <2>3, Zenon
<1>2. CASE UNCHANGED <<seen, log, owed>>
    BY <1>2
<1> QED BY <1>1, <1>2 DEF AddEvent, DropDuplicate

\* Only a burst makes a frame.
Bursts == \E m \in Motes : Motion(m) \/ MoteReboot(m)

LEMMA NothingNew ==
    ASSUME TypeOK, [Next]_vars, ~Bursts, NEW f \in Frames, Known(f)'
    PROVE  Known(f)
<1> DEFINE Same == /\ air' = air
                   /\ \A x \in Gateways : \A msg \in Messages :
                        In(net'[x], msg) => In(net[x], msg) \/ Known(msg.frame)
                   /\ \A h \in Frames : In(log', h) => In(log, h) \/ Known(h)
                   /\ \A h \in owed' : Known(h)
<1>1. ASSUME NEW g \in Gateways, NEW m \in Motes, Hear(g, m) PROVE Same
    <2>1. Known(air[m])
        BY DEF Known
    <2>2. air' = air /\ log' = log
        BY <1>1 DEF Hear, HearNew, HearKnown, moteVars
    <2>3. net' = net \/ Publish(g, air[m])
        BY <1>1 DEF Hear, HearNew, HearKnown, netVars
    <2>4. ASSUME NEW x \in Gateways, NEW msg \in Messages, In(net'[x], msg)
          PROVE  In(net[x], msg) \/ Known(msg.frame)
        <3>1. CASE net' = net
            BY <2>4, <3>1
        <3>2. CASE Publish(g, air[m])
            <4>1. In(net[x], msg) \/ (x = g /\ msg = [frame |-> air[m], sent |-> now])
                BY <2>4, <3>2, PublishNet
            <4>2. [frame |-> air[m], sent |-> now].frame = air[m]
                OBVIOUS
            <4> QED BY <2>1, <4>1, <4>2, Zenon
        <3> QED BY <2>3, <3>1, <3>2
    <2>5. ASSUME NEW h \in owed' PROVE Known(h)
        <3>1. h \in owed \/ h = air[m]
            BY <1>1, <2>5 DEF Hear, Note
        <3> QED BY <2>1, <3>1 DEF Known
    <2> QED BY <2>2, <2>4, <2>5
<1>2. ASSUME NEW g \in Gateways, Drop(g) PROVE Same
    <2>1. air' = air /\ log' = log /\ owed' \subseteq owed
        BY <1>2 DEF Drop, moteVars
    <2> QED BY <1>2, <2>1, DropNet DEF Known
<1>3. ASSUME NEW g \in Gateways, Lose(g) PROVE Same
    <2>1. air' = air /\ log' = log /\ owed' \subseteq owed
        BY <1>3 DEF Lose, moteVars
    <2> QED BY <1>3, <2>1, PopNet DEF Known, Lose
<1>4. ASSUME NEW g \in Gateways, Deliver(g) PROVE Same
    <2> DEFINE h == Head(net[g]).frame
    <2>1. h \in Frames /\ Known(h)
        BY <1>4, HeadKnown DEF Deliver
    <2>2. AddEvent(h) /\ air' = air
        BY <1>4 DEF Deliver, moteVars
    <2> HIDE DEF h
    <2>3. owed' \subseteq owed /\ \A y \in Frames : In(log', y) => In(log, y) \/ Known(y)
        BY <2>1, <2>2, AddLog
    <2>4. \A x \in Gateways : \A msg \in Messages : In(net'[x], msg) => In(net[x], msg)
        BY <1>4, PopNet DEF Deliver
    <2> QED BY <2>2, <2>3, <2>4 DEF Known
<1>5. ASSUME UNCHANGED <<air, net, log, owed>> PROVE Same
    BY <1>5 DEF Known
<1>6. Same
    BY <1>1, <1>2, <1>3, <1>4, <1>5
       DEF Next, GatewayStep, HearNoSlot, vars, moteVars, gwVars, netVars, Bursts,
           Connect, Disconnect, GatewayReboot, Tick
<1> QED BY <1>6 DEF Known

\* A burst puts one frame on the air, with a number of its own.
NewFrame(m, f) ==
    /\ f \in Frames
    /\ f.mote = m /\ f.n = count + 1 /\ f.born = now
    /\ air' = [air EXCEPT ![m] = f]
    /\ count' = count + 1
    /\ UNCHANGED <<now, gwVars, netVars, seen, log>>

LEMMA BurstFrame ==
    ASSUME TypeOK, NEW m \in Motes, NEW last \in Int, NEW motion \in BOOLEAN,
           Burst(m, last, motion)
    PROVE  \E f \in Frames :
             NewFrame(m, f) /\ f.moving = motion /\ f.pid = (last + 1) % PidMod
<1> DEFINE pid == (last + 1) % PidMod
           f == [mote |-> m, pid |-> pid, moving |-> motion, n |-> count + 1,
                 born |-> now]
<1>1. pid \in Pids
    BY PathAssumption DEF Pids
<1> HIDE DEF pid
<1>2. f \in Frames
    BY <1>1 DEF Frames, TypeOK
<1>3. /\ f.mote = m /\ f.n = count + 1 /\ f.born = now
      /\ f.moving = motion /\ f.pid = pid
    OBVIOUS
<1>4. /\ air' = [air EXCEPT ![m] = f] /\ count' = count + 1
      /\ UNCHANGED <<now, gwVars, netVars, seen, log>>
    BY DEF Burst, pid
<1> HIDE DEF f
<1> QED BY <1>2, <1>3, <1>4, Zenon DEF NewFrame, pid

LEMMA BurstsFrame ==
    ASSUME TypeOK, Bursts
    PROVE  \E m \in Motes : \E f \in Frames : NewFrame(m, f)
<1>1. ASSUME NEW m \in Motes, Motion(m) PROVE \E f \in Frames : NewFrame(m, f)
    <2>1. bthome_pid[m] \in Int /\ TRUE \in BOOLEAN
        BY DEF TypeOK, Pids
    <2>2. Burst(m, bthome_pid[m], TRUE)
        BY <1>1, Zenon DEF Motion
    <2> QED BY <2>1, <2>2, BurstFrame, Zenon
<1>2. ASSUME NEW m \in Motes, MoteReboot(m) PROVE \E f \in Frames : NewFrame(m, f)
    <2>1. Burst(m, 0, FALSE)
        BY <1>2, Zenon DEF MoteReboot
    <2>2. 0 \in Int /\ FALSE \in BOOLEAN
        OBVIOUS
    <2> QED BY <2>1, <2>2, BurstFrame, Zenon
<1> QED BY <1>1, <1>2, Zenon DEF Bursts

LEMMA OneNew ==
    ASSUME TypeOK, NEW m \in Motes, NEW f \in Frames, NewFrame(m, f),
           NEW h \in Frames, Known(h)'
    PROVE  Known(h) \/ h = f
<1>1. \A x \in Motes : air'[x] = IF x = m THEN f ELSE air[x]
    BY DEF NewFrame, TypeOK
<1>2. net' = net /\ log' = log /\ owed' = owed
    BY DEF NewFrame, gwVars, netVars
<1> QED BY <1>1, <1>2 DEF Known

-----------------------------------------------------------------------------
(* Steps keep the invariant.                                                *)

LEMMA KnownStep == TypeOK /\ KnownInv /\ [Next]_vars => KnownInv'
<1> SUFFICES ASSUME TypeOK, KnownInv, [Next]_vars PROVE KnownInv'
    OBVIOUS
<1>1. CASE Bursts
    <2>1. PICK m \in Motes, f \in Frames : NewFrame(m, f)
        BY <1>1, BurstsFrame
    <2>2. \A h \in Frames : Known(h)' => Known(h) \/ h = f
        BY <2>1, OneNew
    <2>3. /\ count' = count + 1 /\ now' = now /\ count \in Nat /\ now \in Nat
          /\ f.n = count + 1 /\ f.born = now
          /\ \A h \in Frames : h.n \in Nat /\ h.born \in Nat
        BY <2>1 DEF NewFrame, TypeOK, Frames
    <2>4. \A x \in Motes : (air[x].mote)' = x
        BY <2>1 DEF NewFrame, TypeOK, KnownInv
    <2>5. \A h \in Frames : Known(h) =>
            h.n <= count /\ h.born <= now /\ (h.moving => h.n > 0)
        BY DEF KnownInv
    <2>6. \A h \in Frames : Known(h)' =>
            h.n <= count' /\ h.born <= now' /\ (h.moving => h.n > 0)
        BY <2>2, <2>3, <2>5
    <2>7. ASSUME NEW h \in Frames, NEW y \in Frames, Known(h)', Known(y)',
                 h.n = y.n, h.n > 0
          PROVE  h = y
        <3>1. (Known(h) \/ h = f) /\ (Known(y) \/ y = f)
            BY <2>2, <2>7
        <3>2. Known(h) /\ Known(y) => h = y
            BY <2>7 DEF KnownInv
        <3>3. ~(h = f /\ Known(y)) /\ ~(y = f /\ Known(h))
            BY <2>3, <2>5, <2>7
        <3> QED BY <3>1, <3>2, <3>3
    <2> QED BY <2>4, <2>6, <2>7 DEF KnownInv
<1>2. CASE ~Bursts
    <2>1. \A h \in Frames : Known(h)' => Known(h)
        BY <1>2, NothingNew
    <2>2. air' = air /\ count' = count /\ (now' = now \/ now' = now + 1)
        BY <1>2 DEF Next, GatewayStep, Bursts, Hear, HearNew, HearKnown, HearNoSlot,
           Connect, Disconnect, GatewayReboot, Drop, Lose, Deliver, Tick, vars, moteVars
    <2>3. \A h \in Frames : Known(h)' =>
            h.n <= count' /\ h.born <= now' /\ (h.moving => h.n > 0)
        BY <2>1, <2>2 DEF KnownInv, TypeOK, Frames
    <2> QED BY <2>1, <2>2, <2>3 DEF KnownInv
<1> QED BY <1>1, <1>2

LEMMA TimeStep == TypeOK /\ KnownInv /\ TimeInv /\ [Next]_vars => TimeInv'
<1> SUFFICES ASSUME TypeOK, KnownInv, TimeInv, [Next]_vars,
                    NEW x \in Gateways, NEW msg \in Messages, In(net'[x], msg)
             PROVE  /\ msg.frame.born <= msg.sent
                    /\ msg.sent <= msg.frame.born + BurstLen
                    /\ now' <= msg.sent + Latency
    BY DEF TimeInv
<1> DEFINE InTime == /\ msg.frame.born <= msg.sent
                     /\ msg.sent <= msg.frame.born + BurstLen
                     /\ now <= msg.sent + Latency
<1>1. In(net[x], msg) => InTime
    BY DEF TimeInv
<1> HIDE DEF InTime
<1>2. ASSUME NEW g \in Gateways, NEW m \in Motes, Hear(g, m) PROVE InTime /\ now' = now
    <2>1. /\ now' = now /\ OnAir(m)
          /\ net' = net \/ Publish(g, air[m])
        BY <1>2 DEF Hear, HearNew, HearKnown, netVars
    <2>2. In(net[x], msg) \/ msg = [frame |-> air[m], sent |-> now]
        BY <2>1, PublishNet
    <2>3. ASSUME msg = [frame |-> air[m], sent |-> now] PROVE InTime
        <3>1. /\ air[m] \in Frames /\ Known(air[m]) /\ now \in Nat
              /\ air[m].born \in Nat
            BY DEF TypeOK, Frames, Known
        <3>2. air[m].born <= now /\ now <= air[m].born + BurstLen
            BY <2>1, <3>1 DEF KnownInv, OnAir
        <3>3. msg.frame = air[m] /\ msg.sent = now
            BY <2>3
        <3>4. now <= now + Latency
            BY <3>1, PathAssumption
        <3> QED BY <3>2, <3>3, <3>4, Zenon DEF InTime
    <2> QED BY <1>1, <2>1, <2>2, <2>3
<1>3. ASSUME NEW g \in Gateways, Drop(g) PROVE InTime /\ now' = now
    BY <1>1, <1>3, DropNet DEF Drop
<1>4. ASSUME NEW g \in Gateways, Lose(g) \/ Deliver(g) PROVE InTime /\ now' = now
    BY <1>1, <1>4, PopNet DEF Lose, Deliver
<1>5. ASSUME net' = net, now' = now PROVE InTime /\ now' = now
    BY <1>1, <1>5
<1>6. ASSUME Tick PROVE InTime /\ now' <= msg.sent + Latency
    <2>1. net' = net /\ now' = now + 1
        BY <1>6 DEF Tick, netVars
    <2>2. PICK i \in DOMAIN net[x] : net[x][i] = msg
        BY <2>1 DEF In
    <2>3. now < msg.sent + Latency
        BY <1>6, <2>2 DEF Tick
    <2>4. now \in Nat /\ msg.sent \in Nat
        BY DEF TypeOK, Messages
    <2> QED BY <1>1, <2>1, <2>3, <2>4, PathAssumption
<1>7. (InTime /\ now' = now) \/ (InTime /\ now' <= msg.sent + Latency)
    BY <1>2, <1>3, <1>4, <1>5, <1>6
       DEF Next, GatewayStep, HearNoSlot, Connect, Disconnect, GatewayReboot,
           Motion, MoteReboot, Burst, vars, netVars
<1> QED BY <1>7, Zenon DEF InTime

LEMMA LogOnlyGrows ==
    ASSUME TypeOK, [Next]_vars
    PROVE  \/ /\ log' = log /\ seen' = seen
              /\ now' = now \/ now' = now + 1
           \/ \E g \in Gateways : Deliver(g) /\ Store(Head(net[g]).frame)
<1>1. ASSUME NEW g \in Gateways, Deliver(g)
      PROVE  (log' = log /\ seen' = seen /\ now' = now) \/ Store(Head(net[g]).frame)
    BY <1>1 DEF Deliver, AddEvent, DropDuplicate
<1>2. ASSUME NEW m \in Motes, Motion(m) \/ MoteReboot(m)
      PROVE  log' = log /\ seen' = seen /\ now' = now
    BY <1>2 DEF Motion, MoteReboot, Burst
<1>3. ASSUME NEW g \in Gateways, NEW m \in Motes, Hear(g, m)
      PROVE  log' = log /\ seen' = seen /\ now' = now
    BY <1>3 DEF Hear, HearNew, HearKnown
<1>4. ASSUME NEW g \in Gateways, Connect(g) \/ Drop(g) \/ Lose(g)
      PROVE  log' = log /\ seen' = seen /\ now' = now
    BY <1>4 DEF Connect, Drop, Lose
<1>5. ASSUME Tick PROVE log' = log /\ seen' = seen /\ now' = now + 1
    BY <1>5 DEF Tick
<1>6. ASSUME UNCHANGED vars PROVE log' = log /\ seen' = seen /\ now' = now
    BY <1>6 DEF vars
<1> QED BY <1>1, <1>2, <1>3, <1>4, <1>5, <1>6
        DEF Next, GatewayStep, HearNoSlot, Disconnect, GatewayReboot

\* What storing a frame does to the two sides of the backend.
LEMMA StoreEffect ==
    ASSUME TypeOK, NEW f \in Frames, Store(f)
    PROVE  /\ log' = Append(log, f) /\ log \in Seq(Frames)
           /\ \A k \in Keys :
                LET s == IF k = Key(f) THEN now ELSE seen[k]
                IN  seen'[k] = s \/ (now - s >= Ttl /\ seen'[k] = Never)
<1> DEFINE t == [seen EXCEPT ![Key(f)] = now]
<1>1. now \in Int /\ Key(f) \in Keys /\ seen \in [Keys -> Int]
    BY DEF TypeOK, Key, Keys, Frames
<1>2. t \in [Keys -> Int] /\ \A k \in Keys : t[k] = IF k = Key(f) THEN now ELSE seen[k]
    BY <1>1
<1>3. seen' = Collect(t)
    BY DEF Store
<1> HIDE DEF t
<1>4. \A k \in Keys :
        Collect(t)[k] = t[k] \/ (now - t[k] >= Ttl /\ Collect(t)[k] = Never)
    BY <1>1, <1>2, CollectKeeps
<1>5. log' = Append(log, f) /\ log \in Seq(Frames)
    BY DEF Store, TypeOK
<1> QED BY <1>2, <1>3, <1>4, <1>5, Zenon

LEMMA SeenStep == TypeOK /\ KnownInv /\ SeenInv /\ [Next]_vars => SeenInv'
<1> SUFFICES ASSUME TypeOK, KnownInv, SeenInv, [Next]_vars,
                    NEW f \in Frames, In(log', f)
             PROVE  seen'[Key(f)] >= f.born \/ now' - f.born >= Ttl
    BY DEF SeenInv, Key
<1>1. Key(f) \in Keys /\ f.born \in Int /\ now \in Int /\ seen[Key(f)] \in Int
    BY DEF TypeOK, Key, Keys, Frames
<1>2. In(log, f) => seen[Key(f)] >= f.born \/ now - f.born >= Ttl
    BY DEF SeenInv
<1>3. CASE log' = log /\ seen' = seen /\ (now' = now \/ now' = now + 1)
    BY <1>1, <1>2, <1>3, WindowAssumption
<1>4. ASSUME NEW g \in Gateways, Deliver(g), Store(Head(net[g]).frame)
      PROVE  seen'[Key(f)] >= f.born \/ now' - f.born >= Ttl
    <2> DEFINE h == Head(net[g]).frame
    <2>1. h \in Frames /\ Known(h) /\ now' = now
        BY <1>4, HeadKnown DEF Deliver
    <2>2. Store(h)
        BY <1>4
    <2> HIDE DEF h
    <2> DEFINE s == IF Key(f) = Key(h) THEN now ELSE seen[Key(f)]
    <2>3. /\ log' = Append(log, h) /\ log \in Seq(Frames)
          /\ seen'[Key(f)] = s \/ (now - s >= Ttl /\ seen'[Key(f)] = Never)
        BY <1>1, <2>1, <2>2, StoreEffect, Zenon
    <2>4. In(log, f) \/ f = h
        BY <2>1, <2>3, InAppend
    <2>5. f.born <= now
        BY <2>1, <2>4 DEF Known, KnownInv
    <2>6. s >= f.born \/ now - f.born >= Ttl
        <3>1. f = h => s = now
            OBVIOUS
        <3> QED BY <1>1, <1>2, <2>4, <2>5, <3>1
    <2>7. s \in Int
        BY <1>1
    <2> HIDE DEF s
    <2> QED BY <1>1, <2>1, <2>3, <2>6, <2>7, WindowAssumption
<1> QED BY <1>3, <1>4, LogOnlyGrows

\* A second copy of an event comes while _seen remembers the first.
LEMMA SecondCopy ==
    ASSUME IInv, NEW g \in Gateways, net[g] # <<>>, In(log, Head(net[g]).frame)
    PROVE  Duplicate(Head(net[g]).frame)
<1> DEFINE msg == Head(net[g])
           f == msg.frame
<1>1. msg \in Messages /\ In(net[g], msg) /\ f \in Frames
    BY HeadKnown DEF IInv
<1>2. msg.sent <= f.born + BurstLen /\ now <= msg.sent + Latency
    BY <1>1 DEF IInv, TimeInv
<1>3. seen[Key(f)] >= f.born \/ now - f.born >= Ttl
    BY <1>1 DEF IInv, SeenInv
<1>4. msg.sent \in Int /\ f.born \in Int /\ now \in Int /\ seen[Key(f)] \in Int
    BY <1>1 DEF IInv, TypeOK, Messages, Frames, Key, Keys
<1> HIDE DEF msg
<1>5. now - seen[Key(f)] < Ttl
    BY <1>2, <1>3, <1>4, PathAssumption, WindowAssumption
<1> QED BY <1>5 DEF Duplicate, msg

LEMMA OnceStep == IInv /\ [Next]_vars => EachEventOnce'
<1> SUFFICES ASSUME IInv, [Next]_vars PROVE EachEventOnce'
    OBVIOUS
<1>1. CASE log' = log
    BY <1>1 DEF IInv, EachEventOnce
<1>2. ASSUME NEW g \in Gateways, Deliver(g), Store(Head(net[g]).frame)
      PROVE  EachEventOnce'
    <2> DEFINE f == Head(net[g]).frame
    <2>1. f \in Frames /\ ~Duplicate(f) /\ net[g] # <<>>
        BY <1>2, HeadKnown DEF IInv, Deliver, Store
    <2>2. ~In(log, f)
        BY <2>1, SecondCopy
    <2>3. log' = Append(log, f) /\ log \in Seq(Frames)
        BY <1>2 DEF Store, IInv, TypeOK
    <2> HIDE DEF f
    <2>4. /\ DOMAIN log = 1 .. Len(log) /\ DOMAIN log' = 1 .. Len(log) + 1
          /\ Len(log) \in Nat /\ log'[Len(log) + 1] = f
          /\ \A k \in 1 .. Len(log) : log'[k] = log[k]
        BY <2>1, <2>3
    <2>5. \A k \in 1 .. Len(log) : log[k] # f
        BY <2>2, <2>4 DEF In
    <2> QED BY <2>4, <2>5 DEF IInv, EachEventOnce
<1> QED BY <1>1, <1>2, LogOnlyGrows DEF IInv

LEMMA Inductive == IInv /\ [Next]_vars => IInv'
BY TypeStep, KnownStep, TimeStep, SeenStep, OnceStep DEF IInv

LEMMA Initial == Init => IInv
<1> SUFFICES ASSUME Init PROVE IInv
    OBVIOUS
<1>1. 1 % PidMod \in Pids
    BY PathAssumption DEF Pids
<1>2. ASSUME NEW m \in Motes PROVE air[m] \in Frames /\ air[m].mote = m /\ air[m].n = 0
                                   /\ air[m].born = 0 /\ air[m].moving = FALSE
    BY <1>1 DEF Init, Frames
<1>3. air \in [Motes -> Frames] /\ bthome_pid \in [Motes -> Pids]
    BY <1>1, <1>2 DEF Init
<1>4. /\ Never \in Int /\ NoMotion \in Int /\ NoBurst \in Nat
    BY PathAssumption, WindowAssumption DEF Never, NoMotion, NoBurst
<1>5. TypeOK
    BY <1>3, <1>4 DEF Init, TypeOK
<1>6. \A f \in Frames : Known(f) => \E m \in Motes : f = air[m]
    BY DEF Init, Known, In
<1>7. KnownInv
    BY <1>2, <1>6 DEF Init, KnownInv
<1>8. TimeInv /\ SeenInv /\ EachEventOnce
    BY DEF Init, TimeInv, SeenInv, EachEventOnce, In
<1> QED BY <1>5, <1>7, <1>8 DEF IInv

THEOREM Invariance == Spec => []IInv
<1> QED BY Initial, Inductive, PTL DEF Spec

-----------------------------------------------------------------------------
(* Without restarts of motes and without recurring packet ids, the packet   *)
(* id tells the bursts of a mote apart and nothing fresh is dropped.        *)

\* The number types that the arithmetic below needs.
LEMMA PidTypes ==
    ASSUME TypeOK
    PROVE  /\ PidMod \in Nat /\ MaxEvents \in Nat /\ count \in Nat /\ now \in Nat
           /\ Fresh \in Int /\ Empty \in Int
           /\ \A m \in Motes : /\ bthome_pid[m] \in Nat /\ air[m] \in Frames
                               /\ \A g \in Gateways : /\ dedup[g][m] \in Nat
                                                      /\ heard[g][m] \in Nat
           /\ \A f \in Frames : /\ f.pid \in Nat /\ f.n \in Nat /\ f.mote \in Motes
                                /\ f.pid < PidMod /\ f.born \in Nat /\ Key(f) \in Keys
<1>1. \A g \in Gateways : \A m \in Motes :
        dedup[g][m] \in Pids \cup {Empty} /\ heard[g][m] \in Nat
    BY DEF TypeOK
<1> QED BY <1>1, PathAssumption DEF TypeOK, Frames, Pids, Fresh, Empty, Key, Keys

\* A mote that does not restart makes motion bursts only, at the pace of its gate.
LEMMA NextMotion ==
    ASSUME TypeOK, ~MoteReboots, Bursts
    PROVE  \E m \in Motes : \E f \in Frames :
             /\ NewFrame(m, f) /\ f.moving = TRUE
             /\ f.pid = (bthome_pid[m] + 1) % PidMod
             /\ bthome_pid' = [bthome_pid EXCEPT ![m] = f.pid]
             /\ lastMotion' = [lastMotion EXCEPT ![m] = now]
             /\ now - lastMotion[m] >= Gap
             /\ count < MaxEvents
<1>1. PICK m \in Motes : Motion(m)
    BY DEF Bursts, MoteReboot
<1>2. bthome_pid[m] \in Int /\ TRUE \in BOOLEAN
    BY DEF TypeOK, Pids
<1>3. Burst(m, bthome_pid[m], TRUE)
    BY <1>1, Zenon DEF Motion
<1>4. PICK f \in Frames :
        NewFrame(m, f) /\ f.moving = TRUE /\ f.pid = (bthome_pid[m] + 1) % PidMod
    BY <1>2, <1>3, BurstFrame, Zenon
<1>5. count < MaxEvents /\ bthome_pid' = [bthome_pid EXCEPT ![m] = f.pid]
    BY <1>3, <1>4, Zenon DEF Burst
<1>6. now - lastMotion[m] >= Gap /\ lastMotion' = [lastMotion EXCEPT ![m] = now]
    BY <1>1, Zenon DEF Motion
<1> QED BY <1>4, <1>5, <1>6, Zenon

\* It takes the next packet id.
LEMMA NextPid ==
    ASSUME IInv, NoRecurrence, PidInv, Bursts
    PROVE  \E m \in Motes : \E f \in Frames :
             /\ NewFrame(m, f)
             /\ f.pid = bthome_pid[m] + 1
             /\ bthome_pid' = [bthome_pid EXCEPT ![m] = f.pid]
             /\ count < MaxEvents
<1>1. PICK m \in Motes, f \in Frames :
        /\ NewFrame(m, f) /\ f.pid = (bthome_pid[m] + 1) % PidMod
        /\ bthome_pid' = [bthome_pid EXCEPT ![m] = f.pid]
        /\ count < MaxEvents
    BY NextMotion DEF IInv, NoRecurrence
<1>2. bthome_pid[m] + 1 < PidMod /\ bthome_pid[m] + 1 \in Nat
    BY <1>1, PidTypes DEF IInv, NoRecurrence, PidInv
<1>3. f.pid = bthome_pid[m] + 1
    BY <1>1, <1>2, PathAssumption
<1> QED BY <1>1, <1>3, Zenon

\* What the steps that make no frame leave alone.
LEMMA QuietStep ==
    ASSUME [Next]_vars, ~Bursts
    PROVE  UNCHANGED moteVars
BY DEF Next, GatewayStep, Bursts, Hear, HearNew, HearKnown, HearNoSlot, Connect,
       Disconnect, GatewayReboot, Drop, Lose, Deliver, Tick, vars, moteVars

LEMMA PidStep ==
    ASSUME IInv, NoRecurrence, PidInv, [Next]_vars
    PROVE  PidInv'
<1>1. CASE Bursts
    <2>1. PICK m \in Motes, f \in Frames :
            /\ NewFrame(m, f) /\ f.pid = bthome_pid[m] + 1
            /\ bthome_pid' = [bthome_pid EXCEPT ![m] = f.pid]
            /\ count < MaxEvents
        BY <1>1, NextPid
    <2>2. \A h \in Frames : Known(h)' => Known(h) \/ h = f
        BY <2>1, OneNew DEF IInv
    <2>3. /\ count' = count + 1 /\ f.mote = m
          /\ \A x \in Motes : bthome_pid'[x] = IF x = m THEN f.pid ELSE bthome_pid[x]
          /\ \A x \in Motes : air'[x] = IF x = m THEN f ELSE air[x]
        BY <2>1 DEF NewFrame, IInv, TypeOK
    <2>4. /\ count' <= MaxEvents
          /\ \A x \in Motes : bthome_pid'[x] <= count' + 1 /\ (air[x].pid)' = bthome_pid'[x]
        BY <2>1, <2>3, PidTypes DEF IInv, PidInv
    <2>5. \A h \in Frames : Known(h) => h.pid <= bthome_pid[h.mote]
        BY DEF PidInv
    <2>6. \A h \in Frames : Known(h)' => h.pid <= bthome_pid'[h.mote]
        BY <2>1, <2>2, <2>3, <2>5, PidTypes DEF IInv
    <2>7. ASSUME NEW h \in Frames, NEW y \in Frames, Known(h)', Known(y)',
                 h.mote = y.mote, h.pid = y.pid
          PROVE  h.n = y.n
        <3>1. (Known(h) \/ h = f) /\ (Known(y) \/ y = f)
            BY <2>2, <2>7
        <3>2. Known(h) /\ Known(y) => h.n = y.n
            BY <2>7 DEF PidInv
        <3>3. ~(h = f /\ Known(y)) /\ ~(y = f /\ Known(h))
            BY <2>1, <2>3, <2>5, <2>7, PidTypes DEF IInv
        <3> QED BY <3>1, <3>2, <3>3
    <2> QED BY <2>4, <2>6, <2>7 DEF PidInv
<1>2. CASE ~Bursts
    <2>1. \A h \in Frames : Known(h)' => Known(h)
        BY <1>2, NothingNew DEF IInv
    <2>2. air' = air /\ count' = count /\ bthome_pid' = bthome_pid
        BY <1>2, QuietStep DEF moteVars
    <2> QED BY <2>1, <2>2 DEF PidInv
<1> QED BY <1>1, <1>2

LEMMA SlotStep ==
    ASSUME IInv, NoRecurrence, PidInv, SlotInv, [Next]_vars
    PROVE  SlotInv'
<1> SUFFICES ASSUME NEW x \in Gateways, NEW y \in Motes, dedup'[x][y] # Empty
             PROVE  /\ dedup'[x][y] <= bthome_pid'[y]
                    /\ dedup'[x][y] = (air[y].pid)' => heard'[x][y] = (air[y].n)'
    BY DEF SlotInv, Empty
<1>1. dedup[x][y] # Empty =>
        /\ dedup[x][y] <= bthome_pid[y]
        /\ dedup[x][y] = air[y].pid => heard[x][y] = air[y].n
    BY DEF SlotInv
<1>2. CASE Bursts
    <2>1. PICK m \in Motes, f \in Frames :
            /\ NewFrame(m, f) /\ f.pid = bthome_pid[m] + 1
            /\ bthome_pid' = [bthome_pid EXCEPT ![m] = f.pid]
        BY <1>2, NextPid
    <2>2. dedup' = dedup /\ heard' = heard
        BY <2>1 DEF NewFrame, gwVars
    <2>3. /\ bthome_pid'[y] = IF y = m THEN f.pid ELSE bthome_pid[y]
          /\ air'[y] = IF y = m THEN f ELSE air[y]
        BY <2>1 DEF NewFrame, IInv, TypeOK
    <2> QED BY <1>1, <2>1, <2>2, <2>3, PidTypes DEF IInv
<1>3. CASE ~Bursts
    <2>1. air' = air /\ bthome_pid' = bthome_pid
        BY <1>3, QuietStep DEF moteVars
    <2>2. ASSUME NEW g \in Gateways, NEW m \in Motes, Hear(g, m)
          PROVE  \/ dedup'[x][y] = dedup[x][y] /\ heard'[x][y] = heard[x][y]
                 \/ dedup'[x][y] = air[y].pid /\ heard'[x][y] = air[y].n
        <3>1. /\ dedup' = [dedup EXCEPT ![g][m] = air[m].pid]
              /\ heard' = [heard EXCEPT ![g][m] = air[m].n]
            BY <2>2 DEF Hear, HearNew, HearKnown, Note
        <3>2. CASE x = g /\ y = m
            BY <3>1, <3>2 DEF IInv, TypeOK
        <3>3. CASE ~(x = g /\ y = m)
            BY <3>1, <3>3 DEF IInv, TypeOK
        <3> QED BY <3>2, <3>3
    <2>3. ASSUME NEW g \in Gateways, GatewayReboot(g)
          PROVE  dedup'[x][y] = dedup[x][y] /\ heard'[x][y] = heard[x][y]
        BY <2>3 DEF GatewayReboot, IInv, TypeOK
    <2>4. ASSUME UNCHANGED <<dedup, heard>>
          PROVE  dedup'[x][y] = dedup[x][y] /\ heard'[x][y] = heard[x][y]
        BY <2>4
    <2>5. \/ dedup'[x][y] = dedup[x][y] /\ heard'[x][y] = heard[x][y]
          \/ dedup'[x][y] = air[y].pid /\ heard'[x][y] = air[y].n
        BY <1>3, <2>2, <2>3, <2>4
           DEF Next, GatewayStep, HearNoSlot, Connect, Disconnect, Lose, Deliver, Tick,
               Bursts, vars, gwVars
    <2>6. air[y].pid <= bthome_pid[y]
        BY PidTypes DEF PidInv, IInv
    <2> QED BY <1>1, <2>1, <2>5, <2>6
<1> QED BY <1>2, <1>3

LEMMA LogStored ==
    ASSUME NEW f
    PROVE  Stored(f) <=> In(log, f)
BY DEF Stored, In

LEMMA OwedStep ==
    ASSUME IInv, OwedInv, [Next]_vars
    PROVE  OwedInv'
<1> USE DEF IInv
<1>1. ASSUME NEW g \in Gateways, NEW m \in Motes, Hear(g, m) PROVE OwedInv'
    <2>1. log' = log /\ seen' = seen
        BY <1>1 DEF Hear, HearNew, HearKnown
    <2>2. ASSUME NEW f \in owed' PROVE f.moving /\ ~In(log, f)
        <3>1. f \in owed \/ (f = air[m] /\ air[m].moving /\ ~Stored(air[m]))
            BY <1>1, <2>2 DEF Hear, Note
        <3> QED BY <3>1, LogStored DEF OwedInv
    <2> QED BY <2>1, <2>2 DEF OwedInv
<1>2. ASSUME NEW g \in Gateways, Deliver(g), Store(Head(net[g]).frame) PROVE OwedInv'
    <2> DEFINE h == Head(net[g]).frame
    <2>1. h \in Frames /\ Key(h) \in Keys
        BY <1>2, HeadKnown, PidTypes DEF Deliver
    <2>2. Store(h) /\ owed' = owed \ {h}
        BY <1>2 DEF Store
    <2> HIDE DEF h
    <2>3. log' = Append(log, h) /\ log \in Seq(Frames)
        BY <2>1, <2>2, StoreEffect
    <2>4. \A f : In(log', f) <=> In(log, f) \/ f = h
        BY <2>1, <2>3, InAppend
    <2>5. \A f \in owed' : f.moving /\ ~In(log', f)
        BY <2>2, <2>4 DEF OwedInv
    <2>6. ASSUME NEW k \in Keys, seen'[k] # Never
          PROVE  \E f \in Frames : In(log', f) /\ Key(f) = k
        <3>1. CASE k = Key(h)
            BY <2>1, <2>4, <3>1
        <3>2. CASE k # Key(h)
            <4> DEFINE s == IF k = Key(h) THEN now ELSE seen[k]
            <4>1. seen'[k] = s \/ (now - s >= Ttl /\ seen'[k] = Never)
                BY <2>1, <2>2, StoreEffect, Zenon
            <4>2. seen[k] # Never
                BY <2>6, <3>2, <4>1, Zenon
            <4>3. PICK f \in Frames : In(log, f) /\ Key(f) = k
                BY <4>2 DEF OwedInv
            <4> QED BY <2>4, <4>3
        <3> QED BY <3>1, <3>2
    <2>7. (\A k \in Keys : seen[k] # Never => \E f \in Frames : In(log, f) /\ Key(f) = k)'
        BY <2>6, Zenon DEF Key, Keys, Never, Pids, Frames
    <2> QED BY <2>5, <2>7 DEF OwedInv
<1>3. ASSUME log' = log, seen' = seen, owed' \subseteq owed PROVE OwedInv'
    BY <1>3 DEF OwedInv
<1>4. ASSUME NEW g \in Gateways, Deliver(g), ~Store(Head(net[g]).frame)
      PROVE  log' = log /\ seen' = seen /\ owed' \subseteq owed
    BY <1>4 DEF Deliver, AddEvent, DropDuplicate
<1>5. ASSUME NEW m \in Motes, Motion(m) \/ MoteReboot(m)
      PROVE  log' = log /\ seen' = seen /\ owed' \subseteq owed
    BY <1>5 DEF Motion, MoteReboot, Burst, gwVars
<1>6. ASSUME NEW g \in Gateways, Connect(g) \/ Drop(g) \/ Lose(g)
      PROVE  log' = log /\ seen' = seen /\ owed' \subseteq owed
    BY <1>6 DEF Connect, Drop, Lose, gwVars
<1>7. ASSUME Tick \/ UNCHANGED vars
      PROVE  log' = log /\ seen' = seen /\ owed' \subseteq owed
    BY <1>7 DEF Tick, vars, gwVars
<1> QED BY <1>1, <1>2, <1>3, <1>4, <1>5, <1>6, <1>7
        DEF Next, GatewayStep, HearNoSlot, Disconnect, GatewayReboot

\* In a fresh slot or in one that holds an earlier burst, the packet id on the
\* air is new.
LEMMA FreshIsNew ==
    ASSUME IInv, NoRecurrence, PidInv, SlotInv,
           NEW g \in Gateways, NEW m \in Motes, heard[g][m] # air[m].n
    PROVE  LastPid(g, m) # air[m].pid
<1>1. CASE m \in Used(g)
    BY <1>1 DEF Used, LastPid, SlotInv
<1>2. CASE m \notin Used(g)
    <2>1. /\ air[m].pid <= count + 1 /\ count <= MaxEvents /\ air[m].pid \in Nat
          /\ count \in Nat /\ MaxEvents \in Nat /\ PidMod \in Nat
        BY PidTypes DEF PidInv, IInv
    <2>2. LastPid(g, m) = PidMod - 1
        BY <1>2 DEF LastPid, Fresh
    <2> QED BY <2>1, <2>2 DEF NoRecurrence
<1> QED BY <1>1, <1>2

\* Nothing owed is a duplicate.
LEMMA OwedIsNoDuplicate ==
    ASSUME IInv, PidInv, OwedInv, NEW f \in owed, Known(f)
    PROVE  ~Duplicate(f)
<1> SUFFICES ASSUME Duplicate(f) PROVE FALSE
    OBVIOUS
<1>1. f \in Frames /\ Key(f) \in Keys /\ seen[Key(f)] \in Int /\ now \in Nat
    BY PidTypes DEF IInv, TypeOK
<1>2. seen[Key(f)] # Never
    BY <1>1, WindowAssumption DEF Duplicate, Never
<1>3. PICK h \in Frames : In(log, h) /\ Key(h) = Key(f)
    BY <1>1, <1>2 DEF OwedInv
<1>4. Known(h) /\ h.mote = f.mote /\ h.pid = f.pid
    BY <1>3 DEF Known, Key
<1>5. h.n = f.n
    BY <1>1, <1>4 DEF PidInv
<1>6. f.moving /\ ~In(log, f)
    BY DEF OwedInv
<1>7. f.n > 0
    BY <1>1, <1>6 DEF IInv, KnownInv
<1>8. h = f
    BY <1>1, <1>4, <1>5, <1>7 DEF IInv, KnownInv
<1> QED BY <1>3, <1>6, <1>8

Flying(f) == \E g \in Gateways : \E msg \in Messages : In(net[g], msg) /\ msg.frame = f

LEMMA FlyingIsInFlight ==
    ASSUME TypeOK, NEW f
    PROVE  InFlight(f) <=> Flying(f)
<1>1. \A g \in Gateways : net[g] \in Seq(Messages)
    BY DEF TypeOK
<1>2. \A g \in Gateways : \A i \in DOMAIN net[g] : net[g][i] \in Messages
    BY <1>1
<1> QED BY <1>2 DEF InFlight, Flying, In

\* A queue keeps what is not cut off.
LEMMA DropKeeps ==
    ASSUME TypeOK, NEW g \in Gateways, Drop(g), NEW f \in owed', Flying(f)
    PROVE  Flying(f)'
<1>1. PICK k \in 0 .. Len(net[g]) :
        /\ net' = [net EXCEPT ![g] = SubSeq(@, 1, k)]
        /\ owed' = owed \ FramesIn(SubSeq(net[g], k + 1, Len(net[g])))
    BY DEF Drop
<1> DEFINE cut == SubSeq(net[g], k + 1, Len(net[g]))
           rest == SubSeq(net[g], 1, k)
<1>2. net[g] \in Seq(Messages)
    BY DEF TypeOK
<1>3. \A msg : In(net[g], msg) => In(rest, msg) \/ In(cut, msg)
    BY <1>2, InPrefix
<1>4. \A x \in Gateways : net'[x] = net[x] \/ (x = g /\ net'[x] = rest)
    BY <1>1 DEF TypeOK
<1>5. \A msg : In(cut, msg) => msg.frame # f
    BY <1>1 DEF FramesIn, In
<1> HIDE DEF cut, rest
<1>6. PICK x \in Gateways, msg \in Messages : In(net[x], msg) /\ msg.frame = f
    BY DEF Flying
<1>7. In(net'[x], msg)
    BY <1>3, <1>4, <1>5, <1>6
<1> QED BY <1>6, <1>7 DEF Flying, Messages, Frames, Pids

LEMMA PublishKeeps ==
    ASSUME TypeOK, NEW g \in Gateways, NEW m \in Motes, Publish(g, air[m])
    PROVE  /\ \A x \in Gateways : \A msg : In(net[x], msg) => In(net'[x], msg)
           /\ connected[g] => In(net'[g], [frame |-> air[m], sent |-> now])
<1> DEFINE new == [frame |-> air[m], sent |-> now]
<1>1. new \in Messages /\ net[g] \in Seq(Messages)
    BY DEF TypeOK, Messages
<1> HIDE DEF new
<1>2. net' = IF connected[g] THEN [net EXCEPT ![g] = Append(@, new)] ELSE net
    BY DEF Publish, new
<1>3. \A msg : In(Append(net[g], new), msg) <=> In(net[g], msg) \/ msg = new
    BY <1>1, InAppend
<1>4. \A x \in Gateways : net'[x] = net[x] \/ (x = g /\ net'[x] = Append(net[g], new))
    BY <1>2 DEF TypeOK
<1>5. connected[g] => net'[g] = Append(net[g], new)
    BY <1>2 DEF TypeOK
<1> QED BY <1>3, <1>4, <1>5, Zenon DEF new

LEMMA FreshStep ==
    ASSUME IInv, NoRecurrence, PidInv, SlotInv, OwedInv, FreshIsStored, [Next]_vars
    PROVE  FreshIsStored'
<1>1. TypeOK /\ TypeOK'
    BY TypeStep DEF IInv
<1>2. (\A f \in owed' : Flying(f)') => FreshIsStored'
    <2>1. \A f : Flying(f)' => InFlight(f)'
        BY DEF Flying, InFlight, In
    <2> QED BY <2>1 DEF FreshIsStored
<1>3. \A f \in owed : Flying(f)
    BY <1>1, FlyingIsInFlight DEF FreshIsStored
<1> SUFFICES ASSUME NEW f \in owed' PROVE Flying(f)'
    BY <1>2
<1>4. ASSUME NEW g \in Gateways, NEW m \in Motes, Hear(g, m) PROVE Flying(f)'
    <2>1. net' = net \/ Publish(g, air[m])
        BY <1>4 DEF Hear, HearNew, HearKnown, netVars
    <2>2. CASE f \in owed
        BY <1>1, <1>3, <2>1, <2>2, PublishKeeps DEF Flying
    <2>3. CASE f \notin owed
        <3>1. f = air[m] /\ connected[g] /\ heard[g][m] # air[m].n
            BY <1>4, <2>3 DEF Hear, Note
        <3>2. LastPid(g, m) # air[m].pid
            BY <3>1, FreshIsNew
        <3>3. Publish(g, air[m])
            BY <1>4, <3>2 DEF Hear, HearNew, HearKnown
        <3>4. In(net'[g], [frame |-> air[m], sent |-> now])
            BY <1>1, <3>1, <3>3, PublishKeeps
        <3>5. /\ [frame |-> air[m], sent |-> now] \in Messages
              /\ [frame |-> air[m], sent |-> now].frame = f
            BY <1>1, <3>1 DEF TypeOK, Messages
        <3> QED BY <3>4, <3>5, Zenon DEF Flying
    <2> QED BY <2>2, <2>3
<1>5. ASSUME NEW g \in Gateways, Drop(g) PROVE Flying(f)'
    <2>1. f \in owed
        BY <1>5 DEF Drop
    <2> QED BY <1>1, <1>3, <1>5, <2>1, DropKeeps
<1>6. ASSUME NEW g \in Gateways, Lose(g) \/ Deliver(g), Head(net[g]).frame # f
      PROVE  Flying(f)'
    <2>1. net[g] # <<>> /\ net' = [net EXCEPT ![g] = Tail(@)] /\ owed' \subseteq owed
        BY <1>1, <1>6, HeadKnown, AddLog DEF Lose, Deliver
    <2>2. PICK x \in Gateways, msg \in Messages : In(net[x], msg) /\ msg.frame = f
        BY <1>3, <2>1 DEF Flying
    <2>3. msg # Head(net[g])
        BY <1>6, <2>2
    <2>4. In(net'[x], msg)
        BY <1>1, <2>1, <2>2, <2>3, PopNet
    <2> QED BY <2>2, <2>4 DEF Flying
<1>7. ASSUME NEW g \in Gateways, Lose(g) \/ Deliver(g)
      PROVE  Head(net[g]).frame # f
    <2> SUFFICES ASSUME Head(net[g]).frame = f PROVE FALSE
        OBVIOUS
    <2>1. CASE Lose(g)
        BY <2>1 DEF Lose
    <2>2. CASE Deliver(g)
        <3>1. AddEvent(f) /\ Known(f) /\ f \in Frames
            BY <1>1, <2>2, HeadKnown DEF Deliver
        <3>2. f \in owed
            BY <1>1, <3>1, AddLog
        <3>3. ~Duplicate(f) /\ f.moving
            BY <3>1, <3>2, OwedIsNoDuplicate DEF OwedInv
        <3>4. Store(f)
            BY <3>1, <3>3 DEF AddEvent, DropDuplicate
        <3> QED BY <3>4 DEF Store
    <2> QED BY <1>7, <2>1, <2>2
<1>8. ASSUME net' = net, owed' = owed PROVE Flying(f)'
    BY <1>3, <1>8 DEF Flying
<1> QED BY <1>4, <1>5, <1>6, <1>7, <1>8
        DEF Next, GatewayStep, HearNoSlot, Connect, Disconnect, GatewayReboot, Tick,
            Motion, MoteReboot, Burst, vars, gwVars, netVars

LEMMA FreshInductive == IInv /\ FreshInv /\ [Next]_vars => FreshInv'
BY PidStep, SlotStep, OwedStep, FreshStep DEF FreshInv, NoRecurrence

LEMMA FreshInitial == Init => FreshInv
<1> SUFFICES ASSUME Init, NoRecurrence
             PROVE  PidInv /\ SlotInv /\ OwedInv /\ FreshIsStored
    BY DEF FreshInv
<1>1. 1 % PidMod = 1
    BY PathAssumption DEF NoRecurrence
<1>2. \A f \in Frames : Known(f) => \E m \in Motes : f = air[m]
    BY DEF Init, Known, In
<1>3. \A m \in Motes : bthome_pid[m] = 1 /\ air[m].pid = 1 /\ air[m].mote = m /\ air[m].n = 0
    BY <1>1 DEF Init
<1>4. PidInv
    BY <1>2, <1>3, PathAssumption DEF Init, PidInv
<1> QED BY <1>4 DEF Init, SlotInv, OwedInv, FreshIsStored

-----------------------------------------------------------------------------
(* EventPath implements the safety part of Delivery.                        *)

LEMMA PaceStep ==
    ASSUME IInv, PaceInv, [Next]_vars
    PROVE  PaceInv'
<1>1. CASE Bursts
    <2>1. count' <= MaxEvents
        BY <1>1, PathAssumption DEF Bursts, Motion, MoteReboot, Burst, IInv, TypeOK
    <2> SUFFICES ASSUME ~MoteReboots
                 PROVE  (/\ \A f \in Frames : Known(f) /\ f.moving => f.born <= lastMotion[f.mote]
                         /\ \A f, h \in Frames :
                              Known(f) /\ Known(h) /\ f.mote = h.mote /\ f.moving /\ f.n < h.n =>
                                  f.born + Gap <= h.born)'
        BY <2>1 DEF PaceInv
    <2>2. PICK m \in Motes, f \in Frames :
            /\ NewFrame(m, f)
            /\ lastMotion' = [lastMotion EXCEPT ![m] = now]
            /\ now - lastMotion[m] >= Gap
        BY <1>1, NextMotion DEF IInv
    <2>3. \A h \in Frames : Known(h)' => Known(h) \/ h = f
        BY <2>2, OneNew DEF IInv
    <2>4. /\ \A x \in Motes : lastMotion'[x] = IF x = m THEN now ELSE lastMotion[x]
          /\ \A x \in Motes : lastMotion[x] \in Int
          /\ now \in Nat /\ count \in Nat /\ Gap \in Nat
          /\ \A h \in Frames : h.n \in Nat /\ h.born \in Nat /\ h.mote \in Motes
        BY <2>2, PathAssumption DEF IInv, TypeOK, Frames
    <2>5. \A h \in Frames : Known(h) => h.n <= count /\ h.born <= now
        BY DEF IInv, KnownInv
    <2>6. f.mote = m /\ f.n = count + 1 /\ f.born = now
        BY <2>2 DEF NewFrame
    <2>7. \A h \in Frames : Known(h) /\ h.moving => h.born <= lastMotion[h.mote]
        BY DEF PaceInv
    <2>8. ASSUME NEW h \in Frames, Known(h)', h.moving
          PROVE  h.born <= lastMotion'[h.mote]
        BY <2>2, <2>3, <2>4, <2>6, <2>7, <2>8
    <2>9. ASSUME NEW h \in Frames, NEW y \in Frames, Known(h)', Known(y)',
                 h.mote = y.mote, h.moving, h.n < y.n
          PROVE  h.born + Gap <= y.born
        <3>1. (Known(h) \/ h = f) /\ (Known(y) \/ y = f)
            BY <2>3, <2>9
        <3>2. h # f
            BY <2>4, <2>5, <2>6, <2>9, <3>1
        <3>3. CASE y = f
            <4>1. h.born <= lastMotion[m]
                BY <2>6, <2>7, <2>9, <3>1, <3>2, <3>3
            <4> QED BY <2>2, <2>4, <2>6, <3>3, <4>1
        <3>4. CASE Known(y)
            BY <2>9, <3>1, <3>2, <3>4 DEF PaceInv
        <3> QED BY <3>1, <3>3, <3>4
    <2> QED BY <2>8, <2>9
<1>2. CASE ~Bursts
    <2>1. \A h \in Frames : Known(h)' => Known(h)
        BY <1>2, NothingNew DEF IInv
    <2>2. count' = count /\ lastMotion' = lastMotion
        BY <1>2, QuietStep DEF moteVars
    <2> QED BY <2>1, <2>2 DEF PaceInv
<1> QED BY <1>1, <1>2

\* What Delivery sees of the events owed and of the log.
Owed == {f.n : f \in owed}
Entry(f) == [mote |-> f.mote, n |-> f.n]
Line(s) == [i \in DOMAIN s |-> Entry(s[i])]

LEMMA LineAppend ==
    ASSUME NEW s \in Seq(Frames), NEW f \in Frames
    PROVE  Line(Append(s, f)) = Append(Line(s), Entry(f))
<1> DEFINE Entries == {Entry(h) : h \in Frames}
           t == Append(s, f)
<1>1. /\ DOMAIN s = 1 .. Len(s) /\ Len(s) \in Nat
      /\ t \in Seq(Frames) /\ DOMAIN t = 1 .. Len(s) + 1
      /\ \A i \in 1 .. Len(s) : t[i] = s[i]
      /\ t[Len(s) + 1] = f
    OBVIOUS
<1>2. \A h \in Frames : Entry(h) \in Entries
    OBVIOUS
<1> HIDE DEF t, Entries
<1>3. /\ Line(s) \in Seq(Entries) /\ Len(Line(s)) = Len(s)
      /\ \A i \in 1 .. Len(s) : Line(s)[i] = Entry(s[i])
    BY <1>1, <1>2 DEF Line
<1>4. /\ Line(t) \in Seq(Entries) /\ Len(Line(t)) = Len(s) + 1
      /\ \A i \in 1 .. Len(s) + 1 : Line(t)[i] = Entry(t[i])
    BY <1>1, <1>2 DEF Line
<1>5. /\ Append(Line(s), Entry(f)) \in Seq(Entries)
      /\ Len(Append(Line(s), Entry(f))) = Len(s) + 1
      /\ \A i \in 1 .. Len(s) : Append(Line(s), Entry(f))[i] = Entry(s[i])
      /\ Append(Line(s), Entry(f))[Len(s) + 1] = Entry(f)
    BY <1>2, <1>3, <1>1
<1>6. \A i \in 1 .. Len(s) + 1 : Line(t)[i] = Append(Line(s), Entry(f))[i]
    BY <1>1, <1>4, <1>5
<1> QED BY <1>4, <1>5, <1>6, SeqEqual DEF t

\* Every copy is delivered before the mote's next motion.
InOrder == ~MoteReboots /\ BurstLen + Latency < Gap

\* What is heard for the first time may be taken on,
LEMMA HearTakesOn ==
    ASSUME IInv, PaceInv, NEW g \in Gateways, NEW m \in Motes, Hear(g, m), owed' # owed
    PROVE  \E e \in 1 .. MaxEvents :
             /\ e <= count /\ Owed' = Owed \cup {e}
             /\ \A i \in DOMAIN log : log[i].n # e
<1> DEFINE f == air[m]
<1>1. owed' = owed \cup {f} /\ f.moving /\ ~In(log, f)
    BY LogStored DEF Hear, Note
<1>2. f \in Frames /\ f.n \in Nat /\ Known(f) /\ count \in Nat /\ MaxEvents \in Nat
    BY PidTypes DEF IInv, Known
<1>3. f.n > 0 /\ f.n <= count /\ count <= MaxEvents
    BY <1>1, <1>2 DEF IInv, KnownInv, PaceInv
<1>4. ASSUME NEW i \in DOMAIN log PROVE log[i].n # f.n
    <2>1. log[i] \in Frames /\ In(log, log[i])
        BY <1>4 DEF IInv, TypeOK, In
    <2>2. Known(log[i])
        BY <2>1 DEF Known
    <2> QED BY <1>1, <1>2, <1>3, <2>1, <2>2 DEF IInv, KnownInv
<1> HIDE DEF f
<1>5. Owed' = Owed \cup {f.n}
    BY <1>1 DEF Owed
<1>6. f.n \in 1 .. MaxEvents
    BY <1>2, <1>3
<1> QED BY <1>3, <1>4, <1>5, <1>6

\* and what is delivered and no duplicate may be stored: it is not stored, nor is
\* a later event of its mote.
LEMMA DeliverStores ==
    ASSUME IInv, PaceInv, InOrder, NEW g \in Gateways, Deliver(g),
           Head(net[g]).frame.moving, Store(Head(net[g]).frame)
    PROVE  \E m \in Motes : \E e \in 1 .. MaxEvents :
             /\ e <= count /\ Owed' = Owed \ {e}
             /\ \A i \in DOMAIN log : log[i].n # e
             /\ \A i \in DOMAIN log : log[i].mote = m => log[i].n < e
             /\ Line(log)' = Append(Line(log), [mote |-> m, n |-> e])
<1> DEFINE msg == Head(net[g])
           f == msg.frame
<1>1. /\ net[g] # <<>> /\ msg \in Messages /\ In(net[g], msg)
      /\ f \in Frames /\ Known(f)
    BY HeadKnown DEF IInv, Deliver
<1>2. f.moving /\ ~Duplicate(f) /\ log' = Append(log, f) /\ owed' = owed \ {f}
    BY DEF Store
<1>3. ~In(log, f)
    BY <1>1, <1>2, SecondCopy
<1>4. msg.sent <= f.born + BurstLen /\ now <= msg.sent + Latency
    BY <1>1 DEF IInv, TimeInv
<1>5. msg.sent \in Int /\ now \in Int
    BY <1>1 DEF IInv, TypeOK, Messages
<1> HIDE DEF msg
<1> DEFINE sent == msg.sent
<1> HIDE DEF sent
<1>6. /\ f.n \in Nat /\ f.born \in Nat /\ f.mote \in Motes
      /\ count \in Nat /\ MaxEvents \in Nat
    BY <1>1, PidTypes DEF IInv
<1>7. now < f.born + Gap
    BY <1>4, <1>5, <1>6, PathAssumption DEF InOrder
<1> HIDE DEF f
<1>8. f.n > 0 /\ f.n <= count /\ count <= MaxEvents
    BY <1>1, <1>2, <1>6 DEF IInv, KnownInv, PaceInv
<1>9. \A h \in Frames : Known(h) /\ h.n = f.n => h = f
    BY <1>1, <1>6, <1>8 DEF IInv, KnownInv
<1>10. ASSUME NEW i \in DOMAIN log
       PROVE  log[i].n # f.n /\ (log[i].mote = f.mote => log[i].n < f.n)
    <2>1. log[i] \in Frames /\ In(log, log[i])
        BY <1>10 DEF IInv, TypeOK, In
    <2> DEFINE h == log[i]
    <2>2. h \in Frames /\ Known(h) /\ h # f
        BY <1>3, <2>1 DEF Known
    <2> HIDE DEF h
    <2>3. h.n # f.n
        BY <1>9, <2>2
    <2>4. h.n \in Nat /\ h.born \in Nat /\ h.born <= now
        BY <2>2, PidTypes DEF IInv, KnownInv
    <2>5. ASSUME h.mote = f.mote, f.n < h.n PROVE FALSE
        <3>1. f.born + Gap <= h.born
            BY <1>1, <1>2, <2>2, <2>5 DEF PaceInv, InOrder
        <3> QED BY <1>5, <1>6, <1>7, <2>4, <3>1, PathAssumption
    <2>6. h.n # f.n /\ (h.mote = f.mote => h.n < f.n)
        BY <1>6, <2>3, <2>4, <2>5
    <2> QED BY <2>6 DEF h
<1>11. Owed' = Owed \ {f.n}
    <2>1. \A h \in owed : h \in Frames /\ Known(h)
        BY DEF IInv, TypeOK, Known
    <2>2. \A h \in owed : h.n = f.n => h = f
        BY <1>9, <2>1
    <2> QED BY <1>2, <2>2 DEF Owed
<1>12. Line(log)' = Append(Line(log), [mote |-> f.mote, n |-> f.n])
    <2>1. log \in Seq(Frames)
        BY DEF IInv, TypeOK
    <2>2. Line(Append(log, f)) = Append(Line(log), Entry(f))
        BY <1>1, <2>1, LineAppend
    <2>3. Line(log)' = Line(Append(log, f))
        BY <1>2, Zenon DEF Line, Entry
    <2> QED BY <2>2, <2>3, Zenon DEF Entry
<1>13. f.n \in 1 .. MaxEvents
    BY <1>6, <1>8
<1> QED BY <1>6, <1>8, <1>10, <1>11, <1>12, <1>13

\* Each step is one of Delivery, or leaves alone what Delivery sees.
LEMMA StepIsDelivery ==
    ASSUME IInv, PaceInv, InOrder, [Next]_vars
    PROVE  Promise!Next \/ UNCHANGED <<count, Owed, Line(log)>>
<1> DEFINE Happen == count' = count + 1 /\ UNCHANGED <<Owed, Line(log)>>
           Stutter == UNCHANGED <<count, Owed, Line(log)>>
<1>1. ASSUME Happen PROVE Promise!Next
    BY <1>1 DEF Promise!Next, Promise!Happen, Owed, Line, Entry
<1>2. ASSUME Owed' \in SUBSET Owed, UNCHANGED <<count, Line(log)>> PROVE Promise!Next
    BY <1>2 DEF Promise!Next, Promise!Lose, Owed, Line, Entry
<1>3. ASSUME NEW e \in 1 .. MaxEvents, e <= count, Owed' = Owed \cup {e},
             \A i \in DOMAIN log : log[i].n # e, UNCHANGED <<count, Line(log)>>
      PROVE  Promise!Next
    <2>1. Promise!TakeOn(e)
        BY <1>3 DEF Promise!TakeOn, Owed, Line, Entry
    <2> QED BY <2>1 DEF Promise!Next, Promise!Events
<1>4. ASSUME NEW m \in Motes, NEW e \in 1 .. MaxEvents, e <= count, Owed' = Owed \ {e},
             \A i \in DOMAIN log : log[i].n # e,
             \A i \in DOMAIN log : log[i].mote = m => log[i].n < e,
             Line(log)' = Append(Line(log), [mote |-> m, n |-> e]), UNCHANGED count
      PROVE  Promise!Next
    <2>1. Promise!Store(m, e)
        BY <1>4 DEF Promise!Store, Owed, Line, Entry
    <2> QED BY <2>1 DEF Promise!Next, Promise!Events
<1>5. CASE Bursts
    <2>1. count' = count + 1 /\ log' = log /\ owed' = owed
        BY <1>5, BurstsFrame DEF NewFrame, gwVars, IInv
    <2> QED BY <1>1, <2>1 DEF Owed, Line
<1>6. ASSUME NEW g \in Gateways, NEW m \in Motes, Hear(g, m) PROVE Promise!Next \/ Stutter
    <2>1. count' = count /\ log' = log
        BY <1>6 DEF Hear, HearNew, HearKnown, moteVars
    <2>2. CASE owed' = owed
        BY <2>1, <2>2 DEF Owed, Line
    <2>3. CASE owed' # owed
        BY <1>3, <1>6, <2>1, <2>3, HearTakesOn DEF Line
    <2> QED BY <2>2, <2>3
<1>7. ASSUME NEW g \in Gateways, Drop(g) \/ Lose(g) PROVE Promise!Next
    <2>1. count' = count /\ log' = log /\ owed' \subseteq owed
        BY <1>7 DEF Drop, Lose, moteVars
    <2> QED BY <1>2, <2>1 DEF Owed, Line
<1>8. ASSUME NEW g \in Gateways, Deliver(g) PROVE Promise!Next \/ Stutter
    <2>1. count' = count
        BY <1>8 DEF Deliver, moteVars
    <2>2. CASE UNCHANGED <<seen, log, owed>>
        BY <2>1, <2>2 DEF Owed, Line
    <2>3. CASE Head(net[g]).frame.moving /\ Store(Head(net[g]).frame)
        <3>1. PICK m \in Motes, e \in 1 .. MaxEvents :
                /\ e <= count /\ Owed' = Owed \ {e}
                /\ \A i \in DOMAIN log : log[i].n # e
                /\ \A i \in DOMAIN log : log[i].mote = m => log[i].n < e
                /\ Line(log)' = Append(Line(log), [mote |-> m, n |-> e])
            BY <1>8, <2>3, DeliverStores
        <3> QED BY <1>4, <2>1, <3>1
    <2> QED BY <1>8, <2>2, <2>3 DEF Deliver, AddEvent, DropDuplicate
<1>9. ASSUME UNCHANGED <<count, log, owed>> PROVE Stutter
    BY <1>9 DEF Owed, Line
<1> QED BY <1>5, <1>6, <1>7, <1>8, <1>9
        DEF Next, GatewayStep, Bursts, HearNoSlot, Connect, Disconnect, GatewayReboot,
            Tick, vars, moteVars, gwVars

LEMMA InitIsDelivery == Init => Promise!Init
<1> SUFFICES ASSUME Init PROVE Promise!Init
    OBVIOUS
<1>1. count = 0 /\ {frame.n : frame \in owed} = {} /\ log = <<>>
    BY DEF Init
<1>2. [i \in DOMAIN log |-> [mote |-> log[i].mote, n |-> log[i].n]] = <<>>
    <2>1. DOMAIN log = 1 .. 0
        BY <1>1
    <2> DEFINE line == [i \in DOMAIN log |-> [mote |-> log[i].mote, n |-> log[i].n]]
    <2>2. line \in Seq({}) /\ Len(line) = 0
        BY <2>1
    <2> HIDE DEF line
    <2>3. line = <<>>
        BY <2>2, EmptySeq
    <2> QED BY <2>3 DEF line
<1> QED BY <1>1, <1>2 DEF Promise!Init

-----------------------------------------------------------------------------
(* The theorems.                                                            *)

\* Every variable keeps its type, whatever the bounds.
THEOREM TypeCorrect == Spec => []TypeOK
<1>1. IInv => TypeOK
    BY DEF IInv
<1> QED BY <1>1, Invariance, PTL

\* add_event in store.py stores an event once: for any number of gateways and
\* motes, although packet ids wrap, motes and gateways restart and _seen is
\* collected, if the copies of a burst reach the backend within DEDUP_TTL_S.
THEOREM StoredOnce == Spec => []EachEventOnce
<1>1. IInv => EachEventOnce
    BY DEF IInv
<1> QED BY <1>1, Invariance, PTL

\* The dedup_table of a gateway and _seen of the backend eat no event that a
\* connected gateway heard, as long as no packet id recurs and none is the mark of
\* a slot just taken: it is stored, on its way, or lost by the network.
THEOREM HeardIsStored == NoRecurrence => (Spec => []FreshIsStored)
<1> SUFFICES ASSUME NoRecurrence PROVE Spec => []FreshIsStored
    OBVIOUS
<1>1. FreshInv => FreshIsStored
    BY DEF FreshInv
<1> QED BY <1>1, Invariance, FreshInitial, FreshInductive, PTL DEF Spec

\* The path implements the safety part of Delivery when the mote's next motion
\* comes after the last copy of this one: it stores nothing twice, nothing behind
\* a later event of its mote and nothing that did not happen, and what a gateway
\* took on it stores or the network loses.
THEOREM PathIsDelivery == InOrder => (Spec => Promise!Safe)
<1> SUFFICES ASSUME InOrder PROVE Spec => Promise!Safe
    OBVIOUS
<1>1. Init => PaceInv
    <2> SUFFICES ASSUME Init PROVE PaceInv
        OBVIOUS
    <2>1. \A f \in Frames : Known(f) => \E m \in Motes : f = air[m]
        BY DEF Init, Known, In
    <2>2. \A m \in Motes : air[m].moving = FALSE
        BY DEF Init
    <2> QED BY <2>1, <2>2, PathAssumption DEF Init, PaceInv
<1>2. IInv /\ PaceInv /\ [Next]_vars => PaceInv'
    BY PaceStep
<1>3. IInv /\ PaceInv /\ [Next]_vars =>
        [Promise!Next]_<<count, {frame.n : frame \in owed},
                         [i \in DOMAIN log |-> [mote |-> log[i].mote, n |-> log[i].n]]>>
    BY StepIsDelivery DEF Owed, Line, Entry
<1> QED BY <1>1, <1>2, <1>3, InitIsDelivery, Invariance, PTL DEF Spec, Promise!Safe
=============================================================================
