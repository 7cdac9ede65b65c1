--------------------------- MODULE BthomeScanProofs ---------------------------
(***************************************************************************)
(* Theorems about BthomeScan, for every set of advertisements and every    *)
(* name of the mote.                                                       *)
(***************************************************************************)
EXTENDS BthomeScan, SequenceTheorems, FiniteSetTheorems, WellFoundedInduction, TLAPS

\* The payload under way ends where the next structure begins.
WalkInv == ad \in Seq(Byte) /\ (parsing => end = pos /\ ~done)

IInv == TypeOK /\ WalkInv /\ ReadsInBounds

\* Where the structure with the payload begins in what a mote sends, and the
\* byte that says whether it moved.
Service == 5 + Len(Name)
Moved(motion) == IF motion THEN 1 ELSE 0

\* The walk over what a mote sends is at a structure, at an object of the payload
\* with the values found before it, or behind the payload, which it has heard.
MoteAt(pid, motion) ==
    \/ ~parsing /\ ~done /\ heard = <<>> /\ pos \in {0, 3, Service}
    \/ /\ parsing /\ ~done /\ heard = <<>> /\ pos = Service + 9
       /\ \/ i = Service + 5
          \/ i = Service + 7 /\ packet_id = pid
          \/ i = Service + 9 /\ packet_id = pid /\ moving = Moved(motion)
    \/ /\ ~parsing /\ pos = Service + 9
       /\ heard = <<[packet_id |-> pid, moving |-> Moved(motion)]>>

MoteInv ==
    \A pid \in Byte, motion \in BOOLEAN :
        ad = MoteAd(pid, motion) => MoteAt(pid, motion)

-----------------------------------------------------------------------------
LEMMA ByteAt ==
  ASSUME ad \in Seq(Byte), NEW o \in Nat, o < Len(ad)
  PROVE  At(o) = ad[o + 1] /\ At(o) \in Byte
<1>1. o + 1 \in 1 .. Len(ad)
  OBVIOUS
<1> QED BY <1>1 DEF At

LEMMA NeedsType == \A o \in DOMAIN Needs : Needs[o] \in {1, 4}
BY DEF Needs

\* A structure that fits has its length and its type in the advertisement.
LEMMA StructureFits ==
  ASSUME IInv, Walking, Fits(At(pos))
  PROVE  /\ pos \in Nat /\ At(pos) \in 1 .. 255 /\ Len(ad) \in Nat
         /\ pos + 1 + At(pos) <= Len(ad)
         /\ \A o \in ReadsOfHeader(At(pos)) : o \in Nat /\ o < pos + 1 + At(pos)
         /\ IsTrigger(At(pos)) => At(pos) > 3
<1>1. pos \in Nat /\ Len(ad) \in Nat /\ pos < Len(ad)
  BY DEF IInv, TypeOK, WalkInv, Walking
<1>2. At(pos) \in Byte
  BY <1>1, ByteAt DEF IInv, WalkInv
<1>3. At(pos) \in 1 .. 255 /\ pos + 1 + At(pos) <= Len(ad)
  BY <1>2 DEF Fits, Byte
<1>4. PICK n \in 1 .. 255 : n = At(pos)
  BY <1>3
<1>5. ASSUME NEW o \in ReadsOfHeader(At(pos))
      PROVE  o \in Nat /\ o < pos + 1 + At(pos)
  <2>1. \/ o \in {pos, pos + 1}
        \/ n >= 3 /\ o \in {pos + 2, pos + 3}
        \/ n > 3 /\ o = pos + 4
    BY <1>4 DEF ReadsOfHeader
  <2>2. o \in Nat /\ o < pos + 1 + n
    BY <2>1, <1>1
  <2> QED BY <2>2, <1>4
<1> QED BY <1>1, <1>3, <1>5 DEF IsTrigger

LEMMA Initially == Init => IInv
<1> SUFFICES ASSUME Init PROVE IInv
  OBVIOUS
<1>1. ad \in Seq(Byte) /\ Len(ad) \in Nat
  BY ScanAssumption DEF Init
<1>2. heard \in Seq([packet_id : Byte, moving : Byte])
  BY DEF Init
<1>3. pos \in 0 .. Len(ad) /\ end \in 0 .. Len(ad) /\ i \in 0 .. end
  BY <1>1 DEF Init
<1>4. TypeOK
  BY <1>2, <1>3 DEF Init, TypeOK
<1> QED BY <1>1, <1>4 DEF Init, IInv, WalkInv, ReadsInBounds

LEMMA SkipKeeps ==
  ASSUME IInv, Skip
  PROVE  IInv'
<1>1. /\ pos' = pos + 1 + At(pos) /\ reads' = ReadsOfHeader(At(pos))
      /\ UNCHANGED <<ad, parserVars, heard, done>>
      /\ Walking /\ Fits(At(pos))
  BY DEF Skip
<1>2. pos' \in 0 .. Len(ad)
  <2>1. PICK n \in 1 .. 255 : n = At(pos) /\ pos + 1 + n <= Len(ad)
    BY <1>1, StructureFits, Zenon
  <2>2. /\ pos' = pos + 1 + n /\ pos \in Nat /\ Len(ad) \in Nat
        /\ pos + 1 + n <= Len(ad)
    BY <1>1, <2>1, StructureFits
  <2> QED BY <2>2
<1>3. ReadsInBounds'
  <2> SUFFICES ASSUME NEW o \in reads' PROVE o < Len(ad)' /\ o < pos'
    BY DEF ReadsInBounds
  <2>1. o \in Nat /\ o < pos' /\ pos' \in Nat /\ pos' <= Len(ad) /\ Len(ad) \in Nat
    BY <1>1, <1>2, StructureFits
  <2> QED BY <1>1, <2>1
<1>4. TypeOK' /\ WalkInv'
  BY <1>1, <1>2 DEF IInv, TypeOK, WalkInv, parserVars, Walking
<1> QED BY <1>3, <1>4 DEF IInv

LEMMA EnterKeeps ==
  ASSUME IInv, Enter
  PROVE  IInv'
<1>1. /\ pos' = pos + 1 + At(pos) /\ reads' = ReadsOfHeader(At(pos))
      /\ i' = pos + 5 /\ end' = pos' /\ packet_id' = None /\ moving' = None
      /\ parsing' = TRUE
      /\ UNCHANGED <<ad, heard, done>>
      /\ Walking /\ Fits(At(pos)) /\ IsTrigger(At(pos))
  BY DEF Enter
<1>2. pos' \in 0 .. Len(ad) /\ end' \in 0 .. Len(ad) /\ i' \in 0 .. end'
  <2>1. PICK n \in 1 .. 255 : n = At(pos) /\ pos + 1 + n <= Len(ad) /\ n > 3
    BY <1>1, StructureFits, Zenon
  <2>2. /\ pos' = pos + 1 + n /\ pos \in Nat /\ Len(ad) \in Nat
        /\ pos + 1 + n <= Len(ad) /\ n > 3 /\ i' = pos + 5 /\ end' = pos'
    BY <1>1, <2>1, StructureFits, Zenon
  <2> QED BY <2>2
<1>3. ReadsInBounds'
  <2> SUFFICES ASSUME NEW o \in reads' PROVE o < Len(ad)' /\ o < pos'
    BY DEF ReadsInBounds
  <2>1. o \in Nat /\ o < pos' /\ pos' \in Nat /\ pos' <= Len(ad) /\ Len(ad) \in Nat
    BY <1>1, <1>2, StructureFits
  <2> QED BY <1>1, <2>1
<1>4. TypeOK' /\ WalkInv'
  BY <1>1, <1>2 DEF IInv, TypeOK, WalkInv, Walking
<1> QED BY <1>3, <1>4 DEF IInv

LEMMA FinishKeeps ==
  ASSUME IInv, Finish
  PROVE  IInv'
<1>1. /\ done' = TRUE /\ ~parsing /\ reads' = IF pos < Len(ad) THEN {pos} ELSE {}
      /\ UNCHANGED <<ad, pos, parserVars, heard>>
  BY DEF Finish
<1> QED BY <1>1 DEF IInv, TypeOK, WalkInv, ReadsInBounds, parserVars

\* An object that is whole has its values within the payload.
LEMMA ObjectFits ==
  ASSUME IInv, parsing, i < end
  PROVE  /\ i \in Nat /\ end = pos /\ pos \in Nat /\ Len(ad) \in Nat
         /\ pos <= Len(ad) /\ At(i) \in Byte
         /\ Whole => /\ Needs[At(i)] \in {1, 4} /\ i + 1 + Needs[At(i)] <= end
                     /\ At(i + 1) \in Byte
<1>1. end = pos /\ pos \in Nat /\ Len(ad) \in Nat /\ pos <= Len(ad)
  BY DEF IInv, TypeOK, WalkInv
<1>2. i \in Nat /\ i < Len(ad) /\ i < end
  BY <1>1 DEF IInv, TypeOK
<1>3. At(i) \in Byte
  BY <1>2, ByteAt DEF IInv, WalkInv
<1>4. ASSUME Whole
      PROVE  /\ Needs[At(i)] \in {1, 4} /\ i + 1 + Needs[At(i)] <= end
             /\ At(i + 1) \in Byte
  <2>1. Needs[At(i)] \in {1, 4} /\ i + 1 + Needs[At(i)] <= end
    BY <1>4, NeedsType DEF Whole
  <2>2. i + 1 \in Nat /\ i + 1 < Len(ad)
    BY <1>1, <1>2, <2>1
  <2> QED BY <2>1, <2>2, ByteAt DEF IInv, WalkInv
<1> QED BY <1>1, <1>2, <1>3, <1>4

LEMMA ObjectKeeps ==
  ASSUME IInv, Object
  PROVE  IInv'
<1>1. /\ parsing /\ i < end /\ Whole
      /\ packet_id' \in {At(i + 1), packet_id} /\ moving' \in {At(i + 1), moving}
      /\ reads' \subseteq {i, i + 1}
      /\ i' = i + 1 + Needs[At(i)]
      /\ UNCHANGED <<ad, pos, parsing, end, heard, done>>
  BY DEF Object
<1>2. i' \in Nat /\ i' <= end /\ i + 1 < end
  BY <1>1, ObjectFits
<1>3. TypeOK'
  BY <1>1, <1>2, ObjectFits DEF IInv, TypeOK
<1>4. WalkInv'
  BY <1>1 DEF IInv, WalkInv
<1>5. ReadsInBounds'
  BY <1>1, <1>2, ObjectFits DEF ReadsInBounds
<1> QED BY <1>3, <1>4, <1>5 DEF IInv

LEMMA ParseErrorKeeps ==
  ASSUME IInv, ParseError
  PROVE  IInv'
<1>1. /\ parsing /\ i < end /\ parsing' = FALSE /\ reads' = {i}
      /\ UNCHANGED <<ad, pos, i, end, packet_id, moving, heard, done>>
  BY DEF ParseError
<1>2. TypeOK' /\ WalkInv'
  BY <1>1 DEF IInv, TypeOK, WalkInv
<1>3. ReadsInBounds'
  BY <1>1, ObjectFits DEF ReadsInBounds
<1> QED BY <1>2, <1>3 DEF IInv

LEMMA ParsedKeeps ==
  ASSUME IInv, Parsed
  PROVE  IInv'
<1>1. /\ parsing' = FALSE /\ reads' = {}
      /\ heard' = IF packet_id # None /\ moving # None
                  THEN Append(heard, [packet_id |-> packet_id, moving |-> moving])
                  ELSE heard
      /\ UNCHANGED <<ad, pos, i, end, packet_id, moving, done>>
  BY DEF Parsed
<1>2. heard' \in Seq([packet_id : Byte, moving : Byte])
  <2>1. CASE packet_id # None /\ moving # None
    <3>1. [packet_id |-> packet_id, moving |-> moving] \in [packet_id : Byte, moving : Byte]
      BY <2>1 DEF IInv, TypeOK
    <3> QED BY <3>1, <1>1, <2>1 DEF IInv, TypeOK
  <2>2. CASE ~(packet_id # None /\ moving # None)
    BY <2>2, <1>1 DEF IInv, TypeOK
  <2> QED BY <2>1, <2>2
<1>3. TypeOK' /\ WalkInv' /\ ReadsInBounds'
  BY <1>1, <1>2 DEF IInv, TypeOK, WalkInv, ReadsInBounds
<1> QED BY <1>3 DEF IInv

LEMMA Inductive == IInv /\ [Next]_vars => IInv'
<1> SUFFICES ASSUME IInv, [Next]_vars PROVE IInv'
  OBVIOUS
<1>1. CASE UNCHANGED vars
  BY <1>1 DEF vars, parserVars, IInv, TypeOK, WalkInv, ReadsInBounds
<1> QED BY <1>1, SkipKeeps, EnterKeeps, FinishKeeps, ObjectKeeps, ParseErrorKeeps,
           ParsedKeeps DEF Next

\* The invariant holds on every advertisement.
THEOREM Invariance == Spec => []IInv
BY Initially, Inductive, PTL DEF Spec

\* The offsets and values of the walk keep their types: no payload reaches beyond
\* the advertisement and no value found is anything but a byte (ble_scanner.c).
THEOREM TypeCorrect == Spec => []TypeOK
<1>1. IInv => TypeOK
  BY DEF IInv
<1> QED BY <1>1, Invariance, PTL

\* gap_event_cb and parse_bthome read only bytes of the structure they have
\* taken, and none behind the advertisement, whatever bytes it has.
THEOREM NoReadOutOfBounds == Spec => []ReadsInBounds
<1>1. IInv => ReadsInBounds
  BY DEF IInv
<1> QED BY <1>1, Invariance, PTL

-----------------------------------------------------------------------------
(* What a mote sends.                                                       *)

LEMMA Concat ==
  ASSUME NEW s \in Seq(Nat), NEW u \in Seq(Nat)
  PROVE  /\ s \o u \in Seq(Nat) /\ Len(s) \in Nat /\ Len(u) \in Nat
         /\ Len(s \o u) = Len(s) + Len(u)
         /\ \A k \in 1 .. Len(s) : (s \o u)[k] = s[k]
         /\ \A k \in 1 .. Len(u) : (s \o u)[Len(s) + k] = u[k]
<1>1. Len(s) \in Nat /\ Len(u) \in Nat
  OBVIOUS
<1>2. /\ s \o u \in Seq(Nat) /\ Len(s \o u) = Len(s) + Len(u)
      /\ \A k \in 1 .. Len(s) + Len(u) :
           (s \o u)[k] = IF k <= Len(s) THEN s[k] ELSE u[k - Len(s)]
  BY ConcatProperties, Zenon
<1>3. ASSUME NEW k \in 1 .. Len(s) PROVE (s \o u)[k] = s[k]
  BY <1>1, <1>2
<1>4. ASSUME NEW k \in 1 .. Len(u) PROVE (s \o u)[Len(s) + k] = u[k]
  <2>1. Len(s) + k \in 1 .. Len(s) + Len(u) /\ ~(Len(s) + k <= Len(s))
        /\ Len(s) + k - Len(s) = k
    BY <1>1
  <2> QED BY <1>2, <2>1
<1> QED BY <1>1, <1>2, <1>3, <1>4

LEMMA StructureBytes ==
  ASSUME NEW type \in Nat, NEW data \in Seq(Nat)
  PROVE  /\ Structure(type, data) \in Seq(Nat)
         /\ Len(data) \in Nat /\ Len(Structure(type, data)) = Len(data) + 2
         /\ Structure(type, data)[1] = Len(data) + 1
         /\ Structure(type, data)[2] = type
         /\ \A k \in 1 .. Len(data) : Structure(type, data)[2 + k] = data[k]
<1> DEFINE h == <<Len(data) + 1, type>>
<1>1. Len(data) \in Nat
  OBVIOUS
<1>2. h \in Seq(Nat) /\ Len(h) = 2 /\ h[1] = Len(data) + 1 /\ h[2] = type
  BY <1>1
<1> HIDE DEF h
<1>3. /\ h \o data \in Seq(Nat) /\ Len(h \o data) = 2 + Len(data)
      /\ (h \o data)[1] = h[1] /\ (h \o data)[2] = h[2]
      /\ \A k \in 1 .. Len(data) : (h \o data)[2 + k] = data[k]
  <2>1. /\ h \o data \in Seq(Nat) /\ Len(h \o data) = Len(h) + Len(data)
        /\ \A k \in 1 .. Len(h) : (h \o data)[k] = h[k]
        /\ \A k \in 1 .. Len(data) : (h \o data)[Len(h) + k] = data[k]
    BY <1>2, Concat, Zenon
  <2> QED BY <1>2, <2>1
<1>4. Structure(type, data) = h \o data
  BY DEF Structure, h
<1> QED BY <1>1, <1>2, <1>3, <1>4

LEMMA PayloadBytes ==
  ASSUME NEW pid \in Byte, NEW motion \in BOOLEAN, NEW p,
         p = Payload(pid, motion)
  PROVE  /\ p \in Seq(Nat) /\ Len(p) = 7 /\ p[1] = 210 /\ p[2] = 252 /\ p[3] = Trigger
         /\ p[4] = PacketId /\ p[5] = pid /\ p[6] = Moving /\ p[7] = Moved(motion)
<1> DEFINE h == <<Trigger, PacketId, pid, Moving, Moved(motion)>>
<1>1. /\ Uuid \in Seq(Nat) /\ Len(Uuid) = 2 /\ Uuid[1] = 210 /\ Uuid[2] = 252
  BY DEF Uuid
<1>2. pid \in Nat /\ Moved(motion) \in Nat
  BY DEF Byte, Moved
<1>3. /\ h \in Seq(Nat) /\ Len(h) = 5 /\ h[1] = Trigger /\ h[2] = PacketId
      /\ h[3] = pid /\ h[4] = Moving /\ h[5] = Moved(motion)
  BY <1>2 DEF Trigger, PacketId, Moving
<1>4. p = Uuid \o h
  BY DEF Payload, Moved
<1> HIDE DEF h
<1>5. /\ p \in Seq(Nat) /\ Len(p) = 7 /\ p[1] = 210 /\ p[2] = 252
      /\ \A k \in 1 .. 5 : p[2 + k] = h[k]
  <2> DEFINE u == Uuid
  <2>1. u \in Seq(Nat) /\ h \in Seq(Nat)
    BY <1>1, <1>3
  <2>2. Len(u) = 2 /\ u[1] = 210 /\ u[2] = 252 /\ Len(h) = 5
    BY <1>1, <1>3
  <2> HIDE DEF u
  <2>3. /\ u \o h \in Seq(Nat) /\ Len(u \o h) = Len(u) + Len(h)
        /\ \A k \in 1 .. Len(u) : (u \o h)[k] = u[k]
        /\ \A k \in 1 .. Len(h) : (u \o h)[Len(u) + k] = h[k]
    BY <2>1, Concat, Zenon
  <2>4. p = u \o h
    BY <1>4 DEF u
  <2>5. /\ p \in Seq(Nat) /\ Len(p) = Len(u) + Len(h)
        /\ \A k \in 1 .. Len(u) : p[k] = u[k]
        /\ \A k \in 1 .. Len(h) : p[Len(u) + k] = h[k]
    BY <2>3, <2>4, Zenon
  <2> QED BY <2>2, <2>5
<1>6. /\ p[2 + 1] = h[1] /\ p[2 + 2] = h[2] /\ p[2 + 3] = h[3] /\ p[2 + 4] = h[4]
      /\ p[2 + 5] = h[5]
  BY <1>5
<1> QED BY <1>3, <1>5, <1>6

\* The bytes that the scanner looks at.
LEMMA MoteBytes ==
  ASSUME NEW pid \in Byte, NEW motion \in BOOLEAN, ad = MoteAd(pid, motion)
  PROVE  /\ Service \in Nat /\ Len(Name) \in Nat /\ Len(ad) = Service + 9
         /\ At(0) = 2 /\ At(1) = 1
         /\ At(3) = Len(Name) + 1 /\ At(4) = 9
         /\ At(Service) = 8 /\ At(Service + 1) = ServiceData
         /\ At(Service + 2) = 210 /\ At(Service + 3) = 252
         /\ At(Service + 4) = Trigger
         /\ At(Service + 5) = PacketId /\ At(Service + 6) = pid
         /\ At(Service + 7) = Moving /\ At(Service + 8) = Moved(motion)
<1> DEFINE a == Structure(1, <<6>>)
           b == Structure(9, Name)
           p == Payload(pid, motion)
           c == Structure(ServiceData, p)
<1>1. Name \in Seq(Nat) /\ <<6>> \in Seq(Nat) /\ Len(<<6>>) = 1 /\ ServiceData \in Nat
  <2>1. Byte \subseteq Nat
    BY DEF Byte
  <2>2. Name \in Seq(Nat)
    BY <2>1, ScanAssumption, SeqMonotonic, Zenon
  <2> QED BY <2>2 DEF ServiceData
<1>2. /\ a \in Seq(Nat) /\ Len(a) = 3 /\ a[1] = 2 /\ a[2] = 1
      /\ b \in Seq(Nat) /\ Len(Name) \in Nat /\ Len(b) = Len(Name) + 2
      /\ b[1] = Len(Name) + 1 /\ b[2] = 9
  <2>1. 1 \in Nat /\ 9 \in Nat
    OBVIOUS
  <2>2. /\ a \in Seq(Nat) /\ Len(a) = Len(<<6>>) + 2 /\ a[1] = Len(<<6>>) + 1 /\ a[2] = 1
    BY <1>1, <2>1, StructureBytes, Zenon
  <2>3. /\ b \in Seq(Nat) /\ Len(Name) \in Nat /\ Len(b) = Len(Name) + 2
        /\ b[1] = Len(Name) + 1 /\ b[2] = 9
    BY <1>1, <2>1, StructureBytes, Zenon
  <2> HIDE DEF a, b
  <2> QED BY <1>1, <2>2, <2>3
<1>3. /\ p \in Seq(Nat) /\ Len(p) = 7 /\ p[1] = 210 /\ p[2] = 252 /\ p[3] = Trigger
      /\ p[4] = PacketId /\ p[5] = pid /\ p[6] = Moving /\ p[7] = Moved(motion)
  <2>1. \A q : q = Payload(pid, motion) =>
          /\ q \in Seq(Nat) /\ Len(q) = 7 /\ q[1] = 210 /\ q[2] = 252
          /\ q[3] = Trigger /\ q[4] = PacketId /\ q[5] = pid /\ q[6] = Moving
          /\ q[7] = Moved(motion)
    BY PayloadBytes
  <2> QED BY <2>1
<1> HIDE DEF a, b, p
<1>4. /\ c \in Seq(Nat) /\ Len(c) = 9 /\ c[1] = 8 /\ c[2] = ServiceData
      /\ c[3] = p[1] /\ c[4] = p[2] /\ c[5] = p[3] /\ c[6] = p[4] /\ c[7] = p[5]
      /\ c[8] = p[6] /\ c[9] = p[7]
  <2>1. /\ c \in Seq(Nat) /\ Len(c) = Len(p) + 2 /\ c[1] = Len(p) + 1
        /\ c[2] = ServiceData /\ \A k \in 1 .. Len(p) : c[2 + k] = p[k]
    <3>1. c = Structure(ServiceData, p) /\ p \in Seq(Nat) /\ ServiceData \in Nat
      BY <1>1, <1>3
    <3> HIDE DEF c
    <3> QED BY <3>1, StructureBytes, Zenon
  <2> HIDE DEF c
  <2>2. /\ c[2 + 1] = p[1] /\ c[2 + 2] = p[2] /\ c[2 + 3] = p[3] /\ c[2 + 4] = p[4]
        /\ c[2 + 5] = p[5] /\ c[2 + 6] = p[6] /\ c[2 + 7] = p[7]
    BY <1>3, <2>1
  <2> QED BY <1>3, <2>1, <2>2
<1> HIDE DEF c
<1>5. /\ a \o b \in Seq(Nat) /\ Len(a \o b) = 3 + (Len(Name) + 2)
      /\ \A k \in 1 .. 3 : (a \o b)[k] = a[k]
      /\ \A k \in 1 .. Len(Name) + 2 : (a \o b)[3 + k] = b[k]
  <2>1. /\ a \o b \in Seq(Nat) /\ Len(a \o b) = Len(a) + Len(b)
        /\ \A k \in 1 .. Len(a) : (a \o b)[k] = a[k]
        /\ \A k \in 1 .. Len(b) : (a \o b)[Len(a) + k] = b[k]
    BY <1>2, Concat, Zenon
  <2> QED BY <1>2, <2>1
<1>6. ad = (a \o b) \o c
  BY DEF MoteAd, a, b, c, p
<1>7. Service \in Nat /\ Service = Len(Name) + 5
  BY <1>2 DEF Service
<1>8. /\ ad \in Seq(Nat) /\ Len(ad) = Service + 9
      /\ \A k \in 1 .. Service : ad[k] = (a \o b)[k]
      /\ \A k \in 1 .. 9 : ad[Service + k] = c[k]
  <2>1. Len(a \o b) = Service
    BY <1>2, <1>5, <1>7
  <2> DEFINE f == a \o b
  <2> HIDE DEF f
  <2>2. f \in Seq(Nat) /\ c \in Seq(Nat)
    BY <1>4, <1>5 DEF f
  <2>3. /\ f \o c \in Seq(Nat) /\ Len(f \o c) = Len(f) + Len(c)
        /\ \A k \in 1 .. Len(f) : (f \o c)[k] = f[k]
        /\ \A k \in 1 .. Len(c) : (f \o c)[Len(f) + k] = c[k]
    BY <2>2, Concat, Zenon
  <2> QED BY <1>4, <1>6, <2>1, <2>3 DEF f
<1>9. ad[1] = 2 /\ ad[2] = 1 /\ ad[4] = Len(Name) + 1 /\ ad[5] = 9
  <2>1. 1 \in 1 .. Service /\ 2 \in 1 .. Service /\ 3 + 1 \in 1 .. Service
        /\ 3 + 2 \in 1 .. Service
    BY <1>2, <1>7
  <2>2. (a \o b)[1] = 2 /\ (a \o b)[2] = 1 /\ (a \o b)[3 + 1] = Len(Name) + 1
        /\ (a \o b)[3 + 2] = 9
    BY <1>2, <1>5
  <2>3. ad[1] = 2 /\ ad[2] = 1 /\ ad[3 + 1] = Len(Name) + 1 /\ ad[3 + 2] = 9
    BY <1>8, <2>1, <2>2
  <2> QED BY <2>3
<1>11. \A o \in 0 .. Service + 8 : At(o) = ad[o + 1]
  BY <1>7, <1>8 DEF At
<1>12. /\ At(0) = ad[1] /\ At(1) = ad[2] /\ At(3) = ad[4] /\ At(4) = ad[5]
  BY <1>2, <1>7, <1>11
<1>13. \A k \in 0 .. 8 : At(Service + k) = c[k + 1]
  <2> SUFFICES ASSUME NEW k \in 0 .. 8 PROVE At(Service + k) = c[k + 1]
    OBVIOUS
  <2>1. Service + k \in 0 .. Service + 8 /\ Service + (k + 1) = Service + k + 1
        /\ k + 1 \in 1 .. 9
    BY <1>7
  <2> QED BY <2>1, <1>8, <1>11
<1>14. At(Service) = c[1] /\ At(Service + 1) = c[2] /\ At(Service + 2) = c[3]
       /\ At(Service + 3) = c[4] /\ At(Service + 4) = c[5] /\ At(Service + 5) = c[6]
       /\ At(Service + 6) = c[7] /\ At(Service + 7) = c[8] /\ At(Service + 8) = c[9]
  <2>1. At(Service + 0) = c[0 + 1] /\ At(Service + 1) = c[1 + 1]
        /\ At(Service + 2) = c[2 + 1] /\ At(Service + 3) = c[3 + 1]
        /\ At(Service + 4) = c[4 + 1] /\ At(Service + 5) = c[5 + 1]
        /\ At(Service + 6) = c[6 + 1] /\ At(Service + 7) = c[7 + 1]
        /\ At(Service + 8) = c[8 + 1]
    BY <1>13
  <2>2. Service + 0 = Service
    BY <1>7
  <2> QED BY <2>1, <2>2
<1> QED BY <1>2, <1>3, <1>4, <1>7, <1>8, <1>9, <1>12, <1>14

\* The structure with the payload is the only one of a mote's advertisement that
\* the scanner takes, and the three of them fill it.
LEMMA MoteStructures ==
  ASSUME NEW pid \in Byte, NEW motion \in BOOLEAN, ad = MoteAd(pid, motion)
  PROVE  /\ pos \in {0, 3, Service} => pos < Len(ad) /\ Fits(At(pos))
         /\ pos \in {0, 3} => ~IsTrigger(At(pos))
         /\ pos = 0 => pos + 1 + At(pos) = 3
         /\ pos = 3 => pos + 1 + At(pos) = Service
         /\ pos = Service => IsTrigger(At(pos)) /\ pos + 1 + At(pos) = Service + 9
<1>1. /\ Service \in Nat /\ Len(Name) \in Nat /\ Service = 5 + Len(Name)
      /\ Len(ad) = Service + 9
      /\ At(0) = 2 /\ At(1) = 1 /\ At(3) = Len(Name) + 1 /\ At(4) = 9
      /\ At(Service) = 8 /\ At(Service + 1) = ServiceData
      /\ At(Service + 2) = 210 /\ At(Service + 3) = 252
      /\ At(Service + 4) = Trigger
  BY MoteBytes DEF Service
<1>2. CASE pos = 0
  <2>1. Fits(At(pos)) /\ pos < Len(ad) /\ pos + 1 + At(pos) = 3
    BY <1>1, <1>2 DEF Fits
  <2>2. At(pos + 1) # ServiceData
    BY <1>1, <1>2 DEF ServiceData
  <2> QED BY <1>1, <1>2, <2>1, <2>2 DEF IsTrigger, IsBthome
<1>3. CASE pos = 3
  <2>1. Fits(At(pos)) /\ pos < Len(ad) /\ pos + 1 + At(pos) = Service
    BY <1>1, <1>3 DEF Fits
  <2>2. At(pos + 1) # ServiceData
    BY <1>1, <1>3 DEF ServiceData
  <2> QED BY <1>1, <1>3, <2>1, <2>2 DEF IsTrigger, IsBthome
<1>4. CASE pos = Service
  <2>1. Fits(At(pos)) /\ pos < Len(ad) /\ pos + 1 + At(pos) = Service + 9
    BY <1>1, <1>4 DEF Fits
  <2>2. IsTrigger(At(pos))
    BY <1>1, <1>4 DEF IsTrigger, IsBthome, Uuid
  <2> QED BY <1>1, <1>4, <2>1, <2>2
<1> QED BY <1>2, <1>3, <1>4

\* The two objects of the payload are whole and hold what the mote put there.
LEMMA MoteObjects ==
  ASSUME NEW pid \in Byte, NEW motion \in BOOLEAN, ad = MoteAd(pid, motion),
         end = Service + 9
  PROVE  /\ Service \in Nat
         /\ i = Service + 5 => /\ Whole /\ At(i) = PacketId /\ At(i + 1) = pid
                               /\ i + 1 + Needs[At(i)] = Service + 7
         /\ i = Service + 7 => /\ Whole /\ At(i) = Moving /\ At(i + 1) = Moved(motion)
                               /\ i + 1 + Needs[At(i)] = Service + 9
<1>1. /\ Service \in Nat
      /\ At(Service + 5) = PacketId /\ At(Service + 6) = pid
      /\ At(Service + 7) = Moving /\ At(Service + 8) = Moved(motion)
  BY MoteBytes
<1>2. /\ PacketId \in DOMAIN Needs /\ Needs[PacketId] = 1
      /\ Moving \in DOMAIN Needs /\ Needs[Moving] = 1
  BY DEF Needs, PacketId, Moving
<1>3. CASE i = Service + 5
  <2>1. i + 1 = Service + 6 /\ i + 1 + 1 = Service + 7 /\ i + 1 + 1 <= end
    BY <1>1, <1>3
  <2> QED BY <1>1, <1>2, <1>3, <2>1 DEF Whole
<1>4. CASE i = Service + 7
  <2>1. i + 1 = Service + 8 /\ i + 1 + 1 = Service + 9 /\ i + 1 + 1 <= end
    BY <1>1, <1>4
  <2> QED BY <1>1, <1>2, <1>4, <2>1 DEF Whole
<1> QED BY <1>1, <1>3, <1>4

LEMMA MoteMoves ==
  ASSUME IInv, [Next]_vars, NEW pid \in Byte, NEW motion \in BOOLEAN,
         ad = MoteAd(pid, motion), MoteAt(pid, motion)
  PROVE  MoteAt(pid, motion)'
<1>1. Service \in Nat /\ Len(ad) = Service + 9 /\ Moved(motion) \in Byte
  <2>1. Moved(motion) \in Byte
    BY DEF Moved, Byte
  <2> QED BY <2>1, MoteBytes
<1>2. parsing => end = Service + 9
  BY DEF IInv, WalkInv, MoteAt
<1>3. CASE Skip
  <2>1. /\ Walking /\ ~IsTrigger(At(pos)) /\ pos' = pos + 1 + At(pos)
        /\ UNCHANGED <<parsing, heard, done>>
    BY <1>3 DEF Skip, parserVars
  <2>2. ~parsing /\ ~done /\ heard = <<>> /\ pos \in {0, 3, Service}
    BY <1>1, <2>1 DEF MoteAt, Walking
  <2>3. pos' \in {0, 3, Service}
    BY <2>1, <2>2, MoteStructures
  <2> QED BY <2>1, <2>2, <2>3 DEF MoteAt
<1>4. CASE Enter
  <2>1. /\ Walking /\ IsTrigger(At(pos)) /\ pos' = pos + 1 + At(pos) /\ parsing' = TRUE
        /\ i' = pos + 5 /\ UNCHANGED <<heard, done>>
    BY <1>4 DEF Enter
  <2>2. ~parsing /\ ~done /\ heard = <<>> /\ pos \in {0, 3, Service}
    BY <1>1, <2>1 DEF MoteAt, Walking
  <2>3. pos = Service /\ pos' = Service + 9
    BY <2>1, <2>2, MoteStructures
  <2> QED BY <2>1, <2>2, <2>3 DEF MoteAt
<1>5. CASE Finish
  <2>1. /\ ~parsing /\ ~done /\ (pos < Len(ad) => ~Fits(At(pos)))
        /\ UNCHANGED <<pos, parsing, heard>>
    BY <1>5 DEF Finish, parserVars
  <2>2. pos \notin {0, 3, Service}
    BY <2>1, MoteStructures
  <2> QED BY <2>1, <2>2 DEF MoteAt
<1>6. CASE Object
  <2>1. /\ parsing /\ i < end
        /\ packet_id' = IF At(i) = PacketId THEN At(i + 1) ELSE packet_id
        /\ moving' = IF At(i) = Moving THEN At(i + 1) ELSE moving
        /\ i' = i + 1 + Needs[At(i)]
        /\ UNCHANGED <<pos, parsing, heard, done>>
    BY <1>6 DEF Object
  <2>2. /\ ~done /\ heard = <<>> /\ pos = Service + 9
        /\ i = Service + 5 \/ (i = Service + 7 /\ packet_id = pid)
    BY <1>1, <1>2, <2>1 DEF MoteAt
  <2>3. CASE i = Service + 5
    <3>1. packet_id' = pid /\ i' = Service + 7
      BY <1>2, <2>1, <2>3, MoteObjects
    <3> QED BY <2>1, <2>2, <3>1 DEF MoteAt
  <2>4. CASE i = Service + 7 /\ packet_id = pid
    <3>1. packet_id' = pid /\ moving' = Moved(motion) /\ i' = Service + 9
      BY <1>2, <2>1, <2>4, MoteObjects DEF PacketId, Moving
    <3> QED BY <2>1, <2>2, <3>1 DEF MoteAt
  <2> QED BY <2>2, <2>3, <2>4
<1>7. CASE ParseError
  <2>1. parsing /\ i < end /\ ~Whole
    BY <1>7 DEF ParseError
  <2>2. i \in {Service + 5, Service + 7}
    BY <1>1, <1>2, <2>1 DEF MoteAt
  <2> QED BY <1>2, <2>1, <2>2, MoteObjects
<1>8. CASE Parsed
  <2>1. /\ parsing /\ i = end /\ parsing' = FALSE /\ UNCHANGED pos
        /\ heard' = IF packet_id # None /\ moving # None
                    THEN Append(heard, [packet_id |-> packet_id, moving |-> moving])
                    ELSE heard
    BY <1>8 DEF Parsed
  <2>2. /\ heard = <<>> /\ pos = Service + 9 /\ packet_id = pid
        /\ moving = Moved(motion)
    BY <1>1, <1>2, <2>1 DEF MoteAt
  <2>3. packet_id # None /\ moving # None
    BY <1>1, <2>2, ScanAssumption
  <2>4. heard' = <<[packet_id |-> pid, moving |-> Moved(motion)]>>
    BY <2>1, <2>2, <2>3
  <2> QED BY <2>1, <2>2, <2>4 DEF MoteAt
<1>9. CASE UNCHANGED vars
  BY <1>9 DEF MoteAt, vars, parserVars
<1> QED BY <1>3, <1>4, <1>5, <1>6, <1>7, <1>8, <1>9 DEF Next

LEMMA AdStays == [Next]_vars => ad' = ad
BY DEF Next, vars, Skip, Enter, Finish, Object, ParseError, Parsed

LEMMA MoteInductive == IInv /\ MoteInv /\ [Next]_vars => MoteInv'
<1> SUFFICES ASSUME IInv, MoteInv, [Next]_vars,
                    NEW pid \in Byte, NEW motion \in BOOLEAN, ad' = MoteAd(pid, motion)
             PROVE  MoteAt(pid, motion)'
  BY DEF MoteInv
<1>1. ad = MoteAd(pid, motion)
  BY AdStays
<1>2. MoteAt(pid, motion)
  BY <1>1 DEF MoteInv
<1> QED BY <1>1, <1>2, MoteMoves

LEMMA MoteInitially == Init => MoteInv
BY DEF Init, MoteInv, MoteAt

\* A gateway understands what a mote sends, whatever name it advertises: the packet
\* id and whether it moved, as fill_bthome_payload was told (mote/src/main.c and
\* parse_bthome in gateway/main/ble_scanner.c).
THEOREM EveryMoteIsHeard == Spec => []MoteIsHeard
<1>1. IInv /\ MoteInv => MoteIsHeard
  <2> SUFFICES ASSUME IInv, MoteInv, done, ad \in MoteAds
               PROVE  \E pid \in Byte, motion \in BOOLEAN :
                        /\ ad = MoteAd(pid, motion)
                        /\ heard = <<[packet_id |-> pid,
                                      moving |-> IF motion THEN 1 ELSE 0]>>
    BY DEF MoteIsHeard
  <2>1. PICK pid \in Byte, motion \in BOOLEAN : ad = MoteAd(pid, motion)
    BY DEF MoteAds
  <2>2. MoteAt(pid, motion)
    BY <2>1 DEF MoteInv
  <2>3. heard = <<[packet_id |-> pid, moving |-> Moved(motion)]>>
    BY <2>2 DEF MoteAt
  <2> WITNESS pid \in Byte, motion \in BOOLEAN
  <2> QED BY <2>1, <2>3 DEF Moved
<1>2. IInv /\ MoteInv /\ [Next]_vars => MoteInv'
  BY MoteInductive
<1> QED BY <1>1, <1>2, MoteInitially, Invariance, PTL DEF Spec
-----------------------------------------------------------------------------
(* The walk against the meaning: Reached, without an induction over data.   *)

\* A set of natural numbers has a least one, unless it is empty.
LEMMA LeastNatural ==
  ASSUME NEW S, S \subseteq Nat, S # {}
  PROVE  \E m \in S : \A k \in S : m <= k
<1>1. PICK R : R = OpToRel(<, Nat)
  BY Zenon
<1>2. IsWellFoundedOn(R, Nat)
  BY <1>1, NatLessThanWellFounded, Zenon
<1>3. \A x, y \in Nat : x < y => <<x, y>> \in R
  BY <1>1, Zenon DEF OpToRel
<1>4. PICK m \in S : \A k \in S : ~ (<<k, m>> \in R)
  BY <1>2, WFMin, Zenon
<1>5. \A k \in S : ~ (k < m)
  BY <1>3, <1>4, Zenon
<1> QED BY <1>5, SMT

\* Reached is a fixed point: the first offset, and what "next" leads to from it.  A
\* recursive definition has a solution here because the least closed set is one.
LEMMA ReachedBy ==
  ASSUME NEW from \in Nat, NEW to \in Int, NEW next \in [Nat -> Nat],
         \A o \in Nat : next[o] > o
  PROVE  /\ Reached(from, to, next) \subseteq from .. to
         /\ from <= to => from \in Reached(from, to, next)
         /\ \A o \in Reached(from, to, next) :
              next[o] <= to => next[o] \in Reached(from, to, next)
         /\ \A o \in Reached(from, to, next) :
              o = from \/ \E q \in Reached(from, to, next) : next[q] = o
<1> DEFINE D == from .. to
           Closed(R) == /\ from \in D => from \in R
                        /\ \A q \in R : next[q] \in D => next[q] \in R
           Least == {o \in D : \A R \in SUBSET D : Closed(R) => o \in R}
           Holds(f, o) == o = from \/ \E q \in from .. o - 1 : next[q] = o /\ f[q]
<1>1. PICK L : L = Least
  OBVIOUS
<1>2. L \subseteq D /\ Closed(L)
  BY <1>1
<1>3. ASSUME NEW o \in L
      PROVE  o = from \/ \E q \in L : next[q] = o
  <2> SUFFICES ASSUME o # from, \A q \in L : next[q] # o PROVE FALSE
    OBVIOUS
  <2>1. PICK R : R = L \ {o}
    OBVIOUS
  <2>2. R \in SUBSET D /\ Closed(R)
    BY <1>2, <2>1
  <2> QED BY <1>1, <1>3, <2>1, <2>2
<1>4. PICK g : g = [o \in D |-> o \in L]
  OBVIOUS
<1>5. ASSUME NEW o \in D PROVE g[o] <=> Holds(g, o)
  <2>1. ASSUME g[o] PROVE Holds(g, o)
    <3>1. CASE o = from
      BY <3>1
    <3>2. CASE o # from
      <4>1. PICK q \in L : next[q] = o
        BY <1>3, <1>4, <2>1, <3>2
      <4>2. q \in from .. o - 1 /\ q \in D
        BY <1>2, <4>1
      <4> QED BY <1>4, <4>1, <4>2
    <3> QED BY <3>1, <3>2
  <2>2. ASSUME Holds(g, o) PROVE g[o]
    <3>1. CASE o = from
      BY <1>2, <1>4, <3>1
    <3>2. CASE o # from
      <4>1. PICK q \in from .. o - 1 : next[q] = o /\ g[q]
        BY <2>2, <3>2
      <4>2. q \in D
        BY <4>1
      <4> QED BY <1>2, <1>4, <4>1, <4>2
    <3> QED BY <3>1, <3>2
  <2> QED BY <2>1, <2>2
<1>6. g = [o \in D |-> Holds(g, o)]
  <2>1. ASSUME NEW o \in D PROVE (o \in L) = Holds(g, o)
    <3>1. o \in L <=> Holds(g, o)
      <4>1. g[o] <=> o \in L
        BY <1>4
      <4> HIDE DEF Holds
      <4> QED BY <1>5, <4>1
    <3> QED BY <3>1
  <2> HIDE DEF Holds, D
  <2> QED BY <1>4, <2>1, Zenon
<1>7. PICK f : f = [o \in D |-> Holds(f, o)] /\ Reached(from, to, next) = {o \in D : f[o]}
  <2> HIDE DEF Least, Closed
  <2> QED BY <1>6, Zenon DEF Reached
<1>8. PICK S : S = Reached(from, to, next)
  OBVIOUS
<1>9. \A o \in D : o \in S <=> Holds(f, o)
  <2> HIDE DEF Holds, D
  <2> QED BY <1>7, <1>8, Zenon
<1>10. \A o : o \in S <=> o \in D /\ f[o]
  BY <1>7, <1>8, Zenon
<1>11. S \subseteq D /\ (from <= to => from \in S)
  BY <1>9, <1>10
<1>12. ASSUME NEW o \in S, next[o] <= to PROVE next[o] \in S
  <2>1. next[o] \in D /\ o \in from .. next[o] - 1
    BY <1>11, <1>12
  <2> QED BY <1>9, <1>10, <2>1
<1>13. ASSUME NEW o \in S, o # from PROVE \E q \in S : next[q] = o
  <2>1. PICK q \in from .. o - 1 : next[q] = o /\ f[q]
    BY <1>9, <1>11, <1>13
  <2>2. q \in D
    BY <1>11, <2>1
  <2> QED BY <1>10, <2>1, <2>2
<1> QED BY <1>8, <1>11, <1>12, <1>13

\* A walk by "next" at offset a has gone over what is reached before, and no
\* further.
Front(R, next, to, a) ==
    (a <= to => a \in R) /\ \A q \in R : q < a => next[q] <= a

\* One step leads it over a and over nothing else.
LEMMA StepOn ==
  ASSUME NEW from \in Nat, NEW to \in Int, NEW next \in [Nat -> Nat],
         \A o \in Nat : next[o] > o,
         NEW R, R = Reached(from, to, next), NEW a \in R, Front(R, next, to, a)
  PROVE  /\ a \in Nat
         /\ \A q \in R : q < next[a] => q <= a
         /\ Front(R, next, to, next[a])
<1>1. /\ R \subseteq from .. to
      /\ \A o \in R : next[o] <= to => next[o] \in R
      /\ \A o \in R : o = from \/ \E q \in R : next[q] = o
  BY ReachedBy
<1>2. R \subseteq Nat /\ a \in Nat /\ from <= a
  BY <1>1
<1>3. ASSUME NEW q \in R, q < next[a] PROVE q <= a
  <2> SUFFICES ASSUME a < q PROVE FALSE
    BY <1>2
  <2>1. PICK G : G = {o \in R : a < o /\ o < next[a]}
    OBVIOUS
  <2>2. PICK m \in G : \A k \in G : m <= k
    BY <1>2, <1>3, <2>1, LeastNatural
  <2>3. m \in R /\ m \in Nat /\ a < m /\ m < next[a] /\ m # from
    BY <1>2, <2>1, <2>2
  <2>4. PICK p \in R : next[p] = m
    BY <1>1, <2>3
  <2>5. p \in Nat /\ p < m
    BY <1>2, <2>4
  <2>6. CASE p < a
    BY <1>2, <2>3, <2>4, <2>6 DEF Front
  <2>7. CASE p = a
    BY <2>3, <2>4, <2>7
  <2>8. CASE a < p
    <3>1. p < next[a]
      BY <1>2, <2>3, <2>5
    <3> QED BY <1>2, <2>1, <2>2, <2>3, <2>5, <2>8, <3>1
  <2> QED BY <1>2, <2>5, <2>6, <2>7, <2>8
<1>4. ASSUME NEW q \in R, q < next[a] PROVE next[q] <= next[a]
  <2>1. q <= a /\ q \in Nat
    BY <1>2, <1>3, <1>4
  <2>2. CASE q = a
    BY <1>2, <2>2
  <2>3. CASE q < a
    <3>1. next[q] <= a /\ a < next[a] /\ next[q] \in Nat /\ next[a] \in Nat
      BY <1>2, <2>1, <2>3 DEF Front
    <3> QED BY <1>2, <3>1
  <2> QED BY <1>2, <2>1, <2>2, <2>3
<1> QED BY <1>1, <1>2, <1>3, <1>4 DEF Front

\* Offsets lie in front of what follows them.
LEMMA Offsets ==
  ASSUME ad \in Seq(Byte)
  PROVE  /\ \A o \in Nat : At(o) \in Byte
         /\ AfterStructure \in [Nat -> Nat] /\ \A o \in Nat : AfterStructure[o] > o
         /\ AfterObject \in [Nat -> Nat] /\ \A o \in Nat : AfterObject[o] > o
         /\ \A o \in Nat : AfterStructure[o] = o + 1 + At(o)
<1>1. Len(ad) \in Nat
  OBVIOUS
<1>2. ASSUME NEW o \in Nat PROVE At(o) \in Byte
  <2>1. CASE o < Len(ad)
    BY <2>1, ByteAt
  <2>2. CASE ~ (o < Len(ad))
    BY <2>2 DEF At, Byte
  <2> QED BY <2>1, <2>2
<1>3. \A o \in Nat : AfterStructure[o] = o + 1 + At(o)
  BY DEF AfterStructure
<1>4. ASSUME NEW o \in Nat PROVE o + 1 + At(o) \in Nat /\ o + 1 + At(o) > o
  <2>1. PICK n \in Byte : n = At(o)
    BY <1>2
  <2>2. o + 1 + n \in Nat /\ o + 1 + n > o
    BY DEF Byte
  <2> QED BY <2>1, <2>2
<1>5. ASSUME NEW o \in Nat
      PROVE  /\ AfterObject[o] \in Nat /\ AfterObject[o] > o
             /\ o + 1 + (IF At(o) \in DOMAIN Needs THEN Needs[At(o)] ELSE Len(ad)) \in Nat
  <2>1. PICK n : n = IF At(o) \in DOMAIN Needs THEN Needs[At(o)] ELSE Len(ad)
    OBVIOUS
  <2>2. n \in Nat
    BY <1>1, <2>1, NeedsType
  <2>3. AfterObject[o] = o + 1 + n
    BY <2>1 DEF AfterObject
  <2> QED BY <2>1, <2>2, <2>3
<1>6. AfterStructure \in [Nat -> Nat]
  BY <1>4, Zenon DEF AfterStructure
<1>7. AfterObject \in [Nat -> Nat]
  BY <1>5, Zenon DEF AfterObject
<1> QED BY <1>2, <1>3, <1>4, <1>5, <1>6, <1>7

\* The walk over the structures is at x, and none it has passed was empty.
Passed(x) ==
    /\ x \in 0 .. Len(ad)
    /\ Front(Structures, AfterStructure, Len(ad) - 1, x)
    /\ \A q \in Structures : q < x => At(q) # 0

\* h is what the structures before x mean.
HeardTo(x, h) ==
    /\ Len(h) = Cardinality({p \in Meant : p < x})
    /\ \A p \in Meant : p < x =>
         h[Place(p)] = [packet_id |-> ValueOf(p, PacketId),
                        moving |-> ValueOf(p, Moving)]

Walked(x, h) == Passed(x) /\ HeardTo(x, h)

\* A structure of BTHome that fits and is a trigger.
Begins(p) ==
    /\ At(p) > 3 /\ AfterStructure[p] <= Len(ad)
    /\ At(p + 1) = ServiceData /\ <<At(p + 2), At(p + 3)>> = Uuid
    /\ At(p + 4) = Trigger

\* v is the value of the last object id before j, or there is none.
Found(p, j, id, v) ==
    LET H == {o \in ObjectsOf(p) : o < j /\ At(o) = id}
    IN  IF H = {} THEN v = None ELSE v \in Byte /\ v = At(Greatest(H) + 1)

\* The walk over the objects of the structure at p is at j; x is where that
\* structure ends, v and w are the values found.
Inside(x, j, v, w, h, p) ==
    /\ p \in Structures /\ Walked(p, h) /\ Begins(p) /\ AfterStructure[p] = x
    /\ j \in ObjectsOf(p) /\ Front(ObjectsOf(p), AfterObject, x, j)
    /\ Found(p, j, PacketId, v) /\ Found(p, j, Moving, w)

\* Outside a payload the walk has heard all before pos, inside one all before its
\* structure; it ends only where no structure follows.
MeantInv ==
    /\ ~parsing => Walked(pos, heard)
    /\ parsing => \E p \in Structures : Inside(pos, i, packet_id, moving, heard, p)
    /\ done /\ pos < Len(ad) => ~Fits(At(pos))

\* What an advertisement means does not depend on the walk.
LEMMA SameAd ==
  ASSUME ad' = ad
  PROVE  /\ Structures' = Structures
         /\ \A x, h : Walked(x, h)' <=> Walked(x, h)
         /\ \A x, j, v, w, h, p : Inside(x, j, v, w, h, p)' <=> Inside(x, j, v, w, h, p)
<1>1. \A o : At(o)' = At(o)
  BY DEF At
<1>2. AfterStructure' = AfterStructure /\ AfterObject' = AfterObject
  BY <1>1 DEF AfterStructure, AfterObject
<1>3. Structures' = Structures
  BY <1>2 DEF Structures
<1>4. \A p : ObjectsOf(p)' = ObjectsOf(p)
  BY <1>2 DEF ObjectsOf
<1>5. \A p, id : Holders(p, id)' = Holders(p, id)
  BY <1>1, <1>2, <1>4 DEF Holders
<1>6. \A p, id : ValueOf(p, id)' = ValueOf(p, id)
  BY <1>1, <1>5 DEF ValueOf
<1>7. Meant' = Meant
  BY <1>1, <1>2, <1>3, <1>4, <1>5 DEF Meant
<1>8. \A x, h : HeardTo(x, h)' <=> HeardTo(x, h)
  BY <1>6, <1>7 DEF HeardTo, Place
<1>9. \A x : Passed(x)' <=> Passed(x)
  BY <1>1, <1>2, <1>3 DEF Passed
<1>10. \A x, h : Walked(x, h)' <=> Walked(x, h)
  BY <1>8, <1>9 DEF Walked
<1>11. \A p, j, id, v : Found(p, j, id, v)' <=> Found(p, j, id, v)
  BY <1>1, <1>4 DEF Found
<1>12. \A p : Begins(p)' <=> Begins(p)
  BY <1>1, <1>2 DEF Begins
<1>13. \A x, j, v, w, h, p : Inside(x, j, v, w, h, p)' <=> Inside(x, j, v, w, h, p)
  BY <1>2, <1>3, <1>4, <1>10, <1>11, <1>12 DEF Inside
<1> QED BY <1>3, <1>10, <1>13

LEMMA StructuresInside ==
  ASSUME ad \in Seq(Byte)
  PROVE  /\ Len(ad) \in Nat /\ Structures \subseteq 0 .. Len(ad) - 1
         /\ Structures \subseteq Nat
<1>1. Len(ad) \in Nat /\ Len(ad) - 1 \in Int /\ 0 \in Nat
  OBVIOUS
<1>2. Structures \subseteq 0 .. Len(ad) - 1
  BY <1>1, Offsets, ReachedBy, Zenon DEF Structures
<1> QED BY <1>1, <1>2

LEMMA OneStructureOn ==
  ASSUME ad \in Seq(Byte), NEW x \in Structures, Passed(x)
  PROVE  /\ \A q \in Structures : q < AfterStructure[x] => q <= x
         /\ Front(Structures, AfterStructure, Len(ad) - 1, AfterStructure[x])
<1>1. PICK R, next : R = Structures /\ next = AfterStructure
  OBVIOUS
<1>2. /\ next \in [Nat -> Nat] /\ \A o \in Nat : next[o] > o
      /\ R = Reached(0, Len(ad) - 1, next)
  BY <1>1, Offsets DEF Structures
<1>3. 0 \in Nat /\ Len(ad) - 1 \in Int
  OBVIOUS
<1>4. x \in R /\ Front(R, next, Len(ad) - 1, x)
  BY <1>1 DEF Passed
<1> QED BY <1>1, <1>2, <1>3, <1>4, StepOn, Zenon

\* A structure that is not empty and fits is reached, and the walk over it passes
\* no other.
LEMMA PassStructure ==
  ASSUME ad \in Seq(Byte), NEW x, Passed(x), x < Len(ad),
         At(x) # 0, AfterStructure[x] <= Len(ad)
  PROVE  /\ x \in Structures /\ x \in Nat /\ At(x) \in 1 .. 255
         /\ AfterStructure[x] = x + 1 + At(x)
         /\ Passed(AfterStructure[x])
         /\ \A p \in Structures : p < AfterStructure[x] => p <= x
<1>1. x \in Nat /\ x <= Len(ad) - 1 /\ Len(ad) \in Nat /\ Len(ad) - 1 \in Int
  BY DEF Passed
<1>2. x \in Structures
  BY <1>1 DEF Passed, Front
<1>3. At(x) \in Byte /\ At(x) # 0 /\ AfterStructure[x] = x + 1 + At(x)
  BY <1>1, Offsets
<1>4. /\ \A q \in Structures : q < AfterStructure[x] => q <= x
      /\ Front(Structures, AfterStructure, Len(ad) - 1, AfterStructure[x])
  BY <1>2, OneStructureOn
<1>5. Structures \subseteq Nat
  BY StructuresInside
<1>6. At(x) \in 1 .. 255
  BY <1>3 DEF Byte
<1>7. \A q \in Structures : q < AfterStructure[x] => At(q) # 0
  <2> SUFFICES ASSUME NEW q \in Structures, q < AfterStructure[x] PROVE At(q) # 0
    OBVIOUS
  <2>1. q <= x /\ q \in Nat
    BY <1>4, <1>5
  <2>2. q < x \/ q = x
    BY <1>1, <2>1
  <2> QED BY <1>3, <2>2 DEF Passed
<1>8. AfterStructure[x] \in 0 .. Len(ad)
  <2>1. AfterStructure[x] \in Nat
    BY <1>1, Offsets
  <2> QED BY <1>1, <2>1
<1>9. Passed(AfterStructure[x])
  BY <1>4, <1>7, <1>8 DEF Passed
<1> QED BY <1>1, <1>2, <1>3, <1>4, <1>6, <1>9

\* Behind a structure of no meaning nothing more is heard than before it,
LEMMA NotMeant ==
  ASSUME ad \in Seq(Byte), NEW x, NEW h, Walked(x, h), x < Len(ad),
         At(x) # 0, AfterStructure[x] <= Len(ad), x \notin Meant
  PROVE  Walked(AfterStructure[x], h)
<1>1. /\ Passed(AfterStructure[x]) /\ x \in Nat /\ AfterStructure[x] > x
      /\ AfterStructure[x] \in Nat
      /\ \A p \in Structures : p < AfterStructure[x] => p <= x
  BY PassStructure, Offsets DEF Walked
<1>2. Meant \subseteq Structures /\ Structures \subseteq Nat
  BY StructuresInside DEF Meant
<1>3. ASSUME NEW p \in Meant PROVE p < AfterStructure[x] <=> p < x
  <2>1. p \in Nat /\ p # x
    BY <1>2
  <2>2. p < AfterStructure[x] => p <= x
    BY <1>1, <1>2
  <2> QED BY <1>1, <2>1, <2>2
<1>4. {p \in Meant : p < AfterStructure[x]} = {p \in Meant : p < x}
  BY <1>3
<1>5. HeardTo(AfterStructure[x], h)
  BY <1>3, <1>4 DEF HeardTo, Walked
<1> QED BY <1>1, <1>5 DEF Walked

\* and behind a structure with a meaning that meaning is heard too.
LEMMA NowMeant ==
  ASSUME ad \in Seq(Byte), NEW x, NEW M, NEW h \in Seq(M), NEW m \in M,
         Walked(x, h), x \in Meant, x < Len(ad), At(x) # 0, AfterStructure[x] <= Len(ad),
         m = [packet_id |-> ValueOf(x, PacketId), moving |-> ValueOf(x, Moving)]
  PROVE  Walked(AfterStructure[x], Append(h, m))
<1>1. /\ Passed(AfterStructure[x]) /\ x \in Nat /\ AfterStructure[x] > x
      /\ AfterStructure[x] \in Nat
      /\ \A p \in Structures : p < AfterStructure[x] => p <= x
  BY PassStructure, Offsets DEF Walked
<1>2. Meant \subseteq Structures /\ Structures \subseteq Nat
  BY StructuresInside DEF Meant
<1>3. ASSUME NEW p \in Meant PROVE p < AfterStructure[x] <=> p < x \/ p = x
  <2>1. p \in Nat
    BY <1>2
  <2>2. p < AfterStructure[x] => p <= x
    BY <1>1, <1>2
  <2> QED BY <1>1, <2>1, <2>2
<1>4. PICK T : T = {p \in Meant : p < x}
  OBVIOUS
<1>5. {p \in Meant : p < AfterStructure[x]} = T \cup {x} /\ x \notin T
  <2>1. ~ (x < x)
    BY <1>1
  <2> QED BY <1>3, <1>4, <2>1
<1>6. IsFiniteSet(T)
  <2>1. T \subseteq 0 .. x
    <3> SUFFICES ASSUME NEW p \in T PROVE p \in 0 .. x
      OBVIOUS
    <3>1. p \in Nat /\ p < x
      BY <1>2, <1>4
    <3> QED BY <1>1, <3>1
  <2>2. IsFiniteSet(0 .. x)
    <3>1. 0 \in Int /\ x \in Int
      BY <1>1
    <3> QED BY <3>1, FS_Interval, Zenon
  <2> QED BY <2>1, <2>2, FS_Subset, Zenon
<1>7. Cardinality(T \cup {x}) = Cardinality(T) + 1
  BY <1>5, <1>6, FS_AddElement
<1>8. /\ Len(Append(h, m)) = Len(h) + 1 /\ Append(h, m)[Len(h) + 1] = m
      /\ DOMAIN h = 1 .. Len(h) /\ DOMAIN Append(h, m) = 1 .. Len(h) + 1
      /\ Len(h) \in Nat
      /\ \A k \in 1 .. Len(h) : Append(h, m)[k] = h[k]
  OBVIOUS
<1>9. Len(h) = Cardinality(T)
  BY <1>4 DEF Walked, HeardTo
<1>10. ASSUME NEW p \in Meant, p < AfterStructure[x]
       PROVE  Append(h, m)[Place(p)] = [packet_id |-> ValueOf(p, PacketId),
                                        moving |-> ValueOf(p, Moving)]
  <2>1. CASE p = x
    <3>1. {q \in Meant : q <= x} = T \cup {x}
      <4>1. ASSUME NEW q \in Meant PROVE q <= x <=> q < x \/ q = x
        <5>1. q \in Nat
          BY <1>2
        <5> QED BY <1>1, <5>1
      <4> QED BY <1>4, <4>1
    <3>2. Place(p) = Len(h) + 1
      BY <1>7, <1>9, <2>1, <3>1 DEF Place
    <3> QED BY <1>8, <2>1, <3>2
  <2>2. CASE p < x
    <3>1. PICK Q : Q = {q \in Meant : q <= p}
      OBVIOUS
    <3>2. Q \subseteq T /\ p \in Q
      <4>1. ASSUME NEW q \in Meant, q <= p PROVE q < x
        <5>1. q \in Nat /\ p \in Nat
          BY <1>2
        <5> QED BY <1>1, <2>2, <4>1, <5>1
      <4>2. p <= p
        BY <1>2
      <4> QED BY <1>4, <3>1, <4>1, <4>2
    <3>3. IsFiniteSet(Q) /\ Cardinality(Q) <= Cardinality(T)
      BY <1>6, <3>2, FS_Subset, Zenon
    <3>4. Cardinality(Q) \in Nat /\ Cardinality(Q) # 0
      BY <3>2, <3>3, FS_CardinalityType, FS_EmptySet
    <3>5. Place(p) \in 1 .. Len(h)
      BY <1>8, <1>9, <3>1, <3>3, <3>4 DEF Place
    <3>6. h[Place(p)] = [packet_id |-> ValueOf(p, PacketId),
                         moving |-> ValueOf(p, Moving)]
      BY <2>2 DEF Walked, HeardTo
    <3> QED BY <1>8, <3>5, <3>6
  <2> QED BY <1>3, <1>10, <2>1, <2>2
<1>11. HeardTo(AfterStructure[x], Append(h, m))
  BY <1>5, <1>7, <1>8, <1>9, <1>10 DEF HeardTo
<1> QED BY <1>1, <1>11 DEF Walked

\* The objects of a structure that fits, and the walk over one of them.
LEMMA ObjectsInside ==
  ASSUME ad \in Seq(Byte), NEW p \in Nat
  PROVE  /\ ObjectsOf(p) \subseteq p + 5 .. AfterStructure[p]
         /\ ObjectsOf(p) \subseteq Nat /\ AfterStructure[p] \in Nat
         /\ p + 5 <= AfterStructure[p] => p + 5 \in ObjectsOf(p)
         /\ \A o \in ObjectsOf(p) :
              o = p + 5 \/ \E q \in ObjectsOf(p) : AfterObject[q] = o
<1>1. p + 5 \in Nat /\ AfterStructure[p] \in Nat /\ AfterStructure[p] \in Int
  <2>1. PICK n \in Nat : n = AfterStructure[p]
    BY Offsets, Zenon
  <2> QED BY <2>1
<1>2. /\ ObjectsOf(p) \subseteq p + 5 .. AfterStructure[p]
      /\ p + 5 <= AfterStructure[p] => p + 5 \in ObjectsOf(p)
      /\ \A o \in ObjectsOf(p) :
           o = p + 5 \/ \E q \in ObjectsOf(p) : AfterObject[q] = o
  BY <1>1, Offsets, ReachedBy, Zenon DEF ObjectsOf
<1>3. ObjectsOf(p) \subseteq Nat
  BY <1>1, <1>2
<1> QED BY <1>1, <1>2, <1>3

LEMMA PassObject ==
  ASSUME ad \in Seq(Byte), NEW p \in Nat, NEW j \in ObjectsOf(p),
         Front(ObjectsOf(p), AfterObject, AfterStructure[p], j)
  PROVE  /\ j \in Nat /\ AfterObject[j] \in Nat /\ j < AfterObject[j]
         /\ \A q \in ObjectsOf(p) : q < AfterObject[j] => q <= j
         /\ Front(ObjectsOf(p), AfterObject, AfterStructure[p], AfterObject[j])
<1>1. p + 5 \in Nat /\ AfterStructure[p] \in Int /\ j \in Nat
  BY ObjectsInside
<1>2. PICK R, next : R = ObjectsOf(p) /\ next = AfterObject
  OBVIOUS
<1>3. /\ next \in [Nat -> Nat] /\ \A o \in Nat : next[o] > o
      /\ R = Reached(p + 5, AfterStructure[p], next)
  BY <1>2, Offsets DEF ObjectsOf
<1>4. j \in R /\ Front(R, next, AfterStructure[p], j)
  BY <1>2
<1>5. /\ \A q \in R : q < next[j] => q <= j
      /\ Front(R, next, AfterStructure[p], next[j])
  BY <1>1, <1>3, <1>4, StepOn, Zenon
<1> QED BY <1>1, <1>2, <1>3, <1>5

\* The value of an object counts from there on.
LEMMA FoundOn ==
  ASSUME ad \in Seq(Byte), NEW p \in Nat, NEW j \in ObjectsOf(p), NEW id, NEW v,
         Front(ObjectsOf(p), AfterObject, AfterStructure[p], j), Found(p, j, id, v)
  PROVE  Found(p, AfterObject[j], id, IF At(j) = id THEN At(j + 1) ELSE v)
<1>1. /\ j \in Nat /\ AfterObject[j] \in Nat /\ j < AfterObject[j]
      /\ \A q \in ObjectsOf(p) : q < AfterObject[j] => q <= j
      /\ ObjectsOf(p) \subseteq Nat
  BY PassObject, ObjectsInside
<1>2. PICK H : H = {o \in ObjectsOf(p) : o < j /\ At(o) = id}
  OBVIOUS
<1>3. PICK G : G = {o \in ObjectsOf(p) : o < AfterObject[j] /\ At(o) = id}
  OBVIOUS
<1>4. ASSUME NEW o \in ObjectsOf(p) PROVE o < AfterObject[j] <=> o < j \/ o = j
  <2>1. o \in Nat /\ (o < AfterObject[j] => o <= j)
    BY <1>1
  <2> QED BY <1>1, <2>1
<1>5. IF H = {} THEN v = None ELSE v \in Byte /\ v = At(Greatest(H) + 1)
  BY <1>2 DEF Found
<1>6. CASE At(j) = id
  <2>1. j \in G /\ \A q \in G : q <= j
    BY <1>1, <1>3, <1>4, <1>6
  <2>2. \A o \in G : (\A q \in G : q <= o) => o = j
    <3> SUFFICES ASSUME NEW o \in G, \A q \in G : q <= o PROVE o = j
      OBVIOUS
    <3>1. o \in Nat /\ o <= j /\ j <= o
      BY <1>1, <1>3, <2>1
    <3> QED BY <1>1, <3>1
  <2>3. Greatest(G) = j
    BY <2>1, <2>2, Zenon DEF Greatest
  <2> QED BY <1>1, <1>3, <1>6, <2>1, <2>3, Offsets DEF Found
<1>7. CASE At(j) # id
  <2>1. G = H
    BY <1>2, <1>3, <1>4, <1>7
  <2> QED BY <1>3, <1>5, <1>7, <2>1 DEF Found
<1> QED BY <1>6, <1>7

LEMMA ObjectOn ==
  ASSUME ad \in Seq(Byte), NEW x, NEW j, NEW v, NEW w, NEW h, NEW p,
         Inside(x, j, v, w, h, p), AfterObject[j] <= x
  PROVE  Inside(x, AfterObject[j], IF At(j) = PacketId THEN At(j + 1) ELSE v,
                IF At(j) = Moving THEN At(j + 1) ELSE w, h, p)
<1>1. /\ p \in Structures /\ Walked(p, h) /\ Begins(p) /\ AfterStructure[p] = x
      /\ j \in ObjectsOf(p) /\ Front(ObjectsOf(p), AfterObject, x, j)
      /\ Found(p, j, PacketId, v) /\ Found(p, j, Moving, w)
  BY DEF Inside
<1>2. p \in Nat
  BY <1>1, StructuresInside
<1>3. PICK y : y = AfterObject[j]
  OBVIOUS
<1>4. Front(ObjectsOf(p), AfterObject, x, y) /\ y \in ObjectsOf(p)
  BY <1>1, <1>2, <1>3, PassObject DEF Front
<1>5. /\ Found(p, y, PacketId, IF At(j) = PacketId THEN At(j + 1) ELSE v)
      /\ Found(p, y, Moving, IF At(j) = Moving THEN At(j + 1) ELSE w)
  BY <1>1, <1>2, <1>3, FoundOn, Zenon
<1> QED BY <1>1, <1>3, <1>4, <1>5 DEF Inside

\* A structure whose objects do not fill it means nothing.
LEMMA ErrorMeansNothing ==
  ASSUME ad \in Seq(Byte), NEW x, NEW j, NEW v, NEW w, NEW h, NEW p,
         Inside(x, j, v, w, h, p), j < x, x < AfterObject[j]
  PROVE  p \notin Meant
<1>1. /\ p \in Structures /\ AfterStructure[p] = x
      /\ j \in ObjectsOf(p) /\ Front(ObjectsOf(p), AfterObject, x, j)
  BY DEF Inside
<1>2. p \in Nat
  BY <1>1, StructuresInside
<1>3. j \in Nat /\ x \in Nat /\ \A q \in ObjectsOf(p) : q < AfterObject[j] => q <= j
  BY <1>1, <1>2, PassObject, ObjectsInside
<1>4. x \notin ObjectsOf(p)
  BY <1>3
<1> QED BY <1>1, <1>4 DEF Meant

\* One whose objects fill it means what was found.
LEMMA EndMeansFound ==
  ASSUME ad \in Seq(Byte), NEW x, NEW v, NEW w, NEW h, NEW p,
         Inside(x, x, v, w, h, p)
  PROVE  /\ p \in Meant <=> v # None /\ w # None
         /\ v # None => v = ValueOf(p, PacketId)
         /\ w # None => w = ValueOf(p, Moving)
<1>1. /\ p \in Structures /\ Walked(p, h) /\ Begins(p) /\ AfterStructure[p] = x
      /\ x \in ObjectsOf(p)
      /\ Found(p, x, PacketId, v) /\ Found(p, x, Moving, w)
  BY DEF Inside
<1>2. ASSUME NEW id, NEW u, Found(p, x, id, u)
      PROVE  /\ u # None <=> Holders(p, id) # {}
             /\ u # None => u = ValueOf(p, id)
  BY <1>1, <1>2, ScanAssumption DEF Found, Holders, ValueOf
<1>3. ASSUME NEW q \in Structures, q <= p PROVE At(q) # 0
  <2>1. q \in Nat /\ p \in Nat
    BY <1>1, StructuresInside
  <2>2. q < p \/ q = p
    BY <1>3, <2>1
  <2>3. At(p) # 0
    BY <1>1 DEF Begins
  <2> QED BY <1>1, <2>2, <2>3 DEF Walked, Passed
<1>4. p \in Meant <=> Holders(p, PacketId) # {} /\ Holders(p, Moving) # {}
  BY <1>1, <1>3 DEF Meant, Begins
<1> QED BY <1>1, <1>2, <1>4

\* Meant and gap_event_cb look for the same bytes.
LEMMA BeginsIsTrigger ==
  ASSUME ad \in Seq(Byte), pos \in Nat
  PROVE  Begins(pos) <=> At(pos) > 3 /\ Fits(At(pos)) /\ IsTrigger(At(pos))
<1>1. PICK n \in Byte : n = At(pos)
  BY Offsets
<1>2. AfterStructure[pos] = pos + 1 + n
  BY <1>1, Offsets
<1>3. n \in Nat /\ Len(ad) \in Nat
  BY DEF Byte
<1>4. n > 3 => (AfterStructure[pos] <= Len(ad) <=> Fits(n))
  BY <1>2, <1>3 DEF Fits
<1>5. n > 3 => n >= 3
  BY <1>3
<1> QED BY <1>1, <1>4, <1>5 DEF Begins, IsTrigger, IsBthome

LEMMA MeantInitially == Init => MeantInv
<1> SUFFICES ASSUME Init PROVE MeantInv
  OBVIOUS
<1>1. ad \in Seq(Byte) /\ pos = 0 /\ ~ parsing /\ heard = <<>> /\ ~ done
  BY ScanAssumption DEF Init
<1>2. Structures \subseteq Nat /\ Len(ad) \in Nat
  BY <1>1, StructuresInside
<1>3. 0 <= Len(ad) - 1 => 0 \in Structures
  <2>1. 0 \in Nat /\ Len(ad) - 1 \in Int
    BY <1>2
  <2> QED BY <1>1, <2>1, Offsets, ReachedBy, Zenon DEF Structures
<1>4. \A q \in Structures : ~ (q < 0)
  BY <1>2
<1>5. Passed(0)
  BY <1>2, <1>3, <1>4 DEF Passed, Front
<1>6. \A p \in Meant : ~ (p < 0)
  BY <1>4 DEF Meant
<1>7. {p \in Meant : p < 0} = {}
  BY <1>6
<1>8. HeardTo(0, <<>>)
  BY <1>6, <1>7, FS_EmptySet DEF HeardTo
<1> QED BY <1>1, <1>5, <1>8 DEF MeantInv, Walked

LEMMA SkipMeant ==
  ASSUME IInv, MeantInv, Skip
  PROVE  MeantInv'
<1>1. /\ ad \in Seq(Byte) /\ pos \in Nat /\ pos < Len(ad) /\ ~ parsing /\ ~ done
      /\ Fits(At(pos)) /\ ~ IsTrigger(At(pos)) /\ pos' = pos + 1 + At(pos)
      /\ ad' = ad /\ heard' = heard /\ ~ parsing' /\ ~ done'
  BY DEF IInv, TypeOK, WalkInv, Skip, Walking, parserVars
<1>2. AfterStructure[pos] = pos' /\ AfterStructure[pos] <= Len(ad) /\ At(pos) # 0
  BY <1>1, Offsets DEF Fits
<1>3. pos \notin Meant
  BY <1>1, BeginsIsTrigger DEF Meant, Begins
<1>4. Walked(pos, heard)
  BY <1>1 DEF MeantInv
<1>5. PICK x : x = AfterStructure[pos]
  OBVIOUS
<1>6. PICK h : h = heard
  OBVIOUS
<1>7. Walked(x, h)
  BY <1>1, <1>2, <1>3, <1>4, <1>5, <1>6, NotMeant
<1>8. Walked(x, h)'
  BY <1>1, <1>7, SameAd
<1>9. x = pos' /\ h = heard'
  BY <1>1, <1>2, <1>5, <1>6
<1> QED BY <1>1, <1>8, <1>9 DEF MeantInv

LEMMA EnterMeant ==
  ASSUME IInv, MeantInv, Enter
  PROVE  MeantInv'
<1>1. /\ ad \in Seq(Byte) /\ pos \in Nat /\ pos < Len(ad) /\ ~ parsing /\ ~ done
      /\ Fits(At(pos)) /\ IsTrigger(At(pos)) /\ pos' = pos + 1 + At(pos)
      /\ i' = pos + 5 /\ packet_id' = None /\ moving' = None
      /\ ad' = ad /\ heard' = heard /\ parsing' /\ ~ done'
  BY DEF IInv, TypeOK, WalkInv, Enter, Walking
<1>2. At(pos) > 3 /\ At(pos) \in Byte
  BY <1>1, Offsets DEF IsTrigger
<1>3. Begins(pos) /\ AfterStructure[pos] = pos'
  BY <1>1, <1>2, BeginsIsTrigger, Offsets
<1>4. Walked(pos, heard)
  BY <1>1 DEF MeantInv
<1>5. pos \in Structures
  <2>1. pos <= Len(ad) - 1
    BY <1>1, StructuresInside
  <2> QED BY <1>4, <2>1 DEF Walked, Passed, Front
<1>6. PICK x, j, h, p : x = AfterStructure[pos] /\ j = pos + 5 /\ h = heard /\ p = pos
  OBVIOUS
<1>7. j <= x
  <2>1. PICK n \in Nat : n = At(pos) /\ n > 3
    BY <1>2 DEF Byte
  <2> QED BY <1>1, <1>3, <1>6, <2>1
<1>8. j \in ObjectsOf(p) /\ \A q \in ObjectsOf(p) : ~ (q < j)
  <2>1. p + 5 \in ObjectsOf(p) /\ ObjectsOf(p) \subseteq p + 5 .. x
    BY <1>1, <1>6, <1>7, ObjectsInside
  <2> QED BY <1>1, <1>6, <2>1
<1>9. Front(ObjectsOf(p), AfterObject, x, j)
  BY <1>8 DEF Front
<1>10. \A id : Found(p, j, id, None)
  BY <1>8 DEF Found
<1>11. Inside(x, j, None, None, h, p)
  BY <1>3, <1>4, <1>5, <1>6, <1>8, <1>9, <1>10 DEF Inside
<1>12. Inside(x, j, None, None, h, p)' /\ p \in Structures'
  BY <1>1, <1>5, <1>6, <1>11, SameAd
<1>13. x = pos' /\ j = i' /\ h = heard'
  BY <1>1, <1>3, <1>6
<1> QED BY <1>1, <1>12, <1>13 DEF MeantInv

LEMMA FinishMeant ==
  ASSUME IInv, MeantInv, Finish
  PROVE  MeantInv'
<1>1. /\ ~ parsing /\ ~ parsing' /\ ad' = ad /\ pos' = pos /\ heard' = heard
      /\ pos < Len(ad) => ~ Fits(At(pos))
  BY DEF Finish, parserVars
<1>2. PICK x, h : x = pos /\ h = heard
  OBVIOUS
<1>3. Walked(x, h)'
  BY <1>1, <1>2, SameAd DEF MeantInv
<1>4. pos' < Len(ad)' => ~ Fits(At(pos))'
  BY <1>1 DEF Fits, At
<1> QED BY <1>1, <1>2, <1>3, <1>4 DEF MeantInv

LEMMA ObjectMeant ==
  ASSUME IInv, MeantInv, Object
  PROVE  MeantInv'
<1>1. /\ ad \in Seq(Byte) /\ parsing /\ i < end /\ end = pos /\ Whole /\ ~ done
      /\ packet_id' = IF At(i) = PacketId THEN At(i + 1) ELSE packet_id
      /\ moving' = IF At(i) = Moving THEN At(i + 1) ELSE moving
      /\ i' = i + 1 + Needs[At(i)] /\ i \in Nat
      /\ ad' = ad /\ pos' = pos /\ heard' = heard /\ parsing' /\ ~ done'
  BY ObjectFits DEF IInv, WalkInv, Object
<1>2. PICK p \in Structures : Inside(pos, i, packet_id, moving, heard, p)
  BY <1>1 DEF MeantInv
<1>3. PICK x, h, y : x = pos /\ h = heard /\ y = AfterObject[i]
  OBVIOUS
<1>4. y = i' /\ y <= x
  <2>1. AfterObject[i] = i + 1 + Needs[At(i)]
    BY <1>1 DEF AfterObject, Whole
  <2> QED BY <1>1, <1>3, <2>1 DEF Whole
<1>5. PICK v, w : /\ v = IF At(i) = PacketId THEN At(i + 1) ELSE packet_id
                  /\ w = IF At(i) = Moving THEN At(i + 1) ELSE moving
  OBVIOUS
<1>6. Inside(x, y, v, w, h, p)
  BY <1>1, <1>2, <1>3, <1>4, <1>5, ObjectOn, Zenon
<1>7. Inside(x, y, v, w, h, p)' /\ p \in Structures'
  BY <1>1, <1>2, <1>6, SameAd
<1>8. x = pos' /\ y = i' /\ v = packet_id' /\ w = moving' /\ h = heard'
  BY <1>1, <1>3, <1>4, <1>5
<1> QED BY <1>1, <1>7, <1>8 DEF MeantInv

\* The structure that is being parsed is one the walk has passed.
LEMMA StructureUnderWay ==
  ASSUME ad \in Seq(Byte), NEW x, NEW j, NEW v, NEW w, NEW h, NEW p,
         Inside(x, j, v, w, h, p)
  PROVE  /\ Walked(p, h) /\ p < Len(ad) /\ At(p) # 0
         /\ AfterStructure[p] <= Len(ad) /\ AfterStructure[p] = x
<1>1. p \in Structures /\ Walked(p, h) /\ Begins(p) /\ AfterStructure[p] = x
  BY DEF Inside
<1>2. p < Len(ad)
  BY <1>1, StructuresInside
<1>3. At(p) # 0
  BY <1>1 DEF Begins
<1> QED BY <1>1, <1>2, <1>3 DEF Begins

LEMMA ParseErrorMeant ==
  ASSUME IInv, MeantInv, ParseError
  PROVE  MeantInv'
<1>1. /\ ad \in Seq(Byte) /\ parsing /\ i < end /\ end = pos /\ ~ Whole /\ ~ done
      /\ i \in Nat /\ pos \in Nat /\ Len(ad) \in Nat /\ pos <= Len(ad)
      /\ ad' = ad /\ pos' = pos /\ heard' = heard /\ ~ parsing' /\ ~ done'
  BY ObjectFits DEF IInv, WalkInv, ParseError
<1>2. PICK p \in Structures : Inside(pos, i, packet_id, moving, heard, p)
  BY <1>1 DEF MeantInv
<1>3. pos < AfterObject[i]
  <2>1. CASE At(i) \in DOMAIN Needs
    <3>1. AfterObject[i] = i + 1 + Needs[At(i)] /\ Needs[At(i)] \in Nat
      BY <1>1, <2>1, NeedsType DEF AfterObject
    <3>2. ~ (i + 1 + Needs[At(i)] <= pos)
      BY <1>1, <2>1 DEF Whole
    <3> QED BY <1>1, <3>1, <3>2
  <2>2. CASE At(i) \notin DOMAIN Needs
    <3>1. AfterObject[i] = i + 1 + Len(ad)
      BY <1>1, <2>2 DEF AfterObject
    <3> QED BY <1>1, <3>1
  <2> QED BY <2>1, <2>2
<1>4. p \notin Meant
  BY <1>1, <1>2, <1>3, ErrorMeansNothing
<1>5. PICK x, h : x = pos /\ h = heard
  OBVIOUS
<1>6. Walked(x, h)
  BY <1>1, <1>2, <1>4, <1>5, StructureUnderWay, NotMeant
<1>7. Walked(x, h)'
  BY <1>1, <1>6, SameAd
<1>8. x = pos' /\ h = heard'
  BY <1>1, <1>5
<1> QED BY <1>1, <1>7, <1>8 DEF MeantInv

LEMMA ParsedMeant ==
  ASSUME IInv, MeantInv, Parsed
  PROVE  MeantInv'
<1> DEFINE M == [packet_id : Byte, moving : Byte]
<1>1. /\ ad \in Seq(Byte) /\ parsing /\ i = end /\ end = pos /\ ~ done
      /\ heard' = IF packet_id # None /\ moving # None
                  THEN Append(heard, [packet_id |-> packet_id, moving |-> moving])
                  ELSE heard
      /\ packet_id \in Byte \cup {None} /\ moving \in Byte \cup {None}
      /\ heard \in Seq(M)
      /\ ad' = ad /\ pos' = pos /\ ~ parsing' /\ ~ done'
  BY DEF IInv, TypeOK, WalkInv, Parsed
<1>2. PICK p \in Structures : Inside(pos, pos, packet_id, moving, heard, p)
  BY <1>1 DEF MeantInv
<1>3. /\ p \in Meant <=> packet_id # None /\ moving # None
      /\ packet_id # None => packet_id = ValueOf(p, PacketId)
      /\ moving # None => moving = ValueOf(p, Moving)
  BY <1>1, <1>2, EndMeansFound
<1>4. /\ Walked(p, heard) /\ p < Len(ad) /\ At(p) # 0
      /\ AfterStructure[p] <= Len(ad) /\ AfterStructure[p] = pos
  BY <1>1, <1>2, StructureUnderWay
<1>5. PICK x, h : x = pos /\ h = heard'
  OBVIOUS
<1>6. Walked(x, h)
  <2>1. CASE packet_id # None /\ moving # None
    <3>1. PICK m : m = [packet_id |-> packet_id, moving |-> moving]
      OBVIOUS
    <3>2. m \in M
      BY <1>1, <2>1, <3>1
    <3>3. m = [packet_id |-> ValueOf(p, PacketId), moving |-> ValueOf(p, Moving)]
      BY <1>3, <2>1, <3>1
    <3>4. h = Append(heard, m) /\ p \in Meant
      BY <1>1, <1>3, <1>5, <2>1, <3>1
    <3> HIDE DEF M
    <3> QED BY <1>1, <1>4, <1>5, <3>2, <3>3, <3>4, NowMeant
  <2>2. CASE ~ (packet_id # None /\ moving # None)
    <3>1. h = heard /\ p \notin Meant
      BY <1>1, <1>3, <1>5, <2>2
    <3> QED BY <1>1, <1>4, <1>5, <3>1, NotMeant
  <2> QED BY <2>1, <2>2
<1>7. Walked(x, h)'
  BY <1>1, <1>6, SameAd
<1>8. x = pos' /\ h = heard'
  BY <1>1, <1>5
<1> QED BY <1>1, <1>7, <1>8 DEF MeantInv

LEMMA MeantInductive == IInv /\ MeantInv /\ [Next]_vars => MeantInv'
<1> SUFFICES ASSUME IInv, MeantInv, [Next]_vars PROVE MeantInv'
  OBVIOUS
<1>1. CASE UNCHANGED vars
  <2>1. /\ ad' = ad /\ pos' = pos /\ parsing' = parsing /\ i' = i /\ done' = done
        /\ packet_id' = packet_id /\ moving' = moving /\ heard' = heard
    BY <1>1 DEF vars, parserVars
  <2>2. PICK x, j, v, w, h : /\ x = pos /\ j = i /\ v = packet_id /\ w = moving
                             /\ h = heard
    OBVIOUS
  <2>3. ~ parsing => Walked(x, h)'
    BY <2>1, <2>2, SameAd DEF MeantInv
  <2>4. parsing => \E p \in Structures : Inside(x, j, v, w, h, p)
    BY <2>2 DEF MeantInv
  <2>5. parsing => \E p \in Structures' : Inside(x, j, v, w, h, p)'
    BY <2>1, <2>4, SameAd
  <2>6. (done /\ pos < Len(ad) => ~ Fits(At(pos)))'
    BY <2>1 DEF MeantInv, Fits, At
  <2> QED BY <2>1, <2>2, <2>3, <2>5, <2>6 DEF MeantInv
<1> QED BY <1>1, SkipMeant, EnterMeant, FinishMeant, ObjectMeant, ParseErrorMeant,
           ParsedMeant DEF Next

\* When the walk is over, nothing that an advertisement means is left.
LEMMA NothingLeft ==
  ASSUME IInv, MeantInv, done, NEW p \in Meant
  PROVE  p < pos
<1>1. /\ ad \in Seq(Byte) /\ Len(ad) \in Nat /\ ~ parsing /\ pos \in Nat
      /\ pos <= Len(ad) /\ Passed(pos)
      /\ pos < Len(ad) => ~ Fits(At(pos))
  BY DEF IInv, TypeOK, WalkInv, MeantInv, Walked
<1> SUFFICES ASSUME ~ (p < pos) PROVE FALSE
  OBVIOUS
<1>2. /\ p \in Structures /\ AfterStructure[p] <= Len(ad)
      /\ \A q \in Structures : q <= p => At(q) # 0
  BY DEF Meant
<1>3. p \in Nat /\ p <= Len(ad) - 1 /\ pos <= p
  BY <1>1, <1>2, StructuresInside
<1>4. pos < Len(ad) /\ pos \in Structures
  BY <1>1, <1>3 DEF Passed, Front
<1>5. At(pos) # 0 /\ ~ Fits(At(pos))
  BY <1>1, <1>2, <1>3, <1>4
<1>6. AfterStructure[pos] = pos + 1 + At(pos) /\ AfterStructure[pos] > Len(ad)
  <2>1. PICK n \in Byte : n = At(pos)
    BY <1>1, Offsets
  <2>2. AfterStructure[pos] = pos + 1 + n
    BY <1>1, <2>1, Offsets
  <2> QED BY <1>1, <1>5, <2>1, <2>2 DEF Fits, Byte
<1>7. \A q \in Structures : q < AfterStructure[pos] => q <= pos
  BY <1>1, <1>4, OneStructureOn
<1>8. AfterStructure[pos] \in Nat
  BY <1>1, Offsets
<1>9. p = pos
  BY <1>1, <1>2, <1>3, <1>6, <1>7, <1>8
<1> QED BY <1>1, <1>2, <1>6, <1>8, <1>9

\* gap_event_cb and parse_bthome hear all that an advertisement means, in order and
\* nothing else, whatever its bytes are (ble_scanner.c).
THEOREM AllIsHeard == Spec => []HeardIsMeant
<1>1. ASSUME IInv, MeantInv, done PROVE HeardIsMeant
  <2>1. HeardTo(pos, heard)
    BY <1>1 DEF MeantInv, Walked, IInv, WalkInv
  <2>2. {p \in Meant : p < pos} = Meant
    BY <1>1, NothingLeft
  <2> QED BY <1>1, <2>1, <2>2, NothingLeft DEF HeardTo, HeardIsMeant
<1>2. IInv /\ MeantInv => HeardIsMeant
  BY <1>1 DEF HeardIsMeant
<1> QED BY <1>2, Invariance, MeantInitially, MeantInductive, PTL DEF Spec
=============================================================================
