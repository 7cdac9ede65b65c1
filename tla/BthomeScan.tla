----------------------------- MODULE BthomeScan -----------------------------
(***************************************************************************)
(* How a gateway reads one advertisement: the walk over its structures     *)
(* (gap_event_cb in gateway/main/ble_scanner.c), the walk over the objects *)
(* of a BTHome payload (parse_bthome, up to its deduplication), and the    *)
(* advertisement as the mote composes it (mote/src/main.c).                *)
(*                                                                         *)
(* An advertisement is a sequence of bytes from anyone.  Offsets count     *)
(* from zero, as in the code.                                              *)
(***************************************************************************)
EXTENDS Integers, Sequences, FiniteSets

CONSTANTS
    Ads,        \* the advertisements received
    Name,       \* the name a mote advertises
    None        \* no value

Byte == 0 .. 255

ASSUME ScanAssumption ==
    /\ Ads \subseteq Seq(Byte) /\ Name \in Seq(Byte)
    /\ None \notin Byte

ServiceData == 22               \* AD type 0x16
Uuid == <<210, 252>>            \* 0xFCD2, little-endian
Trigger == 68                   \* BTHOME_DEVINFO_V2_TRIGGER
PacketId == 0
Moving == 34                    \* 0x22

VARIABLES
    ad,         \* the advertisement
    pos,        \* offset of the next structure
    parsing,    \* parse_bthome runs
    i, end,     \* its next object, and where its data ends
    packet_id, moving,  \* the values found, or None
    heard,      \* what parse_bthome found complete, oldest first
    done,       \* gap_event_cb returned
    reads       \* history: the offsets the last step read

parserVars == <<parsing, i, end, packet_id, moving>>
vars == <<ad, pos, parserVars, heard, done, reads>>

TypeOK ==
    /\ pos \in 0 .. Len(ad)
    /\ parsing \in BOOLEAN /\ done \in BOOLEAN
    /\ end \in 0 .. Len(ad) /\ i \in 0 .. end
    /\ packet_id \in Byte \cup {None} /\ moving \in Byte \cup {None}
    /\ heard \in Seq([packet_id : Byte, moving : Byte])

Init ==
    /\ ad \in Ads
    /\ pos = 0
    /\ parsing = FALSE /\ i = 0 /\ end = 0
    /\ packet_id = None /\ moving = None
    /\ heard = <<>>
    /\ done = FALSE
    /\ reads = {}

\* What memory holds behind the advertisement is not known; zero stands for it.
At(o) == IF o < Len(ad) THEN ad[o + 1] ELSE 0

-----------------------------------------------------------------------------
(* The mote's side: fill_bthome_payload and the advertisement around it.    *)

Structure(type, data) == <<Len(data) + 1, type>> \o data

Payload(pid, motion) ==
    Uuid \o <<Trigger, PacketId, pid, Moving, IF motion THEN 1 ELSE 0>>

\* Flags, name, service data.
MoteAd(pid, motion) ==
    Structure(1, <<6>>) \o Structure(9, Name)
                        \o Structure(ServiceData, Payload(pid, motion))
MoteAds == {MoteAd(pid, motion) : pid \in Byte, motion \in BOOLEAN}

-----------------------------------------------------------------------------
(* gap_event_cb.                                                            *)

Walking == ~done /\ ~parsing /\ pos < Len(ad)

\* Variant: a structure may reach one byte beyond the advertisement.
FitsOneMore(len) == len # 0 /\ pos + len <= Len(ad)

Fits(len) == len # 0 /\ pos + 1 + len <= Len(ad)

\* Variant: the bytes of the UUID are swapped.
IsBthomeSwapped(len) ==
    /\ At(pos + 1) = ServiceData
    /\ len >= 3
    /\ <<At(pos + 3), At(pos + 2)>> = Uuid

\* A service data structure of BTHome.  The bytes of the UUID are read only if
\* the structure is long enough.
IsBthome(len) ==
    /\ At(pos + 1) = ServiceData
    /\ len >= 3
    /\ <<At(pos + 2), At(pos + 3)>> = Uuid

\* parse_bthome refuses another device info and an empty payload at once.
IsTrigger(len) == IsBthome(len) /\ len > 3 /\ At(pos + 4) = Trigger

ReadsOfHeader(len) ==
    {pos, pos + 1}
    \cup (IF At(pos + 1) = ServiceData /\ len >= 3 THEN {pos + 2, pos + 3} ELSE {})
    \cup (IF IsBthome(len) /\ len > 3 THEN {pos + 4} ELSE {})

\* Variant: the walk does not advance.
SkipStays ==
    /\ Walking /\ Fits(At(pos)) /\ ~IsTrigger(At(pos))
    /\ reads' = ReadsOfHeader(At(pos))
    /\ UNCHANGED <<ad, pos, parserVars, heard, done>>

Skip ==
    /\ Walking /\ Fits(At(pos)) /\ ~IsTrigger(At(pos))
    /\ pos' = pos + 1 + At(pos)
    /\ reads' = ReadsOfHeader(At(pos))
    /\ UNCHANGED <<ad, parserVars, heard, done>>

Enter ==
    /\ Walking /\ Fits(At(pos)) /\ IsTrigger(At(pos))
    /\ parsing' = TRUE
    /\ i' = pos + 5 /\ end' = pos + 1 + At(pos)
    /\ pos' = pos + 1 + At(pos)
    /\ packet_id' = None /\ moving' = None
    /\ reads' = ReadsOfHeader(At(pos))
    /\ UNCHANGED <<ad, heard, done>>

\* The end, or a structure that is empty or does not fit.
Finish ==
    /\ ~done /\ ~parsing
    /\ pos < Len(ad) => ~Fits(At(pos))
    /\ done' = TRUE
    /\ reads' = IF pos < Len(ad) THEN {pos} ELSE {}
    /\ UNCHANGED <<ad, pos, parserVars, heard>>

-----------------------------------------------------------------------------
(* parse_bthome.                                                            *)

\* The bytes of the objects that the code knows.
Needs == [o \in {PacketId, Moving, 44, 62} |-> IF o = 62 THEN 4 ELSE 1]

\* Variant: an object may reach one byte beyond the payload.
WholeOneMore == At(i) \in DOMAIN Needs /\ i + Needs[At(i)] <= end

Whole == At(i) \in DOMAIN Needs /\ i + 1 + Needs[At(i)] <= end

Object ==
    /\ parsing /\ i < end /\ Whole
    /\ packet_id' = IF At(i) = PacketId THEN At(i + 1) ELSE packet_id
    /\ moving' = IF At(i) = Moving THEN At(i + 1) ELSE moving
    /\ reads' = {i} \cup (IF At(i) \in {PacketId, Moving} THEN {i + 1} ELSE {})
    /\ i' = i + 1 + Needs[At(i)]
    /\ UNCHANGED <<ad, pos, parsing, end, heard, done>>

\* parse_err: nothing of the payload counts.
ParseError ==
    /\ parsing /\ i < end /\ ~Whole
    /\ parsing' = FALSE
    /\ reads' = {i}
    /\ UNCHANGED <<ad, pos, i, end, packet_id, moving, heard, done>>

\* Variant: a payload without "moving" counts.
ParsedWithoutMoving ==
    /\ parsing /\ i = end
    /\ heard' = IF packet_id # None
                THEN Append(heard, [packet_id |-> packet_id,
                                    moving |-> IF moving = None THEN 0 ELSE moving])
                ELSE heard
    /\ parsing' = FALSE
    /\ reads' = {}
    /\ UNCHANGED <<ad, pos, i, end, packet_id, moving, done>>

Parsed ==
    /\ parsing /\ i = end
    /\ heard' = IF packet_id # None /\ moving # None
                THEN Append(heard, [packet_id |-> packet_id, moving |-> moving])
                ELSE heard
    /\ parsing' = FALSE
    /\ reads' = {}
    /\ UNCHANGED <<ad, pos, i, end, packet_id, moving, done>>

-----------------------------------------------------------------------------
Next == Skip \/ Enter \/ Finish \/ Object \/ ParseError \/ Parsed

Spec == Init /\ [][Next]_vars /\ WF_vars(Next)
-----------------------------------------------------------------------------
(* Properties.                                                              *)

\* Whatever the lengths in an advertisement say, a step reads only bytes of the
\* structure it has taken, and none behind the advertisement.
ReadsInBounds == \A o \in reads : o < Len(ad) /\ (o < pos \/ done)

\* The offsets between "from" and "to" that are reached from the first by "next".
Reached(from, to, next) ==
    LET reached[o \in from .. to] ==
            o = from \/ \E q \in from .. o - 1 : next[q] = o /\ reached[q]
    IN  {o \in from .. to : reached[o]}

\* What an advertisement means, told without walking it: the structures of
\* BTHome in it whose objects fill their payload and include both values.
AfterStructure == [p \in Nat |-> p + 1 + At(p)]
AfterObject ==
    [o \in Nat |-> o + 1 + IF At(o) \in DOMAIN Needs THEN Needs[At(o)] ELSE Len(ad)]
Structures == Reached(0, Len(ad) - 1, AfterStructure)
ObjectsOf(p) == Reached(p + 5, AfterStructure[p], AfterObject)
Holders(p, id) == {o \in ObjectsOf(p) : o < AfterStructure[p] /\ At(o) = id}
Greatest(S) == CHOOSE o \in S : \A q \in S : q <= o
ValueOf(p, id) == At(Greatest(Holders(p, id)) + 1)

Meant ==
    {p \in Structures :
        /\ \A q \in Structures : q <= p => At(q) # 0
        /\ At(p) > 3 /\ AfterStructure[p] <= Len(ad)
        /\ At(p + 1) = ServiceData /\ <<At(p + 2), At(p + 3)>> = Uuid
        /\ At(p + 4) = Trigger
        /\ AfterStructure[p] \in ObjectsOf(p)
        /\ Holders(p, PacketId) # {} /\ Holders(p, Moving) # {}}

\* The place of a structure among those with a meaning.
Place(p) == Cardinality({q \in Meant : q <= p})

\* The scanner hears what an advertisement means, all of it, in order and nothing
\* else, though it stops at the first error and keeps what it has found until then.
HeardIsMeant ==
    done => /\ Len(heard) = Cardinality(Meant)
            /\ \A p \in Meant :
                 heard[Place(p)] = [packet_id |-> ValueOf(p, PacketId),
                                    moving |-> ValueOf(p, Moving)]

\* A gateway understands what a mote sends: the packet id and whether the mote
\* moved, as fill_bthome_payload was told.
MoteIsHeard ==
    done /\ ad \in MoteAds =>
        \E pid \in Byte, motion \in BOOLEAN :
            /\ ad = MoteAd(pid, motion)
            /\ heard = <<[packet_id |-> pid, moving |-> IF motion THEN 1 ELSE 0]>>

\* The walk ends on every advertisement.
WalkEnds == <>done
=============================================================================
