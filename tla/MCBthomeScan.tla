---------------------------- MODULE MCBthomeScan ----------------------------
(* Advertisements for the run of BthomeScan: those of motes, and service    *)
(* data with any few bytes as objects, a length that may lie, another UUID  *)
(* or device info, between other structures or cut short.                   *)
EXTENDS BthomeScan

MCName == <<83, 210>>

Bytes == {0, 1, 34, 62}
Bodies == UNION {[1 .. n -> Bytes] : n \in 0 .. 4}
Longer == {<<62, 0, 0, 34, 34, 0, 9, 34, 0>>, <<0, 5, 34, 1, 62, 0, 1, 2>>,
           <<0, 5, 0, 6, 34, 0, 34, 1>>, <<44, 9, 34, 1, 0, 255>>}

Data(body) == {Uuid \o <<Trigger>> \o body}
Odd == {<<>>, <<210>>, <<252, 210, Trigger>>, Uuid, Uuid \o <<64, 0, 1, 34, 1>>}

\* A structure whose length is off by "off".
Lying(type, data, off) == <<Len(data) + 1 + off, type>> \o data

Before == {<<>>, Structure(1, <<6>>), <<0>>}
Behind == {<<>>, Structure(ServiceData, Payload(7, TRUE))}

MCAds ==
    MoteAds
    \cup {before \o Lying(ServiceData, data, off) \o behind :
            before \in Before, behind \in Behind, off \in {0 - 1, 0, 1},
            data \in Odd \cup UNION {Data(body) : body \in Bodies \cup Longer}}
    \cup {SubSeq(MoteAd(9, TRUE), 1, n) : n \in 0 .. 16}
=============================================================================
