-------------------------- MODULE BackendFeedProofs --------------------------
(***************************************************************************)
(* Theorems about BackendFeed, for any number of gateways and of browsers  *)
(* and every bound.                                                        *)
(***************************************************************************)
EXTENDS BackendFeed, SequenceTheorems, FiniteSetTheorems, WellFoundedInduction,
        NaturalsInduction, TLAPS

Scheduled == EventMsgs \cup GatewayMsgs \cup TransportMsgs
Sent == EventMsgs \cup StatusMsgs \cup TransportMsgs

\* The coroutines the MQTT thread has yet to schedule for its frame.
Unscheduled ==
    IF mq.todo = "idle" THEN 0 ELSE IF mq.todo = "emit_event" THEN 2 ELSE 1

\* A frame is accepted only with room for all its broadcasts.
QueueInv == Len(ready) + Unscheduled <= MaxPending + 1

\* The MQTT thread works for a gateway, or for the connection.
MqInv == mq.todo \in {"emit_event", "touch", "emit_gateway"} => mq.gw \in Gateways

\* The reaper has something to tell of, or nothing; it awaits one broadcast.
ReaperInv ==
    /\ reaper.at = "emit" => reaper.todo # {}
    /\ reaper.at \in {"sleep", "dead"} => reaper.todo = {}
    /\ reaper.at = "emitting" <=> \E i \in DOMAIN tasks : tasks[i].byReaper
    /\ \A i, j \in DOMAIN tasks :
         tasks[i].byReaper /\ tasks[j].byReaper => i = j

\* A client a broadcast has found dead is gone, and has not come back.
DeadInv == \A i \in DOMAIN tasks : \A c \in tasks[i].dead : conn[c] = "gone"

IInv == TypeOK /\ QueueInv /\ MqInv /\ ReaperInv /\ DeadInv /\ OpenIsServed

-----------------------------------------------------------------------------
(* Sequences: what is in a sequence after an append, a tail, a removal.     *)

LEMMA Appended ==
  ASSUME NEW S, NEW s \in Seq(S), NEW x \in S
  PROVE  /\ Append(s, x) \in Seq(S)
         /\ DOMAIN Append(s, x) = 1 .. Len(s) + 1
         /\ DOMAIN s = 1 .. Len(s) /\ Len(s) \in Nat
         /\ Len(Append(s, x)) = Len(s) + 1
         /\ \A i \in DOMAIN s : Append(s, x)[i] = s[i]
         /\ Append(s, x)[Len(s) + 1] = x
<1>1. /\ Append(s, x) \in Seq(S)
      /\ DOMAIN Append(s, x) = 1 .. Len(s) + 1
      /\ DOMAIN s = 1 .. Len(s) /\ Len(s) \in Nat
      /\ Len(Append(s, x)) = Len(s) + 1
  OBVIOUS
<1>2. /\ \A i \in DOMAIN s : Append(s, x)[i] = s[i]
      /\ Append(s, x)[Len(s) + 1] = x
  OBVIOUS
<1> QED BY <1>1, <1>2, Zenon

LEMMA Tailed ==
  ASSUME NEW S, NEW s \in Seq(S), s # <<>>
  PROVE  /\ Head(s) \in S /\ Head(s) = s[1] /\ Tail(s) \in Seq(S)
         /\ DOMAIN s = 1 .. Len(s) /\ Len(s) \in Nat \ {0}
         /\ Len(Tail(s)) = Len(s) - 1
         /\ DOMAIN Tail(s) = 1 .. Len(s) - 1
         /\ \A i \in 1 .. Len(s) - 1 : Tail(s)[i] = s[i + 1]
<1>1. /\ Head(s) \in S /\ Tail(s) \in Seq(S) /\ Len(Tail(s)) = Len(s) - 1
      /\ \A i \in 1 .. Len(Tail(s)) : Tail(s)[i] = s[i + 1]
  BY HeadTailProperties, Zenon
<1>2. DOMAIN s = 1 .. Len(s) /\ DOMAIN Tail(s) = 1 .. Len(Tail(s))
  BY <1>1, LenProperties, Zenon
<1>3. Len(s) \in Nat \ {0}
  BY EmptySeq, Zenon
<1>4. Head(s) = s[1]
  OBVIOUS
<1> QED BY <1>1, <1>2, <1>3, <1>4, Zenon

\* Place j of a sequence without its element i was place Before(i, j).
Before(i, j) == IF j < i THEN j ELSE j + 1

LEMMA Removed ==
  ASSUME NEW S, NEW s \in Seq(S), NEW i \in DOMAIN s
  PROVE  /\ RemoveAt(s, i) \in Seq(S)
         /\ DOMAIN s = 1 .. Len(s) /\ Len(s) \in Nat
         /\ DOMAIN RemoveAt(s, i) = 1 .. Len(s) - 1
         /\ \A j \in DOMAIN RemoveAt(s, i) :
              Before(i, j) \in DOMAIN s \ {i} /\ RemoveAt(s, i)[j] = s[Before(i, j)]
         /\ \A j, k \in DOMAIN RemoveAt(s, i) : j < k => Before(i, j) < Before(i, k)
         /\ \A k \in DOMAIN s \ {i} :
              \E j \in DOMAIN RemoveAt(s, i) : k = Before(i, j)
<1> DEFINE n == Len(s)
           a == SubSeq(s, 1, i - 1)
           b == SubSeq(s, i + 1, n)
           r == RemoveAt(s, i)
<1>1. DOMAIN s = 1 .. n /\ n \in Nat /\ i \in 1 .. n
  OBVIOUS
<1>4. /\ a \in Seq(S) /\ Len(a) = i - 1
      /\ \A j \in 1 .. i - 1 : a[j] = s[j]
  BY <1>1
<1>5. /\ b \in Seq(S) /\ Len(b) = n - i
      /\ \A j \in 1 .. n - i : b[j] = s[i + j]
  BY <1>1
<1>6. r = a \o b
  BY DEF RemoveAt
<1> HIDE DEF a, b, r, n
<1>7. /\ r \in Seq(S) /\ Len(r) = Len(a) + Len(b)
      /\ \A j \in 1 .. Len(a) + Len(b) :
           r[j] = IF j <= Len(a) THEN a[j] ELSE b[j - Len(a)]
  BY <1>4, <1>5, <1>6
<1>8. DOMAIN r = 1 .. Len(r)
  BY <1>7
<1>9. Len(r) = n - 1
  BY <1>1, <1>4, <1>5, <1>7
<1>10. \A j \in 1 .. n - 1 : r[j] = s[Before(i, j)]
  <2> TAKE j \in 1 .. n - 1
  <2>1. r[j] = IF j <= i - 1 THEN a[j] ELSE b[j - (i - 1)]
    BY <1>1, <1>4, <1>5, <1>7, SMT
  <2>2. CASE j < i
    <3>1. r[j] = a[j] /\ a[j] = s[j]
      BY <1>1, <1>4, <2>1, <2>2, SMT
    <3> QED BY <2>2, <3>1, SMT DEF Before
  <2>3. CASE ~(j < i)
    <3>1. /\ r[j] = b[j - (i - 1)] /\ i + (j - (i - 1)) = j + 1
          /\ b[j - (i - 1)] = s[i + (j - (i - 1))]
      BY <1>1, <1>5, <2>1, <2>3, SMT
    <3> QED BY <2>3, <3>1, SMT DEF Before
  <2> QED BY <2>2, <2>3
<1>11. \A j \in 1 .. n - 1 : Before(i, j) \in 1 .. n /\ Before(i, j) # i
  BY <1>1, SMT DEF Before
<1>12. \A j, k \in 1 .. n - 1 : j < k => Before(i, j) < Before(i, k)
  BY <1>1, SMT DEF Before
<1>13. \A k \in 1 .. n : k # i => \E j \in 1 .. n - 1 : k = Before(i, j)
  <2> SUFFICES ASSUME NEW k \in 1 .. n, k # i
               PROVE  \E j \in 1 .. n - 1 : k = Before(i, j)
    OBVIOUS
  <2>1. CASE k < i
    <3>1. k \in 1 .. n - 1 /\ k = Before(i, k)
      BY <1>1, <2>1, SMT DEF Before
    <3> QED BY <3>1
  <2>2. CASE k > i
    <3>1. k - 1 \in 1 .. n - 1 /\ k = Before(i, k - 1)
      BY <1>1, <2>2, SMT DEF Before
    <3> QED BY <3>1
  <2> QED BY <1>1, <2>1, <2>2, SMT
<1>14. DOMAIN r = 1 .. n - 1
  BY <1>8, <1>9, Zenon
<1>15. /\ r \in Seq(S) /\ DOMAIN s = 1 .. n /\ n \in Nat
       /\ \A j \in DOMAIN r : Before(i, j) \in DOMAIN s \ {i}
                              /\ r[j] = s[Before(i, j)]
       /\ \A j, k \in DOMAIN r : j < k => Before(i, j) < Before(i, k)
       /\ \A k \in DOMAIN s \ {i} : \E j \in DOMAIN r : k = Before(i, j)
  BY <1>1, <1>7, <1>10, <1>11, <1>12, <1>13, <1>14, Zenon
<1> QED BY <1>14, <1>15, Zenon DEF r, n

\* The least of a set of clients.
LEMMA FirstIsLeast ==
  ASSUME NEW S, S \subseteq Nat, S # {}
  PROVE  First(S) \in S /\ \A d \in S : First(S) <= d
<1>1. PICK x \in S : \A y \in S : ~(<<y, x>> \in OpToRel(<, Nat))
  BY WFMin, NatLessThanWellFounded, Zenon
<1>2. \A y \in S : ~(y < x)
  BY <1>1, Zenon DEF OpToRel
<1>3. \A y \in S : x <= y
  BY <1>2
<1> QED BY <1>3, Zenon DEF First

-----------------------------------------------------------------------------
(* Messages and pages.                                                      *)

Views == [total : Nat, events : Seq(Nat), online : [Gateways -> BOOLEAN],
          broker : BOOLEAN]

\* A message has one kind.
LEMMA Kinds ==
  /\ \A m \in EventMsgs : m \notin GatewayMsgs /\ m \notin TransportMsgs
                          /\ m \notin StatusMsgs
  /\ \A m \in GatewayMsgs : m \notin TransportMsgs /\ m \notin StatusMsgs
  /\ \A m \in StatusMsgs : m \notin TransportMsgs
<1>1. \A m \in EventMsgs : DOMAIN m = {"event"}
  BY Zenon DEF EventMsgs
<1>2. \A m \in GatewayMsgs : DOMAIN m = {"gateway"}
  BY Zenon DEF GatewayMsgs
<1>3. \A m \in TransportMsgs : DOMAIN m = {"connected"}
  BY Zenon DEF TransportMsgs
<1>4. \A m \in StatusMsgs : DOMAIN m = {"gateway", "online"}
  BY Zenon DEF StatusMsgs
<1>5. /\ {"event"} # {"gateway"} /\ {"event"} # {"connected"}
      /\ {"event"} # {"gateway", "online"} /\ {"gateway"} # {"connected"}
      /\ {"gateway"} # {"gateway", "online"}
      /\ {"gateway", "online"} # {"connected"}
  OBVIOUS
<1> QED BY <1>1, <1>2, <1>3, <1>4, <1>5, Zenon

LEMMA FirstOfType ==
  ASSUME NEW list \in Seq(Nat)
  PROVE  FirstOf(list) \in Seq(Nat) /\ Len(FirstOf(list)) <= Keep
<1> DEFINE n == Min({Keep, Len(list)})
<1>1. Keep \in Nat /\ Len(list) \in Nat
  BY FeedAssumption
<1>2. n = IF Keep <= Len(list) THEN Keep ELSE Len(list)
  BY <1>1, SMT DEF Min
<1>3. n \in 0 .. Len(list) /\ n <= Keep
  BY <1>1, <1>2
<1>4. FirstOf(list) = SubSeq(list, 1, n)
  BY DEF FirstOf
<1> HIDE DEF n
<1> QED BY <1>3, <1>4

\* What the page makes of each kind of message.
LEMMA AppliedEvent ==
  ASSUME NEW v \in Views, NEW m \in EventMsgs
  PROVE  /\ Apply(v, m) \in Views
         /\ Apply(v, m).total = v.total + 1
         /\ Apply(v, m).events = FirstOf(<<m.event>> \o v.events)
         /\ Apply(v, m).online = v.online
         /\ Apply(v, m).broker = v.broker
<1> DEFINE n == v.total + 1
           f == FirstOf(<<m.event>> \o v.events)
<1>1. /\ v.total \in Nat /\ v.events \in Seq(Nat) /\ m.event \in Nat
      /\ <<m.event>> \o v.events \in Seq(Nat)
  BY DEF Views, EventMsgs
<1>2. n \in Nat /\ f \in Seq(Nat)
  <2>1. n \in Nat
    BY <1>1
  <2>2. f \in Seq(Nat)
    BY <1>1, FirstOfType, Zenon
  <2> QED BY <2>1, <2>2
<1>3. Apply(v, m) = [v EXCEPT !.total = n, !.events = f]
  BY Zenon DEF Apply
<1> HIDE DEF n, f
<1>4. Apply(v, m) \in Views
  BY <1>2, <1>3, Zenon DEF Views
<1>5. /\ Apply(v, m).total = n /\ Apply(v, m).events = f
      /\ Apply(v, m).online = v.online
  BY <1>3, SMT DEF Views
<1>6. Apply(v, m).broker = v.broker
  BY <1>3, SMT DEF Views
<1> QED BY <1>4, <1>5, <1>6, Zenon DEF n, f

LEMMA AppliedStatus ==
  ASSUME NEW v \in Views, NEW m \in StatusMsgs
  PROVE  /\ Apply(v, m) \in Views
         /\ Apply(v, m).total = v.total
         /\ Apply(v, m).events = v.events
         /\ Apply(v, m).online = [v.online EXCEPT ![m.gateway] = m.online]
         /\ Apply(v, m).broker = v.broker
<1> DEFINE o == [v.online EXCEPT ![m.gateway] = m.online]
<1>1. m \notin EventMsgs /\ m \notin TransportMsgs
  BY Kinds, Zenon
<1>2. m.gateway \in Gateways /\ m.online \in BOOLEAN
  BY Zenon DEF StatusMsgs
<1>3. v.online \in [Gateways -> BOOLEAN]
  BY Zenon DEF Views
<1>4. o \in [Gateways -> BOOLEAN]
  BY <1>2, <1>3, Zenon
<1>5. Apply(v, m) = [v EXCEPT !.online = o]
  BY <1>1, Zenon DEF Apply, Show
<1> HIDE DEF o
<1>6. Apply(v, m) \in Views
  BY <1>4, <1>5, SMT DEF Views
<1>7. /\ Apply(v, m).total = v.total /\ Apply(v, m).events = v.events
      /\ Apply(v, m).online = o
  BY <1>5, SMT DEF Views
<1>8. Apply(v, m).broker = v.broker
  BY <1>5, SMT DEF Views
<1> QED BY <1>6, <1>7, <1>8, Zenon DEF o

LEMMA AppliedTransport ==
  ASSUME NEW v \in Views, NEW m \in TransportMsgs
  PROVE  /\ Apply(v, m) \in Views
         /\ Apply(v, m).total = v.total
         /\ Apply(v, m).events = v.events
         /\ Apply(v, m).online = v.online
         /\ Apply(v, m).broker = m.connected
<1> DEFINE b == m.connected
<1>1. m \notin EventMsgs
  BY Kinds, Zenon
<1>2. b \in BOOLEAN
  BY Zenon DEF TransportMsgs
<1>3. Apply(v, m) = [v EXCEPT !.broker = b]
  BY <1>1, Zenon DEF Apply, Show
<1> HIDE DEF b
<1>4. Apply(v, m) \in Views
  BY <1>2, <1>3, SMT DEF Views
<1>5. /\ Apply(v, m).total = v.total /\ Apply(v, m).events = v.events
      /\ Apply(v, m).online = v.online
  BY <1>3, SMT DEF Views
<1>6. Apply(v, m).broker = b
  BY <1>2, <1>3, SMT DEF Views
<1> QED BY <1>4, <1>5, <1>6, Zenon DEF b

LEMMA AppliedOther ==
  ASSUME NEW v \in Views, NEW m \in Sent, m \notin EventMsgs
  PROVE  Apply(v, m).total = v.total /\ Apply(v, m).events = v.events
<1>1. m \in StatusMsgs \/ m \in TransportMsgs
  BY DEF Sent
<1> QED BY <1>1, AppliedStatus, AppliedTransport, Zenon

LEMMA ApplyType ==
  ASSUME NEW v \in Views, NEW m \in Sent
  PROVE  Apply(v, m) \in Views
  BY AppliedEvent, AppliedStatus, AppliedTransport, Zenon DEF Sent

-----------------------------------------------------------------------------
(* What the loop does to the broadcasts and the pages.                      *)

LEMMA ClientsAreNumbers ==
  /\ Clients \subseteq Nat \ {0} /\ NClients \in Nat
  /\ IsFiniteSet(Clients) /\ Cardinality(Clients) = NClients
<1>1. NClients \in Nat
  BY FeedAssumption
<1>2. Clients \subseteq Nat \ {0}
  BY <1>1 DEF Clients
<1>3. 1 \in Int /\ NClients \in Int
  BY <1>1
<1>4. IsFiniteSet(1 .. NClients)
      /\ Cardinality(1 .. NClients) = IF 1 > NClients THEN 0 ELSE NClients - 1 + 1
  BY <1>3, FS_Interval, Zenon
<1>5. Cardinality(Clients) = NClients
  BY <1>1, <1>4 DEF Clients
<1> QED BY <1>1, <1>2, <1>4, <1>5 DEF Clients

LEMMA TakersAreClients ==
  ASSUME TypeOK, NEW pos
  PROVE  /\ Takers(pos) \subseteq Clients /\ Takers(pos) \subseteq Nat
         /\ Takers(pos) \subseteq ws_clients
         /\ Failing(pos) \subseteq Clients
         /\ \A c \in Takers(pos) : c > pos /\ conn[c] = "open"
         /\ \A c \in Failing(pos) : conn[c] = "gone"
  BY ClientsAreNumbers DEF TypeOK, Takers, After, Failing

LEMMA SizeIsClient ==
  ASSUME TypeOK, ws_clients # {}
  PROVE  Cardinality(ws_clients) \in Clients
<1>1. ws_clients \in SUBSET Clients
  BY DEF TypeOK
<1>2. IsFiniteSet(ws_clients) /\ Cardinality(ws_clients) <= Cardinality(Clients)
  BY <1>1, ClientsAreNumbers, FS_Subset, Zenon
<1>3. Cardinality(ws_clients) \in Nat
  BY <1>2, FS_CardinalityType, Zenon
<1>4. Cardinality(ws_clients) # 0
  BY <1>2, FS_EmptySet, Zenon
<1> QED BY <1>2, <1>3, <1>4, ClientsAreNumbers DEF Clients

LEMMA SentType ==
  ASSUME TypeOK, NEW m \in Scheduled
  PROVE  /\ AsSent(m) \in Sent
         /\ m \in GatewayMsgs =>
              /\ AsSent(m) \in StatusMsgs
              /\ AsSent(m).gateway = m.gateway
              /\ AsSent(m).online = online[m.gateway]
         /\ m \notin GatewayMsgs => AsSent(m) = m
<1>1. CASE m \in GatewayMsgs
  <2>1. m.gateway \in Gateways
    BY <1>1 DEF GatewayMsgs
  <2> DEFINE o == online[m.gateway]
             g == m.gateway
  <2>2. o \in BOOLEAN /\ g \in Gateways
    BY <2>1 DEF TypeOK
  <2>3. AsSent(m) = [gateway |-> g, online |-> o]
    BY <1>1, Zenon DEF AsSent
  <2> HIDE DEF o, g
  <2>4. AsSent(m) \in StatusMsgs
    <3>1. [gateway |-> g, online |-> o] \in StatusMsgs
      BY <2>2, SMT DEF StatusMsgs
    <3> QED BY <2>3, <3>1, Zenon
  <2>5. AsSent(m).gateway = g /\ AsSent(m).online = o
    BY <2>2, <2>3, SMT
  <2> QED BY <1>1, <2>4, <2>5, Zenon DEF Sent, o, g
<1>2. CASE m \notin GatewayMsgs
  <2>1. AsSent(m) = m
    BY <1>2 DEF AsSent
  <2> QED BY <1>2, <2>1 DEF Scheduled, Sent
<1> QED BY <1>1, <1>2

LEMMA ViewType ==
  ASSUME TypeOK, NEW c \in Clients, NEW m \in Sent,
         view' = [view EXCEPT ![c] = Apply(view[c], m)]
  PROVE  /\ view' \in [Clients -> Views]
         /\ view'[c] = Apply(view[c], m)
         /\ \A d \in Clients \ {c} : view'[d] = view[d]
         /\ \A d \in Clients : view[d] \in Views
<1>1. view \in [Clients -> Views]
  BY DEF TypeOK, Views
<1>2. Apply(view[c], m) \in Views
  BY <1>1, ApplyType, Zenon
<1> QED BY <1>1, <1>2, Zenon

\* A broadcast begins with the first client that takes the message.
LEMMA BeginEffect ==
  ASSUME TypeOK, NEW m \in Scheduled, NEW b \in BOOLEAN, Begin(m, b)
  PROVE  \E c \in Takers(0), k \in Tasks :
           /\ \A d \in Takers(0) : c <= d
           /\ k.msg = AsSent(m) /\ k.pos = c
           /\ k.size = Cardinality(ws_clients) /\ k.dead = Failing(0)
           /\ k.byReaper = b
           /\ tasks' = Append(tasks, k)
           /\ view' = [view EXCEPT ![c] = Apply(view[c], AsSent(m))]
           /\ ws_clients' = ws_clients
<1> DEFINE c == First(Takers(0))
           k == [msg |-> AsSent(m), pos |-> c, size |-> Cardinality(ws_clients),
                 dead |-> Failing(0), byReaper |-> b]
<1>1. Takers(0) # {}
  BY DEF Begin
<1>2. c \in Takers(0) /\ \A d \in Takers(0) : c <= d
  BY <1>1, TakersAreClients, FirstIsLeast, Zenon
<1>3. c \in Clients /\ Failing(0) \in SUBSET Clients /\ ws_clients # {}
  BY <1>2, TakersAreClients
<1>4. Cardinality(ws_clients) \in Clients /\ AsSent(m) \in Sent
  BY <1>3, SizeIsClient, SentType, Zenon
<1>5. k \in Tasks
  BY <1>3, <1>4, Zenon DEF Tasks, Sent
<1>6. tasks' = Append(tasks, k) /\ ws_clients' = ws_clients
      /\ view' = [view EXCEPT ![c] = Apply(view[c], AsSent(m))]
  BY Zenon DEF Begin, Send
<1>7. /\ k.msg = AsSent(m) /\ k.pos = c
      /\ k.size = Cardinality(ws_clients) /\ k.dead = Failing(0)
      /\ k.byReaper = b
  BY Zenon
<1> HIDE DEF k, c
<1> QED BY <1>2, <1>5, <1>6, <1>7, Zenon

\* A broadcast goes on to the next client that takes the message.
LEMMA SendEffect ==
  ASSUME TypeOK, NEW i \in DOMAIN tasks, TaskSends(i)
  PROVE  \E c \in Takers(tasks[i].pos), k \in Tasks :
           /\ \A d \in Takers(tasks[i].pos) : c <= d
           /\ k.msg = tasks[i].msg /\ k.pos = c
           /\ k.size = tasks[i].size
           /\ k.dead = tasks[i].dead \cup Failing(tasks[i].pos)
           /\ k.byReaper = tasks[i].byReaper
           /\ tasks' \in Seq(Tasks) /\ DOMAIN tasks' = DOMAIN tasks
           /\ tasks'[i] = k
           /\ \A j \in DOMAIN tasks \ {i} : tasks'[j] = tasks[j]
           /\ view' = [view EXCEPT ![c] = Apply(view[c], k.msg)]
<1> DEFINE c == First(Takers(tasks[i].pos))
           dd == tasks[i].dead \cup Failing(tasks[i].pos)
           k == [tasks[i] EXCEPT !.pos = c, !.dead = dd]
<1>1. tasks \in Seq(Tasks) /\ tasks[i] \in Tasks
  BY DEF TypeOK
<1>2. c \in Takers(tasks[i].pos) /\ \A d \in Takers(tasks[i].pos) : c <= d
  <2>1. Takers(tasks[i].pos) # {}
    BY DEF TaskSends
  <2> QED BY <2>1, TakersAreClients, FirstIsLeast, Zenon
<1>3. c \in Clients /\ dd \in SUBSET Clients
  BY <1>1, <1>2, TakersAreClients DEF Tasks
<1>4. tasks' = [tasks EXCEPT ![i] = k]
  BY Zenon DEF TaskSends
<1>5. view' = [view EXCEPT ![c] = Apply(view[c], tasks[i].msg)]
  BY Zenon DEF TaskSends, Send
<1> HIDE DEF c, dd
<1>6. k \in Tasks
  BY <1>1, <1>3, Zenon DEF Tasks
<1>7. /\ k.msg = tasks[i].msg /\ k.pos = c /\ k.size = tasks[i].size
      /\ k.dead = dd
  BY <1>1 DEF Tasks
<1>8. k.byReaper = tasks[i].byReaper
  BY <1>1 DEF Tasks
<1> HIDE DEF k
<1>9. /\ tasks' \in Seq(Tasks) /\ DOMAIN tasks' = DOMAIN tasks
      /\ tasks'[i] = k
      /\ \A j \in DOMAIN tasks \ {i} : tasks'[j] = tasks[j]
  BY <1>1, <1>4, <1>6
<1> QED BY <1>2, <1>5, <1>6, <1>7, <1>8, <1>9, Zenon DEF dd

\* A browser that comes back is no longer dead to any broadcast.
LEMMA DiscardEffect ==
  ASSUME TypeOK, NEW c \in Clients, Discard(c)
  PROVE  /\ tasks' \in Seq(Tasks) /\ DOMAIN tasks' = DOMAIN tasks
         /\ \A i \in DOMAIN tasks :
              /\ tasks'[i].msg = tasks[i].msg /\ tasks'[i].pos = tasks[i].pos
              /\ tasks'[i].size = tasks[i].size
              /\ tasks'[i].dead = tasks[i].dead \ {c}
              /\ tasks'[i].byReaper = tasks[i].byReaper
<1> DEFINE k(i) == [tasks[i] EXCEPT !.dead = @ \ {c}]
<1>1. tasks \in Seq(Tasks) /\ \A i \in DOMAIN tasks : tasks[i] \in Tasks
  BY DEF TypeOK
<1>2. \A i \in DOMAIN tasks :
        /\ k(i) \in Tasks
        /\ k(i).msg = tasks[i].msg /\ k(i).pos = tasks[i].pos
        /\ k(i).size = tasks[i].size /\ k(i).dead = tasks[i].dead \ {c}
        /\ k(i).byReaper = tasks[i].byReaper
  <2> TAKE i \in DOMAIN tasks
  <2> DEFINE dd == tasks[i].dead \ {c}
  <2>1. tasks[i] \in Tasks /\ dd \in SUBSET Clients
    BY <1>1 DEF Tasks
  <2>2. k(i) = [tasks[i] EXCEPT !.dead = dd]
    BY Zenon
  <2> HIDE DEF dd, k
  <2>3. k(i) \in Tasks
    BY <2>1, <2>2, Zenon DEF Tasks
  <2>4. /\ k(i).msg = tasks[i].msg /\ k(i).pos = tasks[i].pos
        /\ k(i).size = tasks[i].size /\ k(i).dead = dd
    BY <2>1, <2>2 DEF Tasks
  <2>5. k(i).byReaper = tasks[i].byReaper
    BY <2>1, <2>2 DEF Tasks
  <2> QED BY <2>3, <2>4, <2>5, Zenon DEF dd
<1>3. tasks' = [i \in DOMAIN tasks |-> k(i)]
  BY Zenon DEF Discard
<1> HIDE DEF k
<1>4. DOMAIN tasks' = DOMAIN tasks /\ \A i \in DOMAIN tasks : tasks'[i] = k(i)
  BY <1>3, Zenon
<1>5. tasks' \in Seq(Tasks)
  <2>1. DOMAIN tasks = 1 .. Len(tasks) /\ Len(tasks) \in Nat
    BY <1>1
  <2> QED BY <1>2, <1>3, <2>1
<1> QED BY <1>2, <1>4, <1>5, Zenon

-----------------------------------------------------------------------------
(* The MQTT thread.                                                         *)

Todos == {"idle", "emit_event", "touch", "emit_gateway", "emit_transport"}

LEMMA InitInv == Init => IInv
<1> SUFFICES ASSUME Init PROVE IInv
  OBVIOUS
<1>1. Keep \in Nat /\ MaxPending \in Nat
  BY FeedAssumption
<1>2. MqIdle \in [todo : Todos, gw : Gateways \cup {1}] /\ MqIdle.todo = "idle"
  BY DEF MqIdle, Todos
<1>3. Asleep \in [at : {"sleep", "emit", "emitting", "dead"},
                  todo : SUBSET Gateways]
      /\ Asleep.at = "sleep" /\ Asleep.todo = {}
  BY DEF Asleep
<1>4. /\ <<>> \in Seq(Nat) /\ <<>> \in Seq(Scheduled) /\ <<>> \in Seq(Tasks)
      /\ Len(<<>>) = 0 /\ DOMAIN <<>> = {}
  OBVIOUS
<1>5. view \in [Clients -> Views]
  <2> DEFINE o == [g \in Gateways |-> FALSE]
             v == [total |-> 0, events |-> <<>>, online |-> o, broker |-> FALSE]
  <2>1. o \in [Gateways -> BOOLEAN] /\ 0 \in Nat /\ FALSE \in BOOLEAN
    BY Zenon
  <2>2. view = [c \in Clients |-> v]
    BY Zenon DEF Init
  <2> HIDE DEF o
  <2>3. v \in Views
    BY <1>4, <2>1, Zenon DEF Views
  <2> HIDE DEF v
  <2> QED BY <2>2, <2>3, Zenon
<1>6. /\ online \in [Gateways -> BOOLEAN] /\ silent \in [Gateways -> BOOLEAN]
      /\ conn \in [Clients -> {"away", "open", "gone"}]
      /\ \A c \in Clients : conn[c] = "away"
  BY DEF Init
<1>7. TypeOK
  BY <1>1, <1>2, <1>3, <1>4, <1>5, <1>6
     DEF Init, TypeOK, Views, Todos, Scheduled
<1>8. QueueInv /\ MqInv
  BY <1>1, <1>2, <1>4 DEF Init, QueueInv, Unscheduled, MqInv
<1>9. ReaperInv /\ DeadInv
  BY <1>3, <1>4 DEF Init, ReaperInv, DeadInv
<1>10. OpenIsServed
  BY <1>6 DEF OpenIsServed
<1> QED BY <1>7, <1>8, <1>9, <1>10 DEF IInv

\* A step of the MQTT thread, or of time, keeps the invariant if it keeps the
\* types and the room of what it changes.
LEMMA MqttFrame ==
  ASSUME IInv,
         total' \in Nat, events' \in Seq(Nat), Len(events') <= Keep,
         online' \in [Gateways -> BOOLEAN], silent' \in [Gateways -> BOOLEAN],
         up' \in BOOLEAN, mq' \in [todo : Todos, gw : Gateways \cup {1}],
         ready' \in Seq(Scheduled), QueueInv', MqInv',
         UNCHANGED <<tasks, reaper, pageVars>>
  PROVE  IInv'
<1>1. /\ tasks' = tasks /\ reaper' = reaper /\ conn' = conn
      /\ ws_clients' = ws_clients /\ view' = view /\ excused' = excused
  BY DEF pageVars
<1>2. Len(ready') <= MaxPending + 1
  <2>1. MaxPending \in Nat /\ Len(ready') \in Nat
    BY FeedAssumption
  <2> QED BY <2>1 DEF QueueInv, Unscheduled
<1>3. TypeOK'
  BY <1>1, <1>2 DEF IInv, TypeOK, Todos, Scheduled
<1>4. ReaperInv' /\ DeadInv' /\ OpenIsServed'
  BY <1>1 DEF IInv, ReaperInv, DeadInv, OpenIsServed
<1> QED BY <1>3, <1>4 DEF IInv

LEMMA ReadyLen ==
  ASSUME TypeOK
  PROVE  /\ MaxPending \in Nat /\ Len(ready) \in Nat /\ Len(tasks) \in Nat
         /\ ready \in Seq(Scheduled) /\ tasks \in Seq(Tasks)
         /\ DOMAIN ready = 1 .. Len(ready) /\ DOMAIN tasks = 1 .. Len(tasks)
  BY FeedAssumption DEF TypeOK, Scheduled

LEMMA TouchType ==
  ASSUME TypeOK, NEW g \in Gateways, Touch(g)
  PROVE  online' \in [Gateways -> BOOLEAN] /\ silent' \in [Gateways -> BOOLEAN]
  BY DEF TypeOK, Touch

\* With room, two more coroutines fit.
LEMMA RoomForTwo ==
  ASSUME TypeOK, Room
  PROVE  Len(ready) + 2 <= MaxPending + 1 /\ mq.todo = "idle"
<1>1. mq.todo = "idle"
  BY DEF Room, MqIdle
<1>2. Len(ready) + Len(tasks) < MaxPending
  BY DEF Room
<1> QED BY <1>1, <1>2, ReadyLen

\* What is scheduled.
LEMMA ScheduledMsgs ==
  /\ \A n \in Nat : [event |-> n] \in EventMsgs
  /\ \A g \in Gateways : [gateway |-> g] \in GatewayMsgs
  /\ \A b \in BOOLEAN : [connected |-> b] \in TransportMsgs
  /\ EventMsgs \subseteq Scheduled /\ GatewayMsgs \subseteq Scheduled
  /\ TransportMsgs \subseteq Scheduled
<1>1. \A n \in Nat : [event |-> n] \in EventMsgs
  BY DEF EventMsgs
<1>2. \A g \in Gateways : [gateway |-> g] \in GatewayMsgs
  BY DEF GatewayMsgs
<1>3. \A b \in BOOLEAN : [connected |-> b] \in TransportMsgs
  BY Zenon DEF TransportMsgs
<1> QED BY <1>1, <1>2, <1>3, Zenon DEF Scheduled

LEMMA FrameInv ==
  ASSUME IInv, Frame
  PROVE  IInv'
<1> USE ReadyLen DEF IInv
<1>1. ASSUME NEW g \in Gateways, EventFrame(g) PROVE IInv'
  <2>1. Room /\ total' = total + 1 /\ events' = FirstOf(<<total'>> \o events)
        /\ Touch(g) /\ mq' = [todo |-> "emit_event", gw |-> g]
        /\ UNCHANGED <<up, ready, tasks, reaper, pageVars>>
    BY <1>1 DEF EventFrame, Accepts
  <2>2. total' \in Nat /\ <<total'>> \o events \in Seq(Nat)
    BY <2>1 DEF TypeOK
  <2>3. events' \in Seq(Nat) /\ Len(events') <= Keep
    BY <2>1, <2>2, FirstOfType
  <2>4. mq' \in [todo : Todos, gw : Gateways \cup {1}] /\ mq'.todo = "emit_event"
        /\ mq'.gw = g
    BY <2>1 DEF Todos
  <2>5. QueueInv' /\ MqInv'
    BY <2>1, <2>4, RoomForTwo DEF QueueInv, Unscheduled, MqInv
  <2> QED BY <2>1, <2>2, <2>3, <2>4, <2>5, TouchType, MqttFrame DEF TypeOK
<1>2. ASSUME NEW g \in Gateways, TouchGateway(g) PROVE IInv'
  <2>1. /\ Touch(g) /\ mq' = [todo |-> "emit_gateway", gw |-> g]
        /\ UNCHANGED <<total, events, up, ready, tasks, reaper, pageVars>>
        /\ Room \/ mq.todo = "touch"
    BY <1>2 DEF TouchGateway, Accepts
  <2>2. mq' \in [todo : Todos, gw : Gateways \cup {1}]
        /\ mq'.todo = "emit_gateway" /\ mq'.gw = g
    BY <2>1 DEF Todos
  <2>3. Len(ready) + 1 <= MaxPending + 1
    BY <2>1, RoomForTwo DEF QueueInv, Unscheduled
  <2>4. QueueInv' /\ MqInv'
    BY <2>1, <2>2, <2>3 DEF QueueInv, Unscheduled, MqInv
  <2> QED BY <2>1, <2>2, <2>4, TouchType, MqttFrame DEF TypeOK
<1>3. ASSUME DuplicateFrame PROVE IInv'
  BY <1>3, MqttFrame DEF DuplicateFrame, vars, storeVars, QueueInv,
                         Unscheduled, MqInv, TypeOK, Todos
<1> QED BY <1>1, <1>2, <1>3 DEF Frame

LEMMA MqttInv ==
  ASSUME IInv, MqttThread
  PROVE  IInv'
<1> USE ReadyLen DEF IInv
<1>1. ASSUME ScheduleEvent PROVE IInv'
  <2>1. mq.todo = "emit_event" /\ ready' = Append(ready, [event |-> total])
        /\ mq' = [mq EXCEPT !.todo = "touch"]
        /\ UNCHANGED <<storeVars, up, tasks, reaper, pageVars>>
    BY <1>1 DEF ScheduleEvent
  <2>2. ready' \in Seq(Scheduled) /\ Len(ready') = Len(ready) + 1
    BY <2>1, ScheduledMsgs, Appended DEF TypeOK
  <2>3. mq' \in [todo : Todos, gw : Gateways \cup {1}] /\ mq'.todo = "touch"
        /\ mq'.gw = mq.gw
    BY <2>1 DEF TypeOK, Todos
  <2>4. QueueInv' /\ MqInv'
    BY <2>1, <2>2, <2>3 DEF QueueInv, Unscheduled, MqInv
  <2> QED BY <2>1, <2>2, <2>3, <2>4, MqttFrame DEF TypeOK, storeVars
<1>2. ASSUME ScheduleGateway PROVE IInv'
  <2>1. mq.todo = "emit_gateway" /\ ready' = Append(ready, [gateway |-> mq.gw])
        /\ mq' = MqIdle
        /\ UNCHANGED <<storeVars, up, tasks, reaper, pageVars>>
    BY <1>2 DEF ScheduleGateway
  <2>2. mq.gw \in Gateways
    BY <2>1 DEF MqInv
  <2>3. ready' \in Seq(Scheduled) /\ Len(ready') = Len(ready) + 1
    BY <2>1, <2>2, ScheduledMsgs, Appended
  <2>4. mq' \in [todo : Todos, gw : Gateways \cup {1}] /\ mq'.todo = "idle"
    BY <2>1 DEF MqIdle, Todos
  <2>5. QueueInv' /\ MqInv'
    BY <2>1, <2>3, <2>4 DEF QueueInv, Unscheduled, MqInv
  <2> QED BY <2>1, <2>3, <2>4, <2>5, MqttFrame DEF TypeOK, storeVars
<1>3. ASSUME ScheduleTransport PROVE IInv'
  <2>1. mq.todo = "emit_transport" /\ ready' = Append(ready, [connected |-> up])
        /\ mq' = MqIdle
        /\ UNCHANGED <<storeVars, up, tasks, reaper, pageVars>>
    BY <1>3 DEF ScheduleTransport
  <2>2. up \in BOOLEAN
    BY DEF TypeOK
  <2>3. [connected |-> up] \in Scheduled
    BY <2>2, ScheduledMsgs, Zenon
  <2>4. ready' \in Seq(Scheduled) /\ Len(ready') = Len(ready) + 1
    BY <2>1, <2>3, Appended
  <2>5. mq' \in [todo : Todos, gw : Gateways \cup {1}] /\ mq'.todo = "idle"
    BY <2>1 DEF MqIdle, Todos
  <2>6. QueueInv' /\ MqInv'
    BY <2>1, <2>4, <2>5 DEF QueueInv, Unscheduled, MqInv
  <2> QED BY <2>1, <2>4, <2>5, <2>6, MqttFrame DEF TypeOK, storeVars
<1>4. ASSUME mq.todo = "touch", TouchGateway(mq.gw) PROVE IInv'
  <2>1. mq.gw \in Gateways
    BY <1>4 DEF MqInv
  <2> QED BY <1>4, <2>1, FrameInv DEF Frame
<1> QED BY <1>1, <1>2, <1>3, <1>4 DEF MqttThread

LEMMA ConnectionInv ==
  ASSUME IInv, Broker \/ Reconfigure \/ \E g \in Gateways : Silence(g)
  PROVE  IInv'
<1> USE ReadyLen DEF IInv
<1>1. ASSUME OnConnect \/ OnDisconnect PROVE IInv'
  <2>1. Room /\ up' \in BOOLEAN
        /\ mq' = [MqIdle EXCEPT !.todo = "emit_transport"]
        /\ UNCHANGED <<storeVars, ready, tasks, reaper, pageVars>>
    BY <1>1 DEF OnConnect, OnDisconnect
  <2>2. mq' \in [todo : Todos, gw : Gateways \cup {1}]
        /\ mq'.todo = "emit_transport"
    BY <2>1 DEF MqIdle, Todos
  <2>3. QueueInv' /\ MqInv'
    BY <2>1, <2>2, RoomForTwo DEF QueueInv, Unscheduled, MqInv
  <2> QED BY <2>1, <2>2, <2>3, MqttFrame DEF TypeOK, storeVars
<1>2. ASSUME Reconfigure PROVE IInv'
  <2>1. /\ Room /\ up' = FALSE
        /\ UNCHANGED <<storeVars, mq, tasks, reaper, pageVars>>
        /\ \/ ready' = Append(ready, [connected |-> FALSE])
           \/ ready' = ready
    BY <1>2 DEF Reconfigure, StopSource
  <2>2. FALSE \in BOOLEAN
    OBVIOUS
  <2>3. [connected |-> FALSE] \in Scheduled
    BY <2>2, ScheduledMsgs, Zenon
  <2>4. CASE ready' = Append(ready, [connected |-> FALSE])
    <3>1. ready' \in Seq(Scheduled) /\ Len(ready') = Len(ready) + 1
      BY <2>3, <2>4, Appended, ReadyLen
    <3>2. QueueInv' /\ MqInv'
      BY <2>1, <3>1, RoomForTwo, ReadyLen DEF QueueInv, Unscheduled, MqInv
    <3> QED BY <2>1, <3>1, <3>2, MqttFrame DEF TypeOK, storeVars, Todos
  <2>5. CASE ready' = ready
    <3>1. QueueInv' /\ MqInv'
      BY <2>1, <2>5, RoomForTwo, ReadyLen DEF QueueInv, Unscheduled, MqInv
    <3> QED BY <2>1, <2>5, <3>1, MqttFrame, ReadyLen
               DEF TypeOK, storeVars, Todos
  <2> QED BY <2>1, <2>4, <2>5
<1>3. ASSUME NEW g \in Gateways, Silence(g) PROVE IInv'
  <2>1. silent' \in [Gateways -> BOOLEAN]
        /\ UNCHANGED <<total, events, online, up, mq, ready, tasks, reaper,
                       pageVars>>
    BY <1>3 DEF Silence, TypeOK
  <2> QED BY <2>1, MqttFrame DEF QueueInv, Unscheduled, MqInv, TypeOK, Todos
<1> QED BY <1>1, <1>2, <1>3 DEF Broker

-----------------------------------------------------------------------------
(* The loop.                                                                *)

ReaperStates ==
    [at : {"sleep", "emit", "emitting", "dead"}, todo : SUBSET Gateways]
ConnStates == [Clients -> {"away", "open", "gone"}]

\* A step of the loop keeps the invariant if it keeps the types and what is said
\* of the broadcasts, the reaper and the clients.
LEMMA LoopFrame ==
  ASSUME IInv,
         UNCHANGED <<total, events, silent, up, mq>>,
         online' \in [Gateways -> BOOLEAN],
         ready' \in Seq(Scheduled), Len(ready') <= Len(ready),
         tasks' \in Seq(Tasks), reaper' \in ReaperStates,
         conn' \in ConnStates, ws_clients' \in SUBSET Clients,
         view' \in [Clients -> Views], excused' \in SUBSET Clients,
         ReaperInv', DeadInv', OpenIsServed'
  PROVE  IInv'
<1>1. Len(ready') \in Nat
  OBVIOUS
<1>2. QueueInv' /\ MqInv' /\ Len(ready') <= MaxPending + 1
  BY <1>1, ReadyLen DEF IInv, QueueInv, Unscheduled, MqInv, TypeOK
<1>3. TypeOK'
  BY <1>2 DEF IInv, TypeOK, ReaperStates, ConnStates, Views, Scheduled
<1> QED BY <1>2, <1>3 DEF IInv

\* A broadcast that ends drops only clients that are gone.
LEMMA DroppedAreGone ==
  ASSUME IInv, NEW D, \A c \in D : conn[c] = "gone",
         ws_clients' = ws_clients \ D, conn' = conn
  PROVE  OpenIsServed' /\ ws_clients' \in SUBSET Clients
  BY DEF IInv, TypeOK, OpenIsServed

LEMMA TaskAdded ==
  ASSUME IInv, NEW k \in Tasks, tasks' = Append(tasks, k), conn' = conn,
         \A c \in k.dead : conn[c] = "gone",
         k.byReaper => reaper.at = "emit" /\ reaper'.at = "emitting",
         ~ k.byReaper => reaper' = reaper
  PROVE  tasks' \in Seq(Tasks) /\ ReaperInv' /\ DeadInv'
<1>1. tasks \in Seq(Tasks)
  BY DEF IInv, TypeOK
<1>2. /\ tasks' \in Seq(Tasks) /\ DOMAIN tasks' = 1 .. Len(tasks) + 1
      /\ DOMAIN tasks = 1 .. Len(tasks) /\ Len(tasks) \in Nat
      /\ \A i \in DOMAIN tasks : tasks'[i] = tasks[i]
      /\ tasks'[Len(tasks) + 1] = k
  <2> DEFINE r == Append(tasks, k)
  <2>1. /\ r \in Seq(Tasks) /\ DOMAIN r = 1 .. Len(tasks) + 1
        /\ DOMAIN tasks = 1 .. Len(tasks) /\ Len(tasks) \in Nat
        /\ \A i \in DOMAIN tasks : r[i] = tasks[i]
        /\ r[Len(tasks) + 1] = k
    BY <1>1, Appended
  <2> HIDE DEF r
  <2>2. tasks' = r
    BY DEF r
  <2> QED BY <2>1, <2>2
<1>3. /\ DOMAIN tasks' = DOMAIN tasks \cup {Len(tasks) + 1}
      /\ Len(tasks) + 1 \notin DOMAIN tasks
  BY <1>2
<1>4. k.byReaper \in BOOLEAN
  BY DEF Tasks
<1>5. ReaperInv'
  <2>1. CASE k.byReaper
    <3>1. \A i \in DOMAIN tasks : ~ tasks[i].byReaper
      BY <2>1 DEF IInv, ReaperInv
    <3> QED BY <1>2, <1>3, <2>1, <3>1 DEF ReaperInv
  <2>2. CASE ~ k.byReaper
    <3>1. (\E i \in DOMAIN tasks' : tasks'[i].byReaper) <=>
            (\E i \in DOMAIN tasks : tasks[i].byReaper)
      BY <1>2, <1>3, <2>2
    <3>2. \A i, j \in DOMAIN tasks' :
            tasks'[i].byReaper /\ tasks'[j].byReaper => i = j
      BY <1>2, <1>3, <2>2 DEF IInv, ReaperInv
    <3> QED BY <2>2, <3>1, <3>2, Zenon DEF IInv, ReaperInv
  <2> QED BY <2>1, <2>2
<1>6. DeadInv'
  BY <1>2, <1>3 DEF IInv, DeadInv
<1> QED BY <1>2, <1>5, <1>6

LEMMA TaskRemoved ==
  ASSUME IInv, NEW i \in DOMAIN tasks, tasks' = RemoveAt(tasks, i), conn' = conn,
         tasks[i].byReaper =>
             /\ reaper'.at # "emitting"
             /\ reaper'.at = "emit" => reaper'.todo # {}
             /\ reaper'.at \in {"sleep", "dead"} => reaper'.todo = {},
         ~ tasks[i].byReaper => reaper' = reaper
  PROVE  tasks' \in Seq(Tasks) /\ ReaperInv' /\ DeadInv'
<1>1. tasks \in Seq(Tasks) /\ tasks[i] \in Tasks
  BY DEF IInv, TypeOK
<1>2. /\ tasks' \in Seq(Tasks)
      /\ \A j \in DOMAIN tasks' : /\ Before(i, j) \in DOMAIN tasks \ {i}
                                  /\ tasks'[j] = tasks[Before(i, j)]
      /\ \A j, k \in DOMAIN tasks' : j < k => Before(i, j) < Before(i, k)
      /\ \A k \in DOMAIN tasks \ {i} :
           \E j \in DOMAIN tasks' : k = Before(i, j)
      /\ DOMAIN tasks' = 1 .. Len(tasks) - 1 /\ Len(tasks) \in Nat
  <2> DEFINE r == RemoveAt(tasks, i)
  <2>1. /\ r \in Seq(Tasks)
        /\ \A j \in DOMAIN r : /\ Before(i, j) \in DOMAIN tasks \ {i}
                                /\ r[j] = tasks[Before(i, j)]
        /\ \A j, k \in DOMAIN r : j < k => Before(i, j) < Before(i, k)
        /\ \A k \in DOMAIN tasks \ {i} :
             \E j \in DOMAIN r : k = Before(i, j)
        /\ DOMAIN r = 1 .. Len(tasks) - 1 /\ Len(tasks) \in Nat
    BY <1>1, Removed
  <2> HIDE DEF r
  <2>2. tasks' = r
    BY DEF r
  <2> QED BY <2>1, <2>2
<1>3. \A j, k \in DOMAIN tasks' : Before(i, j) = Before(i, k) => j = k
  <2> TAKE j, k \in DOMAIN tasks'
  <2>1. j \in Int /\ k \in Int /\ Before(i, j) \in Int /\ Before(i, k) \in Int
    BY <1>1, <1>2
  <2> QED BY <1>2, <2>1
<1>4. ReaperInv'
  <2>1. CASE tasks[i].byReaper
    <3>1. \A j \in DOMAIN tasks' : ~ tasks'[j].byReaper
      BY <1>2, <2>1, Zenon DEF IInv, ReaperInv
    <3> QED BY <2>1, <3>1, Zenon DEF ReaperInv
  <2>2. CASE ~ tasks[i].byReaper
    <3>1. (\E j \in DOMAIN tasks' : tasks'[j].byReaper) <=>
            (\E j \in DOMAIN tasks : tasks[j].byReaper)
      <4>1. ASSUME NEW j \in DOMAIN tasks', tasks'[j].byReaper
            PROVE  \E l \in DOMAIN tasks : tasks[l].byReaper
        BY <1>2, <4>1
      <4>2. ASSUME NEW l \in DOMAIN tasks, tasks[l].byReaper
            PROVE  \E j \in DOMAIN tasks' : tasks'[j].byReaper
        <5>1. PICK j \in DOMAIN tasks' : l = Before(i, j)
          BY <1>2, <2>2, <4>2
        <5> QED BY <1>2, <4>2, <5>1
      <4> QED BY <4>1, <4>2
    <3>2. \A j, k \in DOMAIN tasks' :
            tasks'[j].byReaper /\ tasks'[k].byReaper => j = k
      BY <1>2, <1>3, Zenon DEF IInv, ReaperInv
    <3> QED BY <2>2, <3>1, <3>2, Zenon DEF IInv, ReaperInv
  <2> QED BY <2>1, <2>2
<1>5. DeadInv'
  BY <1>2, Zenon DEF IInv, DeadInv
<1> QED BY <1>2, <1>4, <1>5

LEMMA StartTaskInv ==
  ASSUME IInv, StartTask
  PROVE  IInv'
<1>1. /\ ready # <<>> /\ ready' = Tail(ready)
      /\ UNCHANGED <<storeVars, up, mq, reaper, conn, excused>>
  BY DEF StartTask
<1>2. TypeOK /\ ready \in Seq(Scheduled)
  BY ReadyLen DEF IInv
<1>3. Head(ready) \in Scheduled /\ ready' \in Seq(Scheduled)
      /\ Len(ready') = Len(ready) - 1 /\ Len(ready) \in Nat
  BY <1>1, <1>2, Tailed
<1>4. Len(ready') <= Len(ready)
  BY <1>3
<1>5. /\ online' \in [Gateways -> BOOLEAN] /\ reaper' \in ReaperStates
      /\ conn' \in ConnStates /\ excused' \in SUBSET Clients
      /\ UNCHANGED <<total, events, silent, up, mq>>
      /\ view \in [Clients -> Views] /\ ws_clients \in SUBSET Clients
      /\ tasks \in Seq(Tasks)
  BY <1>1, <1>2 DEF TypeOK, storeVars, ReaperStates, ConnStates, Views
<1>6. CASE NobodyTakes
  <2>1. ws_clients' = ws_clients \ Failing(0) /\ tasks' = tasks /\ view' = view
    BY <1>6 DEF NobodyTakes
  <2>2. OpenIsServed' /\ ws_clients' \in SUBSET Clients
    BY <1>1, <1>2, <2>1, TakersAreClients, DroppedAreGone
  <2>3. ReaperInv' /\ DeadInv'
    BY <1>1, <2>1 DEF IInv, ReaperInv, DeadInv
  <2> QED BY <1>3, <1>4, <1>5, <2>1, <2>2, <2>3, LoopFrame
<1>7. CASE Begin(Head(ready), FALSE)
  <2>1. PICK c \in Takers(0), k \in Tasks :
          /\ k.dead = Failing(0) /\ k.byReaper = FALSE
          /\ tasks' = Append(tasks, k)
          /\ view' = [view EXCEPT ![c] = Apply(view[c], AsSent(Head(ready)))]
          /\ ws_clients' = ws_clients
    BY <1>2, <1>3, <1>7, BeginEffect, Zenon
  <2>2. tasks' \in Seq(Tasks) /\ ReaperInv' /\ DeadInv'
    BY <1>1, <1>2, <2>1, TakersAreClients, TaskAdded
  <2>3. view' \in [Clients -> Views]
    BY <1>2, <1>3, <2>1, TakersAreClients, SentType, ViewType
  <2>4. OpenIsServed' /\ ws_clients' \in SUBSET Clients
    BY <1>1, <1>5, <2>1 DEF IInv, OpenIsServed
  <2> QED BY <1>3, <1>4, <1>5, <2>2, <2>3, <2>4, LoopFrame
<1> QED BY <1>6, <1>7 DEF StartTask

LEMMA LoopTypes ==
  ASSUME IInv
  PROVE  /\ TypeOK /\ online \in [Gateways -> BOOLEAN] /\ reaper \in ReaperStates
         /\ conn \in ConnStates /\ excused \in SUBSET Clients
         /\ view \in [Clients -> Views] /\ ws_clients \in SUBSET Clients
         /\ ready \in Seq(Scheduled) /\ Len(ready) <= Len(ready)
         /\ tasks \in Seq(Tasks) /\ \A i \in DOMAIN tasks : tasks[i] \in Tasks
<1>1. TypeOK /\ ready \in Seq(Scheduled) /\ Len(ready) \in Nat
      /\ tasks \in Seq(Tasks)
  BY ReadyLen DEF IInv
<1> QED BY <1>1 DEF TypeOK, ReaperStates, ConnStates, Views

\* When the reaper goes on it has a gateway to tell of.
LEMMA ReaperGoes ==
  ASSUME IInv, ReaperGoesOn
  PROVE  /\ reaper' \in ReaperStates /\ reaper'.at # "emitting"
         /\ reaper'.at = "emit" => reaper'.todo # {}
         /\ reaper'.at \in {"sleep", "dead"} => reaper'.todo = {}
<1>1. CASE reaper.todo = {}
  BY <1>1 DEF ReaperGoesOn, Asleep, ReaperStates
<1>2. CASE reaper.todo # {}
  <2>1. reaper' = [reaper EXCEPT !.at = "emit"] /\ reaper \in ReaperStates
    BY <1>2, LoopTypes DEF ReaperGoesOn
  <2> QED BY <1>2, <2>1 DEF ReaperStates
<1> QED BY <1>1, <1>2

LEMMA ResumeInv ==
  ASSUME IInv, NEW i \in DOMAIN tasks,
         TaskRaises(i) \/ TaskSends(i) \/ TaskEnds(i)
  PROVE  IInv'
<1>0. TypeOK
  BY DEF IInv
<1>9. /\ online \in [Gateways -> BOOLEAN] /\ reaper \in ReaperStates
      /\ conn \in ConnStates /\ excused \in SUBSET Clients
      /\ view \in [Clients -> Views] /\ ws_clients \in SUBSET Clients
      /\ ready \in Seq(Scheduled) /\ Len(ready) <= Len(ready)
      /\ tasks \in Seq(Tasks) /\ \A j \in DOMAIN tasks : tasks[j] \in Tasks
  BY LoopTypes, Zenon
<1>1. CASE TaskRaises(i)
  <2>1. /\ tasks' = RemoveAt(tasks, i)
        /\ reaper' = IF tasks[i].byReaper THEN [at |-> "dead", todo |-> {}]
                     ELSE reaper
        /\ excused' = excused \cup After(tasks[i].pos)
        /\ UNCHANGED <<storeVars, up, mq, ready, conn, ws_clients, view>>
    BY <1>1 DEF TaskRaises
  <2>2. reaper' \in ReaperStates
    BY <1>9, <2>1 DEF ReaperStates
  <2>3. tasks' \in Seq(Tasks) /\ ReaperInv' /\ DeadInv'
    BY <2>1, TaskRemoved
  <2>4. excused' \in SUBSET Clients
    BY <1>9, <2>1 DEF After
  <2>5. OpenIsServed'
    BY <2>1 DEF IInv, OpenIsServed
  <2> QED BY <1>9, <2>1, <2>2, <2>3, <2>4, <2>5, LoopFrame DEF storeVars
<1>2. CASE TaskSends(i)
  <2>1. PICK c \in Takers(tasks[i].pos), k \in Tasks :
          /\ \A d \in Takers(tasks[i].pos) : c <= d
          /\ k.msg = tasks[i].msg /\ k.pos = c
          /\ k.size = tasks[i].size
          /\ k.dead = tasks[i].dead \cup Failing(tasks[i].pos)
          /\ k.byReaper = tasks[i].byReaper
          /\ tasks' \in Seq(Tasks) /\ DOMAIN tasks' = DOMAIN tasks
          /\ tasks'[i] = k
          /\ \A j \in DOMAIN tasks \ {i} : tasks'[j] = tasks[j]
          /\ view' = [view EXCEPT ![c] = Apply(view[c], k.msg)]
    BY <1>0, <1>2, SendEffect, Zenon
  <2>2. UNCHANGED <<storeVars, up, mq, ready, reaper, conn, ws_clients, excused>>
    BY <1>2 DEF TaskSends
  <2>3. view' \in [Clients -> Views]
    <3>1. k.msg \in Sent /\ c \in Clients
      BY <2>1, TakersAreClients DEF Tasks, Sent
    <3> QED BY <1>0, <2>1, <3>1, ViewType
  <2>4. \A j \in DOMAIN tasks : tasks'[j].byReaper <=> tasks[j].byReaper
    BY <2>1
  <2>5. ReaperInv'
    <3>1. (\E j \in DOMAIN tasks' : tasks'[j].byReaper) <=>
            (\E j \in DOMAIN tasks : tasks[j].byReaper)
      BY <2>1, <2>4
    <3>2. \A j, l \in DOMAIN tasks' :
            tasks'[j].byReaper /\ tasks'[l].byReaper => j = l
      BY <2>1, <2>4 DEF IInv, ReaperInv
    <3> QED BY <2>2, <3>1, <3>2, Zenon DEF IInv, ReaperInv
  <2>6. DeadInv'
    <3> SUFFICES ASSUME NEW j \in DOMAIN tasks', NEW d \in tasks'[j].dead
                 PROVE  conn[d] = "gone"
      BY <2>2 DEF DeadInv
    <3>1. CASE j = i
      BY <2>1, <3>1, TakersAreClients DEF IInv, DeadInv
    <3>2. CASE j # i
      BY <2>1, <3>2 DEF IInv, DeadInv
    <3> QED BY <3>1, <3>2
  <2>7. OpenIsServed'
    BY <2>2 DEF IInv, OpenIsServed
  <2> QED BY <1>9, <2>1, <2>2, <2>3, <2>5, <2>6, <2>7, LoopFrame DEF storeVars
<1>3. CASE TaskEnds(i)
  <2>1. /\ ws_clients' = ws_clients \ (tasks[i].dead \cup Failing(tasks[i].pos))
        /\ tasks' = RemoveAt(tasks, i)
        /\ ReaperAfter(tasks[i])
        /\ UNCHANGED <<storeVars, up, mq, ready, conn, view, excused>>
    BY <1>3 DEF TaskEnds
  <2>2. reaper' \in ReaperStates
        /\ (tasks[i].byReaper =>
               /\ reaper'.at # "emitting"
               /\ reaper'.at = "emit" => reaper'.todo # {}
               /\ reaper'.at \in {"sleep", "dead"} => reaper'.todo = {})
        /\ (~ tasks[i].byReaper => reaper' = reaper)
    BY <1>9, <2>1, ReaperGoes DEF ReaperAfter
  <2>3. tasks' \in Seq(Tasks) /\ ReaperInv' /\ DeadInv'
    BY <2>1, <2>2, TaskRemoved
  <2>4. OpenIsServed' /\ ws_clients' \in SUBSET Clients
    <3> DEFINE D == tasks[i].dead \cup Failing(tasks[i].pos)
    <3>1. \A c \in D : conn[c] = "gone"
      BY TakersAreClients DEF IInv, DeadInv
    <3>2. ws_clients' = ws_clients \ D /\ conn' = conn
      BY <2>1
    <3> HIDE DEF D
    <3> QED BY <3>1, <3>2, DroppedAreGone
  <2> QED BY <1>9, <2>1, <2>2, <2>3, <2>4, LoopFrame DEF storeVars
<1> QED BY <1>1, <1>2, <1>3

LEMMA ReaperStepInv ==
  ASSUME IInv, Reaper
  PROVE  IInv'
<1>0. TypeOK
  BY DEF IInv
<1>9. /\ online \in [Gateways -> BOOLEAN] /\ reaper \in ReaperStates
      /\ conn \in ConnStates /\ excused \in SUBSET Clients
      /\ view \in [Clients -> Views] /\ ws_clients \in SUBSET Clients
      /\ ready \in Seq(Scheduled) /\ Len(ready) <= Len(ready)
      /\ tasks \in Seq(Tasks) /\ \A j \in DOMAIN tasks : tasks[j] \in Tasks
  BY LoopTypes, Zenon
<1>1. CASE ReapFlips
  <2>1. /\ Stale # {} /\ reaper = Asleep
        /\ online' = [g \in Gateways |-> online[g] /\ g \notin Stale]
        /\ reaper' = [at |-> "emit", todo |-> Stale]
        /\ UNCHANGED <<total, events, silent, up, mq, ready, tasks, pageVars>>
    BY <1>1 DEF ReapFlips, Flip
  <2>2. online' \in [Gateways -> BOOLEAN] /\ Stale \in SUBSET Gateways
    BY <2>1 DEF Stale
  <2>3. reaper' \in ReaperStates /\ reaper'.at = "emit" /\ reaper'.todo # {}
    BY <2>1, <2>2 DEF ReaperStates
  <2>4. reaper.at = "sleep"
    BY <2>1 DEF Asleep
  <2>5. ReaperInv' /\ DeadInv' /\ OpenIsServed'
    BY <2>1, <2>3, <2>4
       DEF IInv, ReaperInv, DeadInv, OpenIsServed, pageVars
  <2> QED BY <1>9, <2>1, <2>2, <2>3, <2>5, LoopFrame DEF pageVars
<1>2. CASE ReapEmits
  <2> DEFINE g == First(reaper.todo)
             rest == reaper.todo \ {g}
  <2>1. /\ reaper.at = "emit"
        /\ \/ NobodyTakes /\ reaper' = IF rest = {} THEN Asleep
                                       ELSE [at |-> "emit", todo |-> rest]
           \/ Begin([gateway |-> g], TRUE)
              /\ reaper' = [at |-> "emitting", todo |-> rest]
        /\ UNCHANGED <<storeVars, up, mq, ready, conn, excused>>
    BY <1>2, Zenon DEF ReapEmits
  <2>2. reaper.todo \subseteq Gateways /\ reaper.todo # {}
    BY <1>9, <2>1 DEF IInv, ReaperInv, ReaperStates
  <2>3. g \in Gateways /\ rest \in SUBSET Gateways
    <3>1. reaper.todo \subseteq Nat
      BY <2>2, FeedAssumption DEF Gateways
    <3>2. g \in reaper.todo
      BY <2>2, <3>1, FirstIsLeast, Zenon
    <3> QED BY <2>2, <3>2
  <2> HIDE DEF g, rest
  <2>4. CASE /\ NobodyTakes
             /\ reaper' = IF rest = {} THEN Asleep
                          ELSE [at |-> "emit", todo |-> rest]
    <3>1. ws_clients' = ws_clients \ Failing(0) /\ tasks' = tasks /\ view' = view
      BY <2>4 DEF NobodyTakes
    <3>2. OpenIsServed' /\ ws_clients' \in SUBSET Clients
      BY <1>0, <2>1, <3>1, TakersAreClients, DroppedAreGone
    <3>3. /\ reaper' \in ReaperStates /\ reaper'.at # "emitting"
          /\ reaper'.at = "emit" => reaper'.todo # {}
          /\ reaper'.at \in {"sleep", "dead"} => reaper'.todo = {}
      BY <2>3, <2>4 DEF Asleep, ReaperStates
    <3>4. ReaperInv' /\ DeadInv'
      BY <2>1, <3>1, <3>3 DEF IInv, ReaperInv, DeadInv
    <3> QED BY <1>9, <2>1, <3>1, <3>2, <3>3, <3>4, LoopFrame DEF storeVars
  <2>5. CASE /\ Begin([gateway |-> g], TRUE)
             /\ reaper' = [at |-> "emitting", todo |-> rest]
    <3> DEFINE m == [gateway |-> g]
    <3>1. m \in Scheduled
      BY <2>3, ScheduledMsgs, Zenon
    <3> HIDE DEF m
    <3>2. Begin(m, TRUE) /\ TRUE \in BOOLEAN
      BY <2>5 DEF m
    <3>3. PICK c \in Takers(0), k \in Tasks :
            /\ k.dead = Failing(0) /\ k.byReaper = TRUE
            /\ tasks' = Append(tasks, k)
            /\ view' = [view EXCEPT ![c] = Apply(view[c], AsSent(m))]
            /\ ws_clients' = ws_clients
      BY <1>0, <3>1, <3>2, BeginEffect, Zenon
    <3>4. reaper' \in ReaperStates /\ reaper'.at = "emitting"
      BY <2>3, <2>5 DEF ReaperStates
    <3>5. tasks' \in Seq(Tasks) /\ ReaperInv' /\ DeadInv'
      BY <1>0, <2>1, <3>3, <3>4, TakersAreClients, TaskAdded
    <3>6. view' \in [Clients -> Views]
      BY <1>0, <3>1, <3>3, TakersAreClients, SentType, ViewType
    <3>7. OpenIsServed' /\ ws_clients' \in SUBSET Clients
      BY <1>9, <2>1, <3>3 DEF IInv, OpenIsServed
    <3> QED BY <1>9, <2>1, <3>4, <3>5, <3>6, <3>7, LoopFrame DEF storeVars
  <2> QED BY <2>1, <2>4, <2>5
<1> QED BY <1>1, <1>2 DEF Reaper

LEMMA BrowserInv ==
  ASSUME IInv, NEW c \in Clients, Join(c) \/ Leave(c) \/ Discard(c)
  PROVE  IInv'
<1>0. TypeOK
  BY DEF IInv
<1>9. /\ online \in [Gateways -> BOOLEAN] /\ reaper \in ReaperStates
      /\ conn \in ConnStates /\ excused \in SUBSET Clients
      /\ view \in [Clients -> Views] /\ ws_clients \in SUBSET Clients
      /\ ready \in Seq(Scheduled) /\ Len(ready) <= Len(ready)
      /\ tasks \in Seq(Tasks) /\ \A j \in DOMAIN tasks : tasks[j] \in Tasks
  BY LoopTypes, Zenon
<1>1. CASE Join(c)
  <2>1. /\ conn[c] = "away" /\ conn' = [conn EXCEPT ![c] = "open"]
        /\ ws_clients' = ws_clients \cup {c}
        /\ view' = [view EXCEPT ![c] = Snapshot]
        /\ excused' \in {excused \ {c}, excused \cup {c}}
        /\ UNCHANGED <<storeVars, up, mq, ready, tasks, reaper>>
    BY <1>1 DEF Join
  <2>2. Snapshot \in Views
    <3>1. total \in Nat /\ events \in Seq(Nat) /\ up \in BOOLEAN
      BY <1>0 DEF TypeOK
    <3> QED BY <1>9, <3>1, Zenon DEF Snapshot, Views
  <2>3. view' \in [Clients -> Views]
    BY <1>9, <2>1, <2>2, Zenon
  <2>4. conn' \in ConnStates /\ ws_clients' \in SUBSET Clients
        /\ excused' \in SUBSET Clients
    BY <1>9, <2>1 DEF ConnStates
  <2>5. \A d \in Clients : d # c => conn'[d] = conn[d]
    BY <1>9, <2>1 DEF ConnStates
  <2>6. ReaperInv' /\ OpenIsServed'
    BY <2>1, <2>5 DEF IInv, ReaperInv, OpenIsServed
  <2>7. DeadInv'
    <3> SUFFICES ASSUME NEW i \in DOMAIN tasks, NEW d \in tasks[i].dead
                 PROVE  conn'[d] = "gone"
      BY <2>1 DEF DeadInv
    <3>1. d \in Clients /\ conn[d] = "gone"
      BY <1>9 DEF IInv, DeadInv, Tasks
    <3> QED BY <2>1, <2>5, <3>1
  <2> QED BY <1>9, <2>1, <2>3, <2>4, <2>6, <2>7, LoopFrame DEF storeVars
<1>2. CASE Leave(c)
  <2>1. /\ conn[c] = "open" /\ conn' = [conn EXCEPT ![c] = "gone"]
        /\ UNCHANGED <<storeVars, up, mq, ready, tasks, reaper, ws_clients, view,
                       excused>>
    BY <1>2 DEF Leave
  <2>2. conn' \in ConnStates /\ conn'[c] = "gone"
        /\ \A d \in Clients : d # c => conn'[d] = conn[d]
    BY <1>9, <2>1 DEF ConnStates
  <2>3. ReaperInv' /\ OpenIsServed'
    BY <2>1, <2>2 DEF IInv, ReaperInv, OpenIsServed
  <2>4. DeadInv'
    <3> SUFFICES ASSUME NEW i \in DOMAIN tasks, NEW d \in tasks[i].dead
                 PROVE  conn'[d] = "gone"
      BY <2>1 DEF DeadInv
    <3>1. d \in Clients /\ conn[d] = "gone"
      BY <1>9 DEF IInv, DeadInv, Tasks
    <3> QED BY <2>2, <3>1
  <2> QED BY <1>9, <2>1, <2>2, <2>3, <2>4, LoopFrame DEF storeVars
<1>3. CASE Discard(c)
  <2>1. /\ conn[c] = "gone" /\ conn' = [conn EXCEPT ![c] = "away"]
        /\ ws_clients' = ws_clients \ {c}
        /\ UNCHANGED <<storeVars, up, mq, ready, reaper, view, excused>>
    BY <1>3 DEF Discard
  <2>2. /\ tasks' \in Seq(Tasks) /\ DOMAIN tasks' = DOMAIN tasks
        /\ \A i \in DOMAIN tasks : tasks'[i].dead = tasks[i].dead \ {c}
                                   /\ tasks'[i].byReaper = tasks[i].byReaper
    BY <1>0, <1>3, DiscardEffect
  <2>3. conn' \in ConnStates /\ conn'[c] = "away"
        /\ \A d \in Clients : d # c => conn'[d] = conn[d]
    BY <1>9, <2>1 DEF ConnStates
  <2>4. OpenIsServed' /\ ws_clients' \in SUBSET Clients
    BY <1>9, <2>1, <2>3 DEF IInv, OpenIsServed
  <2>5. ReaperInv'
    <3>1. (\E j \in DOMAIN tasks' : tasks'[j].byReaper) <=>
            (\E j \in DOMAIN tasks : tasks[j].byReaper)
      BY <2>2
    <3>2. \A j, l \in DOMAIN tasks' :
            tasks'[j].byReaper /\ tasks'[l].byReaper => j = l
      BY <2>2 DEF IInv, ReaperInv
    <3> QED BY <2>1, <3>1, <3>2, Zenon DEF IInv, ReaperInv
  <2>6. DeadInv'
    <3> SUFFICES ASSUME NEW i \in DOMAIN tasks, NEW d \in tasks[i].dead, d # c
                 PROVE  conn'[d] = "gone"
      BY <2>2 DEF DeadInv
    <3>1. d \in Clients /\ conn[d] = "gone"
      BY <1>9 DEF IInv, DeadInv, Tasks
    <3> QED BY <2>3, <3>1
  <2> QED BY <1>9, <2>1, <2>2, <2>3, <2>4, <2>5, <2>6, LoopFrame DEF storeVars
<1> QED BY <1>1, <1>2, <1>3

LEMMA NextInv == IInv /\ [Next]_vars => IInv'
<1> SUFFICES ASSUME IInv, [Next]_vars PROVE IInv'
  OBVIOUS
<1>1. CASE Frame
  BY <1>1, FrameInv
<1>2. CASE MqttThread
  BY <1>2, MqttInv
<1>3. CASE Broker \/ Reconfigure \/ \E g \in Gateways : Silence(g)
  BY <1>3, ConnectionInv
<1>4. CASE Loop
  BY <1>4, StartTaskInv, ResumeInv DEF Loop, Resume
<1>5. CASE Reaper
  BY <1>5, ReaperStepInv
<1>6. CASE Browser
  BY <1>6, BrowserInv DEF Browser
<1>7. CASE UNCHANGED vars
  BY <1>7 DEF vars, storeVars, pageVars, IInv, TypeOK, QueueInv, Unscheduled,
              MqInv, ReaperInv, DeadInv, OpenIsServed
<1> QED BY <1>1, <1>2, <1>3, <1>4, <1>5, <1>6, <1>7 DEF Next

\* The invariant holds in every state: the queue has room for every broadcast of
\* a frame that was accepted, the reaper awaits one broadcast, and a client that
\* a broadcast found dead has not come back.
THEOREM Invariance == Spec => []IInv
<1> QED BY InitInv, NextInv, PTL DEF Spec

\* The variables keep their types.
THEOREM TypeCorrect == Spec => []TypeOK
<1>1. IInv => TypeOK
  BY DEF IInv
<1> QED BY <1>1, Invariance, PTL

\* An open page is served: however joins, disconnections and broadcasts that
\* wait at their sends interleave, no broadcast drops a client that is connected
\* (broadcast drops from ws_clients the clients its own sends failed for).
THEOREM EveryOpenPageIsServed == Spec => []OpenIsServed
<1>1. IInv => OpenIsServed
  BY DEF IInv
<1> QED BY <1>1, Invariance, PTL

-----------------------------------------------------------------------------
(* Counting: an open page that is owed no more than it should be.           *)

InReady(e) == \E i \in DOMAIN ready : ready[i] \in EventMsgs /\ ready[i].event = e

InTasks(e, c) ==
    \E i \in DOMAIN tasks :
        tasks[i].msg \in EventMsgs /\ tasks[i].msg.event = e /\ tasks[i].pos < c

\* Event e is on its way to the page of client c, which has not applied it.
Owes(e, c) ==
    \/ InReady(e)
    \/ InTasks(e, c)
    \/ mq.todo = "emit_event" /\ e = total

Owing(c) == {e \in 1 .. total : Owes(e, c)}

\* The events that have been scheduled.
Numbered == IF mq.todo = "emit_event" THEN total - 1 ELSE total

\* An event is broadcast once: it waits in one place only.
OnceInv ==
    /\ mq.todo = "emit_event" => total > 0
    /\ \A i, j \in DOMAIN ready :
         ready[i] \in EventMsgs /\ ready[j] \in EventMsgs
         /\ ready[i].event = ready[j].event => i = j
    /\ \A i, j \in DOMAIN tasks :
         tasks[i].msg \in EventMsgs /\ tasks[j].msg \in EventMsgs
         /\ tasks[i].msg.event = tasks[j].msg.event => i = j
    /\ \A i \in DOMAIN ready, j \in DOMAIN tasks :
         ready[i] \in EventMsgs /\ tasks[j].msg \in EventMsgs =>
             ready[i].event # tasks[j].msg.event
    /\ \A i \in DOMAIN ready :
         ready[i] \in EventMsgs => ready[i].event \in 1 .. Numbered
    /\ \A i \in DOMAIN tasks :
         tasks[i].msg \in EventMsgs => tasks[i].msg.event \in 1 .. Numbered

\* What a page has counted and what it is owed is what the store counted.
Counted(c) == view[c].total + Cardinality(Owing(c)) = total

CountInv == \A c \in Clients \ excused : Shown(c) => Counted(c)

LEMMA OwingIsFinite ==
  ASSUME IInv, NEW c \in Clients
  PROVE  IsFiniteSet(Owing(c)) /\ Cardinality(Owing(c)) \in Nat
<1>1. total \in Nat
  BY DEF IInv, TypeOK
<1>2. IsFiniteSet(1 .. total)
  BY <1>1, FS_Interval
<1>3. Owing(c) \subseteq 1 .. total
  BY DEF Owing
<1>4. IsFiniteSet(Owing(c))
  BY <1>2, <1>3, FS_Subset, Zenon
<1> QED BY <1>4, FS_CardinalityType, Zenon

\* A step that keeps the count, the page and what it is owed keeps its balance.
LEMMA Balanced ==
  ASSUME NEW c \in Clients, Counted(c), total' = total,
         view'[c].total = view[c].total,
         \A e \in 1 .. total : Owes(e, c)' <=> Owes(e, c)
  PROVE  Counted(c)'
<1>1. Owing(c)' = Owing(c)
  BY DEF Owing
<1> QED BY <1>1 DEF Counted

\* The page applies an event it was owed.
LEMMA Paid ==
  ASSUME IInv, NEW c \in Clients, Counted(c), total' = total,
         NEW e \in 1 .. total, Owes(e, c), ~ Owes(e, c)',
         \A f \in 1 .. total : f # e => (Owes(f, c)' <=> Owes(f, c)),
         view'[c].total = view[c].total + 1
  PROVE  Counted(c)'
<1>1. Owing(c)' = Owing(c) \ {e} /\ e \in Owing(c)
  BY DEF Owing
<1>2. IsFiniteSet(Owing(c)) /\ Cardinality(Owing(c)) \in Nat
  BY OwingIsFinite, Zenon
<1>3. Cardinality(Owing(c) \ {e}) = Cardinality(Owing(c)) - 1
  BY <1>1, <1>2, FS_RemoveElement
<1>4. view[c].total \in Nat
  BY DEF IInv, TypeOK
<1> QED BY <1>1, <1>2, <1>3, <1>4 DEF Counted

\* The store counts one more event, and every page is owed it.
LEMMA Charged ==
  ASSUME IInv, NEW c \in Clients, Counted(c), NEW e, e = total + 1, total' = e,
         ~ Owes(e, c), Owes(e, c)',
         \A f \in 1 .. total : Owes(f, c)' <=> Owes(f, c),
         view'[c].total = view[c].total
  PROVE  Counted(c)'
<1>1. total \in Nat /\ view[c].total \in Nat
  BY DEF IInv, TypeOK
<1>2. Owing(c)' = Owing(c) \cup {e} /\ e \notin Owing(c)
  <2>1. 1 .. total' = (1 .. total) \cup {e}
    BY <1>1
  <2> QED BY <2>1 DEF Owing
<1>3. IsFiniteSet(Owing(c)) /\ Cardinality(Owing(c)) \in Nat
  BY OwingIsFinite, Zenon
<1>4. Cardinality(Owing(c) \cup {e}) = Cardinality(Owing(c)) + 1
  BY <1>2, <1>3, FS_AddElement
<1> QED BY <1>1, <1>2, <1>3, <1>4 DEF Counted

\* The MQTT thread schedules a broadcast: of the event it counted, or of another
\* kind.
LEMMA ReadyGrows ==
  ASSUME IInv, OnceInv, NEW m \in Scheduled, ready' = Append(ready, m),
         total' = total, tasks' = tasks,
         \/ m \in EventMsgs /\ m.event = total
            /\ mq.todo = "emit_event" /\ mq'.todo # "emit_event"
         \/ m \notin EventMsgs /\ mq.todo # "emit_event"
            /\ mq'.todo # "emit_event"
  PROVE  OnceInv' /\ \A c, e : Owes(e, c)' <=> Owes(e, c)
<1>1. total \in Nat /\ ready \in Seq(Scheduled)
  BY ReadyLen DEF IInv, TypeOK
<1>2. /\ DOMAIN ready' = 1 .. Len(ready) + 1
      /\ DOMAIN ready = 1 .. Len(ready) /\ Len(ready) \in Nat
      /\ \A i \in DOMAIN ready : ready'[i] = ready[i]
      /\ ready'[Len(ready) + 1] = m
  BY <1>1, Appended
<1>3. /\ DOMAIN ready' = DOMAIN ready \cup {Len(ready) + 1}
      /\ Len(ready) + 1 \notin DOMAIN ready
  BY <1>2
<1>4. \A e : InReady(e)' <=> InReady(e) \/ (m \in EventMsgs /\ m.event = e)
  BY <1>2, <1>3, Zenon DEF InReady
<1>5. \A c, e : InTasks(e, c)' <=> InTasks(e, c)
  BY DEF InTasks
<1>6. \A c, e : Owes(e, c)' <=> Owes(e, c)
  BY <1>4, <1>5 DEF Owes
<1>7. OnceInv'
  <2>1. CASE m \in EventMsgs
    <3>1. Numbered = total - 1 /\ Numbered' = total /\ m.event = total
      BY <2>1 DEF Numbered
    <3>2. /\ \A i \in DOMAIN ready :
               ready[i] \in EventMsgs => ready[i].event \in 1 .. total /\ ready[i].event # total
          /\ \A i \in DOMAIN tasks :
               tasks[i].msg \in EventMsgs =>
                 tasks[i].msg.event \in 1 .. total /\ tasks[i].msg.event # total
      BY <1>1, <3>1 DEF OnceInv
    <3>3. total \in 1 .. total
      <4>1. total > 0
        BY <2>1 DEF OnceInv
      <4> QED BY <1>1, <4>1
    <3> QED BY <1>1, <1>2, <1>3, <3>1, <3>2, <3>3 DEF OnceInv
  <2>2. CASE m \notin EventMsgs
    <3>1. Numbered' = Numbered
      BY <2>2 DEF Numbered
    <3> QED BY <1>2, <1>3, <2>2, <3>1 DEF OnceInv
  <2> QED BY <2>1, <2>2
<1> QED BY <1>6, <1>7

\* A broadcast that waits in the queue starts, or ends before it starts.
LEMMA ReadyShrinks ==
  ASSUME IInv, OnceInv, ready # <<>>, ready' = Tail(ready),
         UNCHANGED <<total, mq, tasks>>
  PROVE  OnceInv'
<1>1. ready \in Seq(Scheduled)
  BY ReadyLen DEF IInv
<1>2. /\ DOMAIN ready = 1 .. Len(ready) /\ Len(ready) \in Nat \ {0}
      /\ DOMAIN ready' = 1 .. Len(ready) - 1
      /\ \A i \in 1 .. Len(ready) - 1 : ready'[i] = ready[i + 1]
  BY <1>1, Tailed
<1>3. \A i \in DOMAIN ready' : i + 1 \in DOMAIN ready /\ ready'[i] = ready[i + 1]
  BY <1>2
<1>4. \A i, j \in DOMAIN ready' : i + 1 = j + 1 => i = j
  BY <1>2
<1>5. Numbered' = Numbered
  BY DEF Numbered
<1> QED BY <1>3, <1>4, <1>5 DEF OnceInv

\* A broadcast of the queue yields at its first send, to the client at k.pos.
LEMMA Begun ==
  ASSUME IInv, OnceInv, ready # <<>>, ready' = Tail(ready),
         UNCHANGED <<total, mq>>,
         NEW k \in Tasks, tasks' = Append(tasks, k), k.msg = AsSent(Head(ready))
  PROVE  /\ OnceInv'
         /\ k.msg \notin EventMsgs => \A c, e : Owes(e, c)' <=> Owes(e, c)
         /\ k.msg \in EventMsgs =>
              /\ k.msg.event \in 1 .. total
              /\ \A c : Owes(k.msg.event, c)
                        /\ (Owes(k.msg.event, c)' <=> k.pos < c)
              /\ \A c, e : e # k.msg.event => (Owes(e, c)' <=> Owes(e, c))
<1> DEFINE m == Head(ready)
           n == Len(tasks)
<1>1. TypeOK /\ ready \in Seq(Scheduled) /\ tasks \in Seq(Tasks) /\ total \in Nat
  BY ReadyLen DEF IInv, TypeOK
<1>2. /\ m \in Scheduled /\ m = ready[1]
      /\ DOMAIN ready = 1 .. Len(ready) /\ Len(ready) \in Nat \ {0}
      /\ DOMAIN ready' = 1 .. Len(ready) - 1
      /\ \A i \in 1 .. Len(ready) - 1 : ready'[i] = ready[i + 1]
  BY <1>1, Tailed
<1>3. /\ DOMAIN tasks' = 1 .. n + 1 /\ DOMAIN tasks = 1 .. n /\ n \in Nat
      /\ \A i \in DOMAIN tasks : tasks'[i] = tasks[i]
      /\ tasks'[n + 1] = k
  BY <1>1, Appended
<1>4. k.msg \in EventMsgs => k.msg = m
  BY <1>1, <1>2, SentType, Kinds
<1> HIDE DEF m, n
<1>5. /\ 1 \in DOMAIN ready /\ ready[1] = m
      /\ \A i \in DOMAIN ready' :
           i + 1 \in DOMAIN ready /\ i + 1 # 1 /\ ready'[i] = ready[i + 1]
      /\ \A i \in DOMAIN ready : i # 1 =>
           \E j \in DOMAIN ready' : i = j + 1
      /\ \A i, j \in DOMAIN ready' : i + 1 = j + 1 => i = j
  <2>1. \A i \in DOMAIN ready : i # 1 =>
           i - 1 \in DOMAIN ready' /\ i = (i - 1) + 1
    BY <1>2
  <2>2. \A i \in DOMAIN ready : i # 1 =>
           \E j \in DOMAIN ready' : i = j + 1
    BY <2>1
  <2> QED BY <1>2, <2>2
<1>6. DOMAIN tasks' = DOMAIN tasks \cup {n + 1} /\ n + 1 \notin DOMAIN tasks
  BY <1>3
<1>7. Numbered' = Numbered
  BY DEF Numbered
<1>8. OnceInv'
  <2> USE <1>3, <1>4, <1>5, <1>6, <1>7 DEF OnceInv
  <2>1. mq'.todo = "emit_event" => total' > 0
    OBVIOUS
  <2>2. \A i, j \in DOMAIN ready' :
          ready'[i] \in EventMsgs /\ ready'[j] \in EventMsgs
          /\ ready'[i].event = ready'[j].event => i = j
    OBVIOUS
  <2>3. \A i, j \in DOMAIN tasks' :
         tasks'[i].msg \in EventMsgs /\ tasks'[j].msg \in EventMsgs
         /\ tasks'[i].msg.event = tasks'[j].msg.event => i = j
    OBVIOUS
  <2>4. \A i \in DOMAIN ready', j \in DOMAIN tasks' :
         ready'[i] \in EventMsgs /\ tasks'[j].msg \in EventMsgs =>
             ready'[i].event # tasks'[j].msg.event
    OBVIOUS
  <2>5. \A i \in DOMAIN ready' :
         ready'[i] \in EventMsgs => ready'[i].event \in 1 .. Numbered'
    OBVIOUS
  <2>6. \A i \in DOMAIN tasks' :
         tasks'[i].msg \in EventMsgs => tasks'[i].msg.event \in 1 .. Numbered'
    OBVIOUS
  <2> QED BY <2>1, <2>2, <2>3, <2>4, <2>5, <2>6
<1>9. \A c, e : InTasks(e, c)' <=>
        InTasks(e, c) \/ (k.msg \in EventMsgs /\ k.msg.event = e /\ k.pos < c)
  BY <1>3, <1>6, Zenon DEF InTasks
<1>10. CASE k.msg \notin EventMsgs
  <2>1. m \notin EventMsgs
    BY <1>1, <1>2, <1>10, SentType, Kinds DEF m
  <2>2. \A e : InReady(e)' <=> InReady(e)
    <3> TAKE e
    <3>1. ASSUME InReady(e)' PROVE InReady(e)
      BY <1>5, <3>1 DEF InReady
    <3>2. ASSUME InReady(e) PROVE InReady(e)'
      <4>1. PICK i \in DOMAIN ready : ready[i] \in EventMsgs /\ ready[i].event = e
        BY <3>2 DEF InReady
      <4>2. i # 1
        BY <1>5, <2>1, <4>1
      <4>3. PICK j \in DOMAIN ready' : i = j + 1
        BY <1>5, <4>2
      <4> QED BY <1>5, <4>1, <4>3 DEF InReady
    <3> QED BY <3>1, <3>2
  <2> QED BY <1>8, <1>9, <1>10, <2>2 DEF Owes
<1>11. CASE k.msg \in EventMsgs
  <2> DEFINE x == k.msg.event
  <2>1. k.msg = m /\ m \in EventMsgs /\ m.event = x
    BY <1>4, <1>11
  <2>2. InReady(x) /\ x \in 1 .. total /\ x \in 1 .. Numbered
    <3>1. InReady(x) /\ x \in 1 .. Numbered
      BY <1>5, <2>1 DEF InReady, OnceInv
    <3> QED BY <1>1, <3>1 DEF Numbered
  <2>3. ~ InReady(x)' /\ (\A c : ~ InTasks(x, c))
        /\ ~ (mq.todo = "emit_event" /\ x = total)
    <3>1. ~ InReady(x)'
      BY <1>5, <2>1 DEF InReady, OnceInv
    <3>2. \A c : ~ InTasks(x, c)
      BY <1>5, <2>1 DEF InTasks, OnceInv
    <3>3. ~ (mq.todo = "emit_event" /\ x = total)
      BY <1>1, <2>2 DEF Numbered
    <3> QED BY <3>1, <3>2, <3>3
  <2>4. \A e : e # x => (InReady(e)' <=> InReady(e))
    <3> SUFFICES ASSUME NEW e, e # x PROVE InReady(e)' <=> InReady(e)
      OBVIOUS
    <3>1. ASSUME InReady(e)' PROVE InReady(e)
      BY <1>5, <3>1 DEF InReady
    <3>2. ASSUME InReady(e) PROVE InReady(e)'
      <4>1. PICK i \in DOMAIN ready : ready[i] \in EventMsgs /\ ready[i].event = e
        BY <3>2 DEF InReady
      <4>2. i # 1
        BY <1>5, <2>1, <4>1
      <4>3. PICK j \in DOMAIN ready' : i = j + 1
        BY <1>5, <4>2
      <4> QED BY <1>5, <4>1, <4>3 DEF InReady
    <3> QED BY <3>1, <3>2
  <2>5. \A c : Owes(x, c) /\ (Owes(x, c)' <=> k.pos < c)
    BY <1>9, <1>11, <2>2, <2>3 DEF Owes
  <2>6. \A c, e : e # x => (Owes(e, c)' <=> Owes(e, c))
    BY <1>9, <2>4 DEF Owes
  <2> QED BY <1>8, <1>11, <2>2, <2>5, <2>6
<1> QED BY <1>10, <1>11

LEMMA TaskPlaces ==
  ASSUME IInv
  PROVE  /\ tasks \in Seq(Tasks) /\ \A j \in DOMAIN tasks : tasks[j].pos \in Int
         /\ total \in Nat /\ \A c \in Clients : c \in Int
<1>1. tasks \in Seq(Tasks) /\ total \in Nat
  BY DEF IInv, TypeOK
<1>2. \A c \in Clients : c \in Int
  BY ClientsAreNumbers
<1>3. \A j \in DOMAIN tasks : tasks[j].pos \in Clients
  <2>1. \A j \in DOMAIN tasks : tasks[j] \in Tasks
    BY <1>1
  <2> QED BY <2>1 DEF Tasks
<1> QED BY <1>1, <1>2, <1>3

\* The reaper broadcasts a status.
LEMMA StatusBegun ==
  ASSUME IInv, OnceInv, UNCHANGED <<total, mq, ready>>,
         NEW k \in Tasks, tasks' = Append(tasks, k), k.msg \notin EventMsgs
  PROVE  OnceInv' /\ \A c, e : Owes(e, c)' <=> Owes(e, c)
<1> DEFINE n == Len(tasks)
<1>1. tasks \in Seq(Tasks)
  BY ReadyLen DEF IInv
<1>2. /\ DOMAIN tasks' = 1 .. n + 1 /\ DOMAIN tasks = 1 .. n /\ n \in Nat
      /\ \A i \in DOMAIN tasks : tasks'[i] = tasks[i]
      /\ tasks'[n + 1] = k
  BY <1>1, Appended
<1> HIDE DEF n
<1>3. DOMAIN tasks' = DOMAIN tasks \cup {n + 1} /\ n + 1 \notin DOMAIN tasks
  BY <1>2
<1>4. \A c, e : InTasks(e, c)' <=> InTasks(e, c)
  BY <1>2, <1>3, Zenon DEF InTasks
<1>5. \A e : InReady(e)' <=> InReady(e)
  BY DEF InReady
<1>6. OnceInv'
  <2>1. Numbered' = Numbered
    BY DEF Numbered
  <2> QED BY <1>2, <1>3, <2>1 DEF OnceInv
<1> QED BY <1>4, <1>5, <1>6 DEF Owes

\* A broadcast ends: the pages behind it are not owed its event any more.
LEMMA TaskGone ==
  ASSUME IInv, OnceInv, UNCHANGED <<total, mq, ready>>,
         NEW i \in DOMAIN tasks, tasks' = RemoveAt(tasks, i)
  PROVE  /\ OnceInv'
         /\ \A c : ~ (c > tasks[i].pos) =>
              \A e : Owes(e, c)' <=> Owes(e, c)
<1>1. tasks \in Seq(Tasks) /\ \A j \in DOMAIN tasks : tasks[j].pos \in Int
  BY TaskPlaces
<1>2. /\ \A j \in DOMAIN tasks' : /\ Before(i, j) \in DOMAIN tasks \ {i}
                                  /\ tasks'[j] = tasks[Before(i, j)]
      /\ \A j, k \in DOMAIN tasks' : j < k => Before(i, j) < Before(i, k)
      /\ \A k \in DOMAIN tasks \ {i} :
           \E j \in DOMAIN tasks' : k = Before(i, j)
      /\ DOMAIN tasks = 1 .. Len(tasks) /\ Len(tasks) \in Nat
      /\ DOMAIN tasks' = 1 .. Len(tasks) - 1
  <2> DEFINE r == RemoveAt(tasks, i)
  <2>1. /\ \A j \in DOMAIN r : /\ Before(i, j) \in DOMAIN tasks \ {i}
                               /\ r[j] = tasks[Before(i, j)]
        /\ \A j, k \in DOMAIN r : j < k => Before(i, j) < Before(i, k)
        /\ \A k \in DOMAIN tasks \ {i} :
             \E j \in DOMAIN r : k = Before(i, j)
        /\ DOMAIN tasks = 1 .. Len(tasks) /\ Len(tasks) \in Nat
        /\ DOMAIN r = 1 .. Len(tasks) - 1
    BY <1>1, Removed
  <2> HIDE DEF r
  <2>2. tasks' = r
    BY DEF r
  <2> QED BY <2>1, <2>2
<1>3. \A j, k \in DOMAIN tasks' : Before(i, j) = Before(i, k) => j = k
  <2> TAKE j, k \in DOMAIN tasks'
  <2>1. j \in Int /\ k \in Int /\ Before(i, j) \in Int /\ Before(i, k) \in Int
    BY <1>2
  <2> QED BY <1>2, <2>1
<1>4. OnceInv'
  <2>1. Numbered' = Numbered
    BY DEF Numbered
  <2>2. \A j \in DOMAIN tasks' :
          Before(i, j) \in DOMAIN tasks /\ tasks'[j].msg = tasks[Before(i, j)].msg
    BY <1>2
  <2> QED BY <1>3, <2>1, <2>2 DEF OnceInv
<1>5. ASSUME NEW c, ~ (c > tasks[i].pos), NEW e
      PROVE  InTasks(e, c)' <=> InTasks(e, c)
  <2>1. ASSUME InTasks(e, c)' PROVE InTasks(e, c)
    BY <1>2, <2>1 DEF InTasks
  <2>2. ASSUME InTasks(e, c) PROVE InTasks(e, c)'
    <3>1. PICK k \in DOMAIN tasks :
            tasks[k].msg \in EventMsgs /\ tasks[k].msg.event = e /\ tasks[k].pos < c
      BY <2>2 DEF InTasks
    <3>2. k # i
      BY <1>5, <3>1
    <3>3. PICK j \in DOMAIN tasks' : k = Before(i, j)
      BY <1>2, <3>2
    <3> QED BY <1>2, <3>1, <3>3 DEF InTasks
  <2> QED BY <2>1, <2>2
<1>6. \A e : InReady(e)' <=> InReady(e)
  BY DEF InReady
<1> QED BY <1>4, <1>5, <1>6 DEF Owes

\* A broadcast goes on to client p: the pages it has passed are not owed its
\* event, those ahead of it still are.
LEMMA TaskMoves ==
  ASSUME IInv, OnceInv, UNCHANGED <<total, mq, ready>>,
         NEW i \in DOMAIN tasks, NEW p \in Clients, tasks[i].pos < p,
         tasks' \in Seq(Tasks), DOMAIN tasks' = DOMAIN tasks,
         tasks'[i].msg = tasks[i].msg, tasks'[i].pos = p,
         \A j \in DOMAIN tasks \ {i} : tasks'[j] = tasks[j]
  PROVE  /\ OnceInv'
         /\ \A c \in Clients : c <= tasks[i].pos \/ p < c =>
              \A e : Owes(e, c)' <=> Owes(e, c)
         /\ tasks[i].msg \notin EventMsgs =>
              \A c, e : Owes(e, c)' <=> Owes(e, c)
         /\ tasks[i].msg \in EventMsgs =>
              \E x \in 1 .. total :
                /\ x = tasks[i].msg.event /\ Owes(x, p) /\ ~ Owes(x, p)'
                /\ \A e : e # x => (Owes(e, p)' <=> Owes(e, p))
<1>1. /\ tasks \in Seq(Tasks) /\ \A j \in DOMAIN tasks : tasks[j].pos \in Int
      /\ p \in Int /\ total \in Nat /\ \A c \in Clients : c \in Int
  BY TaskPlaces
<1>2. \A j \in DOMAIN tasks : tasks'[j].msg = tasks[j].msg
  OBVIOUS
<1>3. OnceInv'
  <2>1. Numbered' = Numbered
    BY DEF Numbered
  <2> QED BY <1>2, <2>1 DEF OnceInv
<1>4. \A e : InReady(e)' <=> InReady(e)
  BY DEF InReady
<1>5. ASSUME NEW c \in Clients, c <= tasks[i].pos \/ p < c, NEW e
      PROVE  InTasks(e, c)' <=> InTasks(e, c)
  <2>1. p < c <=> tasks[i].pos < c
    <3>1. c \in Int /\ tasks[i].pos \in Int
      BY <1>1
    <3> QED BY <1>1, <1>5, <3>1
  <2>2. \A j \in DOMAIN tasks : tasks'[j].pos < c <=> tasks[j].pos < c
    BY <2>1
  <2> QED BY <1>2, <2>2 DEF InTasks
<1>6. ASSUME tasks[i].msg \notin EventMsgs, NEW c, NEW e
      PROVE  InTasks(e, c)' <=> InTasks(e, c)
  <2>1. \A j \in DOMAIN tasks : tasks[j].msg \in EventMsgs => tasks'[j] = tasks[j]
    BY <1>6
  <2> QED BY <1>2, <2>1 DEF InTasks
<1>7. ASSUME tasks[i].msg \in EventMsgs
      PROVE  \E x \in 1 .. total :
                /\ x = tasks[i].msg.event /\ Owes(x, p) /\ ~ Owes(x, p)'
                /\ \A e : e # x => (Owes(e, p)' <=> Owes(e, p))
  <2>1. PICK x : x = tasks[i].msg.event
    OBVIOUS
  <2>2. x \in 1 .. total /\ ~ (mq.todo = "emit_event" /\ x = total)
    <3>1. x \in 1 .. Numbered
      BY <1>7, <2>1 DEF OnceInv
    <3> QED BY <1>1, <3>1 DEF Numbered
  <2>3. InTasks(x, p) /\ ~ InReady(x)
    BY <1>7, <2>1 DEF InTasks, InReady, OnceInv
  <2>4. ~ InTasks(x, p)'
    <3>1. \A j \in DOMAIN tasks : j # i => ~ (tasks[j].msg \in EventMsgs
                                             /\ tasks[j].msg.event = x)
      BY <1>7, <2>1 DEF OnceInv
    <3>2. ~ (tasks'[i].pos < p)
      BY <1>1
    <3> QED BY <1>2, <3>1, <3>2 DEF InTasks
  <2>5. \A e : e # x => (InTasks(e, p)' <=> InTasks(e, p))
    <3>1. \A j \in DOMAIN tasks : tasks[j].msg.event # x => tasks'[j] = tasks[j]
      BY <2>1
    <3> QED BY <1>2, <3>1 DEF InTasks
  <2> QED BY <1>4, <2>1, <2>2, <2>3, <2>4, <2>5 DEF Owes
<1> QED BY <1>3, <1>4, <1>5, <1>6, <1>7 DEF Owes

FeedInv == IInv /\ OnceInv /\ CountInv

\* No page counts, joins or is owed anything in this step.
LEMMA NothingCounted ==
  ASSUME FeedInv, total' = total,
         \A c, e : Owes(e, c)' <=> Owes(e, c),
         \A c \in Clients : view'[c].total = view[c].total,
         UNCHANGED <<conn, ws_clients, excused>>
  PROVE  CountInv'
<1> SUFFICES ASSUME NEW c \in Clients \ excused, Shown(c)
             PROVE  Counted(c)'
  BY DEF CountInv, Shown
<1>1. Counted(c)
  BY DEF FeedInv, CountInv
<1> QED BY <1>1, Balanced

\* Nor does a broadcast, a page or the queue change.
LEMMA OnceFrame ==
  ASSUME FeedInv, UNCHANGED <<total, ready, tasks>>,
         mq'.todo # "emit_event", mq.todo # "emit_event"
  PROVE  OnceInv' /\ \A c, e : Owes(e, c)' <=> Owes(e, c)
<1>1. Numbered' = Numbered
  BY DEF Numbered
<1>2. OnceInv'
  BY <1>1 DEF FeedInv, OnceInv
<1>3. \A c, e : (InReady(e)' <=> InReady(e)) /\ (InTasks(e, c)' <=> InTasks(e, c))
  BY DEF InReady, InTasks
<1> QED BY <1>2, <1>3 DEF Owes

\* An open page that is served takes the message of every broadcast that has not
\* passed it.
LEMMA ShownTakes ==
  ASSUME NEW c \in Clients, Shown(c), NEW pos
  PROVE  c \in Takers(pos) <=> c > pos
  BY DEF Shown, Takers, After

LEMMA FrameCounts ==
  ASSUME FeedInv, NEW g \in Gateways, EventFrame(g)
  PROVE  OnceInv' /\ CountInv'
<1>1. /\ mq.todo = "idle" /\ total' = total + 1 /\ mq'.todo = "emit_event"
      /\ UNCHANGED <<ready, tasks, pageVars>>
  BY DEF EventFrame, Accepts, Room, MqIdle
<1>2. total \in Nat
  BY DEF FeedInv, IInv, TypeOK
<1>3. Numbered' = Numbered /\ Numbered = total
  BY <1>1, <1>2 DEF Numbered
<1>4. OnceInv'
  BY <1>1, <1>2, <1>3 DEF FeedInv, OnceInv
<1>5. \A c, e : (InReady(e)' <=> InReady(e)) /\ (InTasks(e, c)' <=> InTasks(e, c))
  BY <1>1 DEF InReady, InTasks
<1>6. ASSUME NEW c \in Clients \ excused, Shown(c)
      PROVE  Counted(c)'
  <2>1. PICK e : e = total + 1
    OBVIOUS
  <2>2. e \notin 1 .. total
    BY <1>2, <2>1
  <2>3. ~ Owes(e, c)
    BY <1>1, <1>3, <2>2 DEF Owes, InReady, InTasks, FeedInv, OnceInv
  <2>4. Owes(e, c)'
    BY <1>1, <2>1 DEF Owes
  <2>5. \A f \in 1 .. total : Owes(f, c)' <=> Owes(f, c)
    BY <1>1, <1>2, <1>5, <2>1, <2>2 DEF Owes
  <2>6. Counted(c) /\ view'[c].total = view[c].total /\ total' = e
    BY <1>1, <1>6, <2>1 DEF FeedInv, CountInv, pageVars
  <2> QED BY <2>1, <2>3, <2>4, <2>5, <2>6, Charged DEF FeedInv
<1>7. CountInv'
  BY <1>1, <1>6 DEF CountInv, Shown, pageVars
<1> QED BY <1>4, <1>7

\* What else the MQTT thread and the broker do changes no page and no debt.
LEMMA MqttOwes ==
  ASSUME FeedInv,
         \/ \E g \in Gateways : TouchGateway(g) \/ Silence(g)
         \/ ScheduleEvent \/ ScheduleGateway \/ ScheduleTransport
         \/ OnConnect \/ OnDisconnect \/ Reconfigure
  PROVE  /\ total' = total /\ UNCHANGED <<conn, ws_clients, view, excused, tasks>>
         /\ OnceInv' /\ \A c, e : Owes(e, c)' <=> Owes(e, c)
<1>1. total \in Nat /\ mq.todo \in Todos /\ up \in BOOLEAN
  BY DEF FeedInv, IInv, TypeOK, Todos
<1>2. /\ total' = total /\ UNCHANGED <<conn, ws_clients, view, excused>>
      /\ tasks' = tasks
  BY DEF TouchGateway, Silence, ScheduleEvent, ScheduleGateway, storeVars,
         ScheduleTransport, OnConnect, OnDisconnect, Reconfigure, pageVars
<1>3. OnceInv' /\ \A c, e : Owes(e, c)' <=> Owes(e, c)
  <2>1. CASE ScheduleEvent
    <3> DEFINE m == [event |-> total]
    <3>1. m \in EventMsgs /\ m \in Scheduled
      BY <1>1, ScheduledMsgs
    <3>2. ready' = Append(ready, m) /\ m.event = total
          /\ mq.todo = "emit_event" /\ mq'.todo # "emit_event"
      <4>1. mq' = [mq EXCEPT !.todo = "touch"] /\ mq \in [todo : Todos, gw : Gateways \cup {1}]
        BY <2>1 DEF ScheduleEvent, FeedInv, IInv, TypeOK, Todos
      <4> QED BY <2>1, <4>1 DEF ScheduleEvent
    <3> HIDE DEF m
    <3> QED BY <1>2, <3>1, <3>2, ReadyGrows DEF FeedInv
  <2>2. CASE ScheduleGateway
    <3> DEFINE m == [gateway |-> mq.gw]
    <3>1. m \in GatewayMsgs /\ m \in Scheduled /\ m \notin EventMsgs
      <4>1. mq.gw \in Gateways
        BY <2>2 DEF ScheduleGateway, FeedInv, IInv, MqInv
      <4> QED BY <4>1, ScheduledMsgs, Kinds
    <3>2. ready' = Append(ready, m)
          /\ mq.todo # "emit_event" /\ mq'.todo # "emit_event"
      BY <2>2 DEF ScheduleGateway, MqIdle
    <3> HIDE DEF m
    <3> QED BY <1>2, <3>1, <3>2, ReadyGrows DEF FeedInv
  <2>3. CASE ScheduleTransport
    <3> DEFINE m == [connected |-> up]
    <3>1. m \in TransportMsgs /\ m \in Scheduled /\ m \notin EventMsgs
      <4>1. m \in TransportMsgs
        BY <1>1, ScheduledMsgs, Zenon
      <4> QED BY <4>1, ScheduledMsgs, Kinds
    <3>2. ready' = Append(ready, m)
          /\ mq.todo # "emit_event" /\ mq'.todo # "emit_event"
      BY <2>3 DEF ScheduleTransport, MqIdle
    <3> HIDE DEF m
    <3> QED BY <1>2, <3>1, <3>2, ReadyGrows DEF FeedInv
  <2>4. CASE Reconfigure
    <3> DEFINE m == [connected |-> FALSE]
    <3>1. mq' = mq /\ mq.todo # "emit_event"
          /\ (ready' = Append(ready, m) \/ ready' = ready)
      BY <2>4 DEF Reconfigure, StopSource, Room, MqIdle
    <3>2. m \in Scheduled /\ m \notin EventMsgs
      <4>1. FALSE \in BOOLEAN
        OBVIOUS
      <4>2. m \in TransportMsgs
        BY <4>1, ScheduledMsgs, Zenon
      <4> QED BY <4>2, ScheduledMsgs, Kinds
    <3> HIDE DEF m
    <3>3. CASE ready' = Append(ready, m)
      BY <1>2, <3>1, <3>2, <3>3, ReadyGrows DEF FeedInv
    <3>4. CASE ready' = ready
      BY <1>2, <3>1, <3>4, OnceFrame
    <3> QED BY <3>1, <3>3, <3>4
  <2>5. CASE \/ \E g \in Gateways : TouchGateway(g) \/ Silence(g)
             \/ OnConnect \/ OnDisconnect
    <3>1. ready' = ready /\ mq.todo # "emit_event" /\ mq'.todo # "emit_event"
      BY <2>5 DEF TouchGateway, Silence, OnConnect, OnDisconnect, Accepts, Room,
                  MqIdle
    <3> QED BY <1>2, <3>1, OnceFrame
  <2> QED BY <2>1, <2>2, <2>3, <2>4, <2>5
<1> QED BY <1>2, <1>3

LEMMA MqttCounts ==
  ASSUME FeedInv,
         \/ \E g \in Gateways : TouchGateway(g) \/ Silence(g)
         \/ ScheduleEvent \/ ScheduleGateway \/ ScheduleTransport
         \/ OnConnect \/ OnDisconnect \/ Reconfigure
  PROVE  OnceInv' /\ CountInv'
<1>1. /\ total' = total /\ UNCHANGED <<conn, ws_clients, view, excused, tasks>>
      /\ OnceInv' /\ \A c, e : Owes(e, c)' <=> Owes(e, c)
  BY MqttOwes
<1> QED BY <1>1, NothingCounted

\* A broadcast that nobody takes finds no page that is shown.
LEMMA NobodyShown ==
  ASSUME FeedInv, Takers(0) = {}, NEW c \in Clients
  PROVE  ~ Shown(c)
<1>1. c > 0
  BY ClientsAreNumbers
<1> QED BY <1>1, ShownTakes

LEMMA StartCounts ==
  ASSUME FeedInv, StartTask
  PROVE  OnceInv' /\ CountInv'
<1>1. /\ ready # <<>> /\ ready' = Tail(ready)
      /\ UNCHANGED <<total, mq, conn, excused>>
  BY DEF StartTask, storeVars
<1>2. TypeOK /\ ready \in Seq(Scheduled) /\ IInv /\ OnceInv
  BY ReadyLen DEF FeedInv, IInv
<1>3. CASE NobodyTakes
  <2>1. /\ Takers(0) = {} /\ ws_clients' = ws_clients \ Failing(0)
        /\ tasks' = tasks
    BY <1>3 DEF NobodyTakes
  <2>2. CountInv'
    BY <1>1, <2>1, NobodyShown DEF CountInv, Shown
  <2> QED BY <1>1, <1>2, <2>1, <2>2, ReadyShrinks
<1>4. CASE Begin(Head(ready), FALSE)
  <2>1. Head(ready) \in Scheduled
    BY <1>1, <1>2, Tailed
  <2>2. PICK p \in Takers(0), k \in Tasks :
           /\ \A d \in Takers(0) : p <= d
           /\ k.msg = AsSent(Head(ready)) /\ k.pos = p
           /\ tasks' = Append(tasks, k)
           /\ view' = [view EXCEPT ![p] = Apply(view[p], AsSent(Head(ready)))]
           /\ ws_clients' = ws_clients
    BY <1>2, <1>4, <2>1, BeginEffect, Zenon
  <2>3. p \in Clients /\ k.msg \in Sent
    BY <1>2, <2>1, <2>2, TakersAreClients, SentType
  <2>4. /\ view'[p] = Apply(view[p], k.msg) /\ view[p] \in Views
        /\ \A d \in Clients \ {p} : view'[d] = view[d]
    <3>1. view' = [view EXCEPT ![p] = Apply(view[p], k.msg)]
      BY <2>2
    <3> QED BY <1>2, <2>3, <3>1, ViewType, Zenon
  <2>5. /\ OnceInv'
        /\ k.msg \notin EventMsgs => \A c, e : Owes(e, c)' <=> Owes(e, c)
        /\ k.msg \in EventMsgs =>
              /\ k.msg.event \in 1 .. total
              /\ \A c : Owes(k.msg.event, c)
                        /\ (Owes(k.msg.event, c)' <=> k.pos < c)
              /\ \A c, e : e # k.msg.event => (Owes(e, c)' <=> Owes(e, c))
    BY <1>1, <1>2, <2>2, Begun
  <2>6. CASE k.msg \notin EventMsgs
    <3>1. view'[p].total = view[p].total
      BY <2>3, <2>4, <2>6, AppliedOther, Zenon
    <3>2. \A c \in Clients : view'[c].total = view[c].total
      BY <2>4, <3>1
    <3> QED BY <1>1, <2>2, <2>5, <2>6, <3>2, NothingCounted
  <2>7. CASE k.msg \in EventMsgs
    <3> DEFINE x == k.msg.event
    <3>1. view'[p].total = view[p].total + 1
      BY <2>4, <2>7, AppliedEvent
    <3>2. ASSUME NEW c \in Clients \ excused, Shown(c)
          PROVE  Counted(c)'
      <4>1. Counted(c) /\ c \in Clients
        BY <3>2 DEF FeedInv, CountInv
      <4>2. p <= c /\ p \in Int /\ c \in Int
        <5>1. c \in Takers(0)
          BY <3>2, ShownTakes, ClientsAreNumbers
        <5> QED BY <2>2, <2>3, <5>1, ClientsAreNumbers
      <4>3. x \in 1 .. total /\ Owes(x, c) /\ (Owes(x, c)' <=> p < c)
            /\ \A e : e # x => (Owes(e, c)' <=> Owes(e, c))
        BY <2>2, <2>5, <2>7
      <4> HIDE DEF x
      <4>4. CASE c = p
        <5>1. ~ Owes(x, c)'
          BY <4>2, <4>3, <4>4
        <5> QED BY <1>1, <1>2, <3>1, <4>1, <4>3, <4>4, <5>1, Paid
      <4>5. CASE c # p
        <5>1. p < c
          BY <4>2, <4>5
        <5>2. view'[c] = view[c]
          BY <2>4, <4>1, <4>5
        <5>3. \A e : Owes(e, c)' <=> Owes(e, c)
          BY <4>3, <5>1
        <5> QED BY <1>1, <4>1, <5>2, <5>3, Balanced
      <4> QED BY <4>4, <4>5
    <3>3. CountInv'
      BY <1>1, <2>2, <3>2 DEF CountInv, Shown
    <3> QED BY <2>5, <3>3
  <2> QED BY <2>6, <2>7
<1> QED BY <1>3, <1>4 DEF StartTask

LEMMA ResumeCounts ==
  ASSUME FeedInv, NEW i \in DOMAIN tasks,
         TaskRaises(i) \/ TaskSends(i) \/ TaskEnds(i)
  PROVE  OnceInv' /\ CountInv'
<1>0. IInv /\ TypeOK /\ OnceInv /\ tasks[i].pos \in Int
      /\ \A c \in Clients : c \in Int
  BY TaskPlaces DEF FeedInv, IInv
<1>1. CASE TaskRaises(i)
  <2>1. /\ tasks' = RemoveAt(tasks, i)
        /\ excused' = excused \cup After(tasks[i].pos)
        /\ UNCHANGED <<total, mq, ready, conn, ws_clients, view>>
    BY <1>1 DEF TaskRaises, storeVars
  <2>2. OnceInv' /\ \A c : ~ (c > tasks[i].pos) =>
                       \A e : Owes(e, c)' <=> Owes(e, c)
    BY <1>0, <2>1, TaskGone
  <2>3. ASSUME NEW c \in Clients \ excused', Shown(c)'
        PROVE  Counted(c)'
    <3>1. Shown(c) /\ c \notin excused /\ ~ (c > tasks[i].pos)
      BY <2>1, <2>3 DEF Shown, After
    <3>2. Counted(c)
      BY <3>1 DEF FeedInv, CountInv
    <3> QED BY <2>1, <2>2, <3>1, <3>2, Balanced
  <2> QED BY <2>2, <2>3 DEF CountInv
<1>2. CASE TaskEnds(i)
  <2>1. /\ Takers(tasks[i].pos) = {} /\ tasks' = RemoveAt(tasks, i)
        /\ ws_clients' \subseteq ws_clients
        /\ UNCHANGED <<total, mq, ready, conn, view, excused>>
    BY <1>2 DEF TaskEnds, storeVars
  <2>2. OnceInv' /\ \A c : ~ (c > tasks[i].pos) =>
                       \A e : Owes(e, c)' <=> Owes(e, c)
    BY <1>0, <2>1, TaskGone
  <2>3. ASSUME NEW c \in Clients \ excused', Shown(c)'
        PROVE  Counted(c)'
    <3>1. Shown(c)
      BY <2>1, <2>3 DEF Shown
    <3>2. Counted(c) /\ ~ (c > tasks[i].pos)
      BY <2>1, <2>3, <3>1, ShownTakes DEF FeedInv, CountInv
    <3> QED BY <2>1, <2>2, <3>2, Balanced
  <2> QED BY <2>2, <2>3 DEF CountInv
<1>3. CASE TaskSends(i)
  <2>1. PICK p \in Takers(tasks[i].pos), k \in Tasks :
          /\ \A d \in Takers(tasks[i].pos) : p <= d
          /\ k.msg = tasks[i].msg /\ k.pos = p
          /\ k.size = tasks[i].size
          /\ k.dead = tasks[i].dead \cup Failing(tasks[i].pos)
          /\ k.byReaper = tasks[i].byReaper
          /\ tasks' \in Seq(Tasks) /\ DOMAIN tasks' = DOMAIN tasks
          /\ tasks'[i] = k
          /\ \A j \in DOMAIN tasks \ {i} : tasks'[j] = tasks[j]
          /\ view' = [view EXCEPT ![p] = Apply(view[p], k.msg)]
    BY <1>0, <1>3, SendEffect, Zenon
  <2>2. UNCHANGED <<total, mq, ready, conn, ws_clients, excused>>
    BY <1>3 DEF TaskSends, storeVars
  <2>3. p \in Clients /\ p > tasks[i].pos /\ k.msg \in Sent
    BY <1>0, <2>1, TakersAreClients DEF Tasks, Sent
  <2>4. /\ view'[p] = Apply(view[p], k.msg) /\ view[p] \in Views
        /\ \A d \in Clients \ {p} : view'[d] = view[d]
    BY <1>0, <2>1, <2>3, ViewType, Zenon
  <2>5. /\ OnceInv'
        /\ \A c \in Clients : c <= tasks[i].pos \/ p < c =>
              \A e : Owes(e, c)' <=> Owes(e, c)
        /\ tasks[i].msg \notin EventMsgs =>
              \A c, e : Owes(e, c)' <=> Owes(e, c)
        /\ tasks[i].msg \in EventMsgs =>
              \E x \in 1 .. total :
                /\ x = tasks[i].msg.event /\ Owes(x, p) /\ ~ Owes(x, p)'
                /\ \A e : e # x => (Owes(e, p)' <=> Owes(e, p))
    <3>1. tasks[i].pos < p /\ tasks'[i].msg = tasks[i].msg /\ tasks'[i].pos = p
      BY <1>0, <2>1, <2>3
    <3> QED BY <1>0, <2>1, <2>2, <2>3, <3>1, TaskMoves
  <2>6. CASE k.msg \notin EventMsgs
    <3>1. view'[p].total = view[p].total
      BY <2>3, <2>4, <2>6, AppliedOther, Zenon
    <3>2. \A c \in Clients : view'[c].total = view[c].total
      BY <2>4, <3>1
    <3> QED BY <2>1, <2>2, <2>5, <2>6, <3>2, NothingCounted
  <2>7. CASE k.msg \in EventMsgs
    <3>1. view'[p].total = view[p].total + 1
      BY <2>4, <2>7, AppliedEvent
    <3>2. ASSUME NEW c \in Clients \ excused, Shown(c)
          PROVE  Counted(c)'
      <4>1. Counted(c) /\ c \in Clients /\ c \in Int /\ p \in Int
        BY <1>0, <2>3, <3>2 DEF FeedInv, CountInv
      <4>2. CASE c = p
        <5>1. PICK x \in 1 .. total :
                /\ Owes(x, c) /\ ~ Owes(x, c)'
                /\ \A e : e # x => (Owes(e, c)' <=> Owes(e, c))
          BY <2>1, <2>5, <2>7, <4>2
        <5>2. view'[c].total = view[c].total + 1
          BY <3>1, <4>2
        <5> QED BY <1>0, <2>2, <4>1, <5>1, <5>2, Paid
      <4>3. CASE c # p
        <5>1. c <= tasks[i].pos \/ p < c
          <6>1. c > tasks[i].pos => p <= c
            BY <2>1, <3>2, ShownTakes
          <6> QED BY <1>0, <4>1, <4>3, <6>1
        <5>2. view'[c] = view[c]
          BY <2>4, <4>1, <4>3
        <5> QED BY <2>2, <2>5, <4>1, <5>1, <5>2, Balanced
      <4> QED BY <4>2, <4>3
    <3>3. CountInv'
      BY <2>2, <3>2 DEF CountInv, Shown
    <3> QED BY <2>5, <3>3
  <2> QED BY <2>6, <2>7
<1> QED BY <1>1, <1>2, <1>3

LEMMA ReaperCounts ==
  ASSUME FeedInv, Reaper
  PROVE  OnceInv' /\ CountInv'
<1>0. IInv /\ TypeOK /\ OnceInv
  BY DEF FeedInv, IInv
<1>1. CASE ReapFlips
  <2>1. UNCHANGED <<total, mq, ready, tasks, pageVars>>
    BY <1>1 DEF ReapFlips, Flip
  <2>2. Numbered' = Numbered
    BY <2>1 DEF Numbered
  <2>3. OnceInv' /\ \A c, e : Owes(e, c)' <=> Owes(e, c)
    BY <1>0, <2>1, <2>2 DEF OnceInv, Owes, InReady, InTasks
  <2> QED BY <2>1, <2>3, NothingCounted DEF pageVars
<1>2. CASE ReapEmits
  <2> DEFINE g == First(reaper.todo)
             m == [gateway |-> g]
  <2>1. /\ reaper.at = "emit"
        /\ NobodyTakes \/ Begin(m, TRUE)
        /\ UNCHANGED <<total, mq, ready, conn, excused>>
    BY <1>2, Zenon DEF ReapEmits, storeVars
  <2>2. g \in Gateways
    <3>1. reaper.todo \subseteq Gateways /\ reaper.todo # {}
      BY <1>0, <2>1 DEF IInv, TypeOK, ReaperInv
    <3>2. reaper.todo \subseteq Nat
      BY <3>1, FeedAssumption DEF Gateways
    <3>3. g \in reaper.todo
      BY <3>1, <3>2, FirstIsLeast, Zenon
    <3> QED BY <3>1, <3>3
  <2>3. m \in GatewayMsgs /\ m \in Scheduled
    BY <2>2, ScheduledMsgs, Zenon
  <2> HIDE DEF g, m
  <2>4. CASE NobodyTakes
    <3>1. Takers(0) = {} /\ ws_clients' = ws_clients \ Failing(0)
          /\ tasks' = tasks
      BY <2>4 DEF NobodyTakes
    <3>2. CountInv'
      BY <2>1, <3>1, NobodyShown DEF CountInv, Shown
    <3>3. Numbered' = Numbered
      BY <2>1 DEF Numbered
    <3>4. OnceInv'
      BY <1>0, <2>1, <3>1, <3>3 DEF OnceInv
    <3> QED BY <3>2, <3>4
  <2>5. CASE Begin(m, TRUE)
    <3>1. TRUE \in BOOLEAN
      OBVIOUS
    <3>2. PICK p \in Takers(0), k \in Tasks :
            /\ k.msg = AsSent(m)
            /\ tasks' = Append(tasks, k)
            /\ view' = [view EXCEPT ![p] = Apply(view[p], AsSent(m))]
            /\ ws_clients' = ws_clients
      BY <1>0, <2>3, <2>5, <3>1, BeginEffect, Zenon
    <3>3. k.msg \notin EventMsgs /\ k.msg \in Sent /\ p \in Clients
      BY <1>0, <2>3, <3>2, SentType, Kinds, TakersAreClients
    <3>4. /\ view'[p] = Apply(view[p], k.msg) /\ view[p] \in Views
          /\ \A d \in Clients \ {p} : view'[d] = view[d]
      <4>1. view' = [view EXCEPT ![p] = Apply(view[p], k.msg)]
        BY <3>2
      <4> QED BY <1>0, <3>3, <4>1, ViewType, Zenon
    <3>5. OnceInv' /\ \A c, e : Owes(e, c)' <=> Owes(e, c)
      BY <1>0, <2>1, <3>2, <3>3, StatusBegun
    <3>6. view'[p].total = view[p].total
      BY <3>3, <3>4, AppliedOther, Zenon
    <3>7. \A c \in Clients : view'[c].total = view[c].total
      BY <3>4, <3>6
    <3> QED BY <2>1, <3>2, <3>5, <3>7, NothingCounted
  <2> QED BY <2>1, <2>4, <2>5
<1> QED BY <1>1, <1>2 DEF Reaper

\* Nothing is on its way in a quiet state.
LEMMA QuietOwesNothing ==
  ASSUME FeedInv, Quiet, NEW c \in Clients
  PROVE  Cardinality(Owing(c)) = 0
<1>1. DOMAIN ready = {} /\ DOMAIN tasks = {} /\ mq.todo = "idle"
  BY DEF Quiet, MqIdle
<1>2. Owing(c) = {}
  BY <1>1 DEF Owing, Owes, InReady, InTasks
<1> QED BY <1>2, FS_EmptySet

LEMMA BrowserCounts ==
  ASSUME FeedInv, NEW c \in Clients, Join(c) \/ Leave(c) \/ Discard(c)
  PROVE  OnceInv' /\ CountInv'
<1>0. IInv /\ TypeOK /\ OnceInv /\ view \in [Clients -> Views]
      /\ conn \in [Clients -> {"away", "open", "gone"}] /\ total \in Nat
  BY DEF FeedInv, IInv, TypeOK, Views
<1>1. Numbered' = Numbered /\ total' = total /\ mq' = mq /\ ready' = ready
  BY DEF Join, Leave, Discard, Numbered, storeVars
<1>2. DOMAIN tasks' = DOMAIN tasks
      /\ \A i \in DOMAIN tasks : tasks'[i].msg = tasks[i].msg
                                 /\ tasks'[i].pos = tasks[i].pos
  <2>1. CASE Discard(c)
    BY <1>0, <2>1, DiscardEffect
  <2>2. CASE Join(c) \/ Leave(c)
    BY <2>2 DEF Join, Leave
  <2> QED BY <2>1, <2>2
<1>3. OnceInv'
  BY <1>0, <1>1, <1>2 DEF OnceInv
<1>4. \A d, e : Owes(e, d)' <=> Owes(e, d)
  <2>1. \A d, e : (InReady(e)' <=> InReady(e)) /\ (InTasks(e, d)' <=> InTasks(e, d))
    BY <1>1, <1>2 DEF InReady, InTasks
  <2> QED BY <1>1, <2>1 DEF Owes
<1>5. CASE Join(c)
  <2>1. /\ conn' = [conn EXCEPT ![c] = "open"]
        /\ ws_clients' = ws_clients \cup {c}
        /\ view' = [view EXCEPT ![c] = Snapshot]
        /\ excused' = IF Quiet THEN excused \ {c} ELSE excused \cup {c}
    BY <1>5 DEF Join
  <2>2. ASSUME NEW d \in Clients \ excused', Shown(d)'
        PROVE  Counted(d)'
    <3>1. CASE d = c
      <4>1. Quiet
        BY <2>1, <2>2, <3>1
      <4>2. view'[c].total = total
        BY <1>0, <2>1 DEF Snapshot
      <4>3. Owing(c)' = Owing(c)
        BY <1>1, <1>4 DEF Owing
      <4> QED BY <1>0, <1>1, <3>1, <4>1, <4>2, <4>3, QuietOwesNothing DEF Counted
    <3>2. CASE d # c
      <4>1. Shown(d) /\ d \notin excused /\ view'[d] = view[d]
        BY <1>0, <2>1, <2>2, <3>2 DEF Shown
      <4>2. Counted(d)
        BY <4>1 DEF FeedInv, CountInv
      <4> QED BY <1>1, <1>4, <4>1, <4>2, Balanced
    <3> QED BY <3>1, <3>2
  <2> QED BY <1>3, <2>2 DEF CountInv
<1>6. CASE Leave(c) \/ Discard(c)
  <2>1. /\ conn' \in {[conn EXCEPT ![c] = "gone"], [conn EXCEPT ![c] = "away"]}
        /\ ws_clients' \subseteq ws_clients /\ view' = view /\ excused' = excused
    BY <1>6 DEF Leave, Discard
  <2>2. ASSUME NEW d \in Clients \ excused', Shown(d)'
        PROVE  Counted(d)'
    <3>1. Shown(d) /\ d \notin excused
      BY <1>0, <2>1, <2>2 DEF Shown
    <3>2. Counted(d)
      BY <3>1 DEF FeedInv, CountInv
    <3> QED BY <1>1, <1>4, <2>1, <3>2, Balanced
  <2> QED BY <1>3, <2>2 DEF CountInv
<1> QED BY <1>5, <1>6

LEMMA CountInit == Init => OnceInv /\ CountInv
<1> SUFFICES ASSUME Init PROVE OnceInv /\ CountInv
  OBVIOUS
<1>1. DOMAIN ready = {} /\ DOMAIN tasks = {} /\ mq.todo = "idle"
  BY DEF Init, MqIdle
<1>2. \A c \in Clients : ~ Shown(c)
  BY DEF Init, Shown
<1> QED BY <1>1, <1>2 DEF OnceInv, CountInv

LEMMA CountNext == FeedInv /\ [Next]_vars => OnceInv' /\ CountInv'
<1> SUFFICES ASSUME FeedInv, [Next]_vars PROVE OnceInv' /\ CountInv'
  OBVIOUS
<1>1. CASE \E g \in Gateways : EventFrame(g)
  BY <1>1, FrameCounts
<1>2. CASE \/ \E g \in Gateways : TouchGateway(g) \/ Silence(g)
           \/ Broker \/ Reconfigure
  BY <1>2, MqttCounts DEF Broker
<1>3. CASE MqttThread
  <2>1. mq.todo = "touch" => mq.gw \in Gateways
    BY DEF FeedInv, IInv, MqInv
  <2> QED BY <1>3, <2>1, MqttCounts DEF MqttThread
<1>4. CASE Loop
  BY <1>4, StartCounts, ResumeCounts DEF Loop, Resume
<1>5. CASE Reaper
  BY <1>5, ReaperCounts
<1>6. CASE Browser
  BY <1>6, BrowserCounts DEF Browser
<1>7. CASE UNCHANGED vars
  <2>1. UNCHANGED <<total, mq, ready, tasks, pageVars>>
    BY <1>7 DEF vars, storeVars
  <2>2. Numbered' = Numbered
    BY <2>1 DEF Numbered
  <2>3. OnceInv' /\ \A c, e : Owes(e, c)' <=> Owes(e, c)
    BY <2>1, <2>2 DEF FeedInv, OnceInv, Owes, InReady, InTasks
  <2> QED BY <2>1, <2>3, NothingCounted DEF pageVars
<1>8. CASE DuplicateFrame
  BY <1>7, <1>8 DEF DuplicateFrame
<1> QED BY <1>1, <1>2, <1>3, <1>4, <1>5, <1>6, <1>7, <1>8 DEF Next, Frame

LEMMA Counts == Spec => []FeedInv
<1>1. Init => OnceInv /\ CountInv
  BY CountInit
<1>2. FeedInv <=> IInv /\ (OnceInv /\ CountInv)
  BY DEF FeedInv
<1>3. (IInv /\ (OnceInv /\ CountInv)) /\ [Next]_vars => (OnceInv /\ CountInv)'
  BY CountNext DEF FeedInv
<1> QED BY <1>1, <1>2, <1>3, Invariance, PTL DEF Spec

\* When nothing is on its way, every page counts every event once, unless it
\* joined during a broadcast or was missed by one that raised: store.add_event,
\* the scheduled broadcasts and addEvent of the page agree, although broadcasts
\* overtake each other, clients come and go during an iteration over ws_clients,
\* and a snapshot is sent between two sends.
THEOREM EveryPageCounts == Spec => []PagesCountEvents
<1>1. ASSUME FeedInv PROVE PagesCountEvents
  <2> SUFFICES ASSUME Quiet, NEW c \in Clients \ excused, Shown(c)
               PROVE  view[c].total = total
    BY DEF PagesCountEvents
  <2>1. Counted(c) /\ Cardinality(Owing(c)) = 0
    BY <1>1, QuietOwesNothing DEF FeedInv, CountInv
  <2>2. view[c].total \in Nat /\ total \in Nat
    BY <1>1 DEF FeedInv, IInv, TypeOK
  <2> QED BY <2>1, <2>2 DEF Counted
<1>2. FeedInv => PagesCountEvents
  BY <1>1
<1> QED BY <1>2, Counts, PTL

-----------------------------------------------------------------------------
(* Pages that stay.  Without churn no client is ever gone, the set does not *)
(* change while a broadcast is under way, and broadcasts do not overtake    *)
(* each other.                                                              *)

SteadyInv ==
    /\ \A c \in Clients : conn[c] # "gone" /\ (c \in ws_clients => conn[c] = "open")
    /\ \A i \in DOMAIN tasks :
         /\ tasks[i].size = Cardinality(ws_clients) /\ tasks[i].dead = {}
         /\ tasks[i].pos \in ws_clients
    /\ \A i, j \in DOMAIN tasks : i < j => tasks[j].pos <= tasks[i].pos

\* Events are broadcast in the order they were counted.
OrderInv ==
    /\ \A i, j \in DOMAIN ready :
         i < j /\ ready[i] \in EventMsgs /\ ready[j] \in EventMsgs =>
             ready[i].event < ready[j].event
    /\ \A i, j \in DOMAIN tasks :
         i < j /\ tasks[i].msg \in EventMsgs /\ tasks[j].msg \in EventMsgs =>
             tasks[i].msg.event < tasks[j].msg.event
    /\ \A i \in DOMAIN tasks, j \in DOMAIN ready :
         tasks[i].msg \in EventMsgs /\ ready[j] \in EventMsgs =>
             tasks[i].msg.event < ready[j].event

\* The newest of n events, newest first.
Newest(n) == [k \in 1 .. (IF Keep <= n THEN Keep ELSE n) |-> n + 1 - k]

\* The store lists the newest events it counted, a page the newest it counted,
\* and it is owed those that follow.
ListInv ==
    /\ events = Newest(total)
    /\ \A c \in Clients \ excused : Shown(c) =>
         /\ view[c].events = Newest(view[c].total)
         /\ \A e \in 1 .. total : Owes(e, c) <=> e > view[c].total

\* Every broadcast of a kind of message has passed client c,
Passed(K, c) == \A i \in DOMAIN tasks : tasks[i].msg \in K => c <= tasks[i].pos

\* or the last of them, if it has yet to reach c, says what is so.
LastIn(K, R, c) ==
    \A i \in DOMAIN tasks :
        tasks[i].msg \in K /\ tasks[i].pos < c
        /\ (\A j \in DOMAIN tasks : i < j => tasks[j].msg \notin K) =>
            tasks[i].msg \in R

\* What is broadcast of a gateway, and what of it says that it is online or not.
Of(g) == {m \in StatusMsgs : m.gateway = g}
Saying(g, b) == {m \in StatusMsgs : m.gateway = g /\ m.online = b}

\* The entry of the gateway will be read again for a broadcast to come.
Rereads(g) ==
    \/ mq.todo \in {"emit_event", "touch", "emit_gateway"} /\ mq.gw = g
    \/ \E i \in DOMAIN ready : ready[i] \in GatewayMsgs /\ ready[i].gateway = g
    \/ g \in reaper.todo

StatusInv ==
    \A c \in Clients, g \in Gateways :
        Shown(c) /\ ~ Rereads(g) =>
            /\ LastIn(Of(g), Saying(g, online[g]), c)
            /\ Passed(Of(g), c) => view[c].online[g] = online[g]

\* The connection to the broker is told by value: the last message that waits
\* says how it is, or the last broadcast does.
Waiting == {i \in DOMAIN ready : ready[i] \in TransportMsgs}
Link(b) == {m \in TransportMsgs : m.connected = b}

LinkInv ==
    mq.todo # "emit_transport" =>
        /\ \A i \in Waiting :
             (\A j \in Waiting : j <= i) => ready[i].connected = up
        /\ Waiting = {} =>
             \A c \in Clients : Shown(c) =>
                 /\ LastIn(TransportMsgs, Link(up), c)
                 /\ Passed(TransportMsgs, c) => view[c].broker = up

Live == SteadyInv /\ OrderInv /\ ListInv /\ StatusInv /\ LinkInv

\* The inductive invariant of pages that stay.
LiveInv == FeedInv /\ Live

\* Who is served is connected and takes every message.
LEMMA SteadyServed ==
  ASSUME TypeOK, SteadyInv, NEW pos
  PROVE  /\ Takers(pos) = {c \in ws_clients : c > pos} /\ Failing(pos) = {}
         /\ \A c \in Clients : Shown(c) <=> c \in ws_clients
         /\ ws_clients \subseteq Clients
  BY DEF TypeOK, SteadyInv, Takers, After, Failing, Shown

LEMMA SteadyNobody ==
  ASSUME TypeOK, SteadyInv, NobodyTakes
  PROVE  ws_clients = {} /\ ws_clients' = ws_clients /\ tasks' = tasks /\ view' = view
<1>1. Takers(0) = {} /\ Failing(0) = {} /\ ws_clients \subseteq Clients
      /\ Takers(0) = {c \in ws_clients : c > 0}
  BY SteadyServed DEF NobodyTakes
<1>2. \A c \in Clients : c > 0
  BY ClientsAreNumbers
<1> QED BY <1>1, <1>2 DEF NobodyTakes

\* What the first client that takes a message sees of it: the others see nothing.
LEMMA SteadyBegin ==
  ASSUME TypeOK, SteadyInv, NEW m \in Scheduled, NEW b \in BOOLEAN, Begin(m, b)
  PROVE  \E p \in ws_clients, k \in Tasks :
           /\ \A d \in ws_clients : p <= d
           /\ k.msg = AsSent(m) /\ k.pos = p
           /\ k.size = Cardinality(ws_clients) /\ k.dead = {}
           /\ tasks' = Append(tasks, k)
           /\ view'[p] = Apply(view[p], k.msg)
           /\ \A d \in Clients \ {p} : view'[d] = view[d]
           /\ ws_clients' = ws_clients
<1>1. PICK c \in Takers(0), k \in Tasks :
           /\ \A d \in Takers(0) : c <= d
           /\ k.msg = AsSent(m) /\ k.pos = c
           /\ k.size = Cardinality(ws_clients) /\ k.dead = Failing(0)
           /\ k.byReaper = b
           /\ tasks' = Append(tasks, k)
           /\ view' = [view EXCEPT ![c] = Apply(view[c], AsSent(m))]
           /\ ws_clients' = ws_clients
  BY BeginEffect, Zenon
<1>2. /\ Takers(0) = {d \in ws_clients : d > 0} /\ Failing(0) = {}
      /\ ws_clients \subseteq Clients
  BY SteadyServed, Zenon
<1>3. \A d \in Clients : d > 0
  BY ClientsAreNumbers
<1>4. c \in ws_clients /\ c \in Clients /\ \A d \in ws_clients : c <= d
  BY <1>1, <1>2, <1>3
<1>5. AsSent(m) \in Sent
  BY SentType, Zenon
<1>6. view'[c] = Apply(view[c], AsSent(m))
      /\ \A d \in Clients \ {c} : view'[d] = view[d]
  BY <1>1, <1>4, <1>5, ViewType, Zenon
<1>7. k.dead = {} /\ view'[c] = Apply(view[c], k.msg)
  BY <1>1, <1>2, <1>6
<1> QED BY <1>1, <1>4, <1>6, <1>7, Zenon

LEMMA SteadySends ==
  ASSUME TypeOK, SteadyInv, NEW i \in DOMAIN tasks, TaskSends(i)
  PROVE  \E p \in ws_clients, k \in Tasks :
           /\ p > tasks[i].pos /\ \A d \in ws_clients : d > tasks[i].pos => p <= d
           /\ k.msg = tasks[i].msg /\ k.pos = p /\ k.size = tasks[i].size
           /\ k.dead = {}
           /\ tasks' \in Seq(Tasks) /\ DOMAIN tasks' = DOMAIN tasks
           /\ tasks'[i] = k
           /\ \A j \in DOMAIN tasks \ {i} : tasks'[j] = tasks[j]
           /\ view'[p] = Apply(view[p], k.msg)
           /\ \A d \in Clients \ {p} : view'[d] = view[d]
<1>1. PICK c \in Takers(tasks[i].pos), k \in Tasks :
           /\ \A d \in Takers(tasks[i].pos) : c <= d
           /\ k.msg = tasks[i].msg /\ k.pos = c
           /\ k.size = tasks[i].size
           /\ k.dead = tasks[i].dead \cup Failing(tasks[i].pos)
           /\ k.byReaper = tasks[i].byReaper
           /\ tasks' \in Seq(Tasks) /\ DOMAIN tasks' = DOMAIN tasks
           /\ tasks'[i] = k
           /\ \A j \in DOMAIN tasks \ {i} : tasks'[j] = tasks[j]
           /\ view' = [view EXCEPT ![c] = Apply(view[c], k.msg)]
  BY SendEffect, Zenon
<1>2. /\ Takers(tasks[i].pos) = {d \in ws_clients : d > tasks[i].pos}
      /\ Failing(tasks[i].pos) = {} /\ ws_clients \subseteq Clients
  BY SteadyServed, Zenon
<1>3. c \in ws_clients /\ c \in Clients /\ c > tasks[i].pos
      /\ \A d \in ws_clients : d > tasks[i].pos => c <= d
  BY <1>1, <1>2
<1>4. k.dead = {}
  BY <1>1, <1>2 DEF SteadyInv
<1>5. k.msg \in Sent
  BY DEF Tasks, Sent
<1>6. view'[c] = Apply(view[c], k.msg)
      /\ \A d \in Clients \ {c} : view'[d] = view[d]
  BY <1>1, <1>3, <1>5, ViewType, Zenon
<1> QED BY <1>1, <1>3, <1>4, <1>6, Zenon

\* No broadcast raises, and the oldest ends first: it has passed every client.
LEMMA SteadyEnds ==
  ASSUME IInv, SteadyInv, NEW i \in DOMAIN tasks
  PROVE  /\ ~ TaskRaises(i)
         /\ TaskEnds(i) =>
              /\ i = 1 /\ ws_clients' = ws_clients
              /\ \A d \in ws_clients : d <= tasks[i].pos
              /\ DOMAIN tasks = 1 .. Len(tasks) /\ Len(tasks) \in Nat
              /\ DOMAIN tasks' = 1 .. Len(tasks) - 1
              /\ \A j \in DOMAIN tasks' :
                   j + 1 \in DOMAIN tasks /\ tasks'[j] = tasks[j + 1]
<1>1. ~ TaskRaises(i)
  BY DEF SteadyInv, TaskRaises, SizeChanged
<1>2. ASSUME TaskEnds(i)
      PROVE  /\ i = 1 /\ ws_clients' = ws_clients
             /\ \A d \in ws_clients : d <= tasks[i].pos
             /\ DOMAIN tasks = 1 .. Len(tasks) /\ Len(tasks) \in Nat
             /\ DOMAIN tasks' = 1 .. Len(tasks) - 1
             /\ \A j \in DOMAIN tasks' :
                  j + 1 \in DOMAIN tasks /\ tasks'[j] = tasks[j + 1]
  <2>1. /\ Takers(tasks[i].pos) = {d \in ws_clients : d > tasks[i].pos}
        /\ Failing(tasks[i].pos) = {} /\ ws_clients \subseteq Clients
    BY SteadyServed, Zenon DEF IInv
  <2>2. /\ \A j \in 1 .. i - 1 : tasks[j].pos > tasks[i].pos
        /\ Takers(tasks[i].pos) = {}
        /\ ws_clients' = ws_clients \ (tasks[i].dead \cup Failing(tasks[i].pos))
        /\ tasks' = RemoveAt(tasks, i)
    BY <1>2 DEF TaskEnds, Resumable
  <2>3. /\ tasks \in Seq(Tasks) /\ DOMAIN tasks = 1 .. Len(tasks)
        /\ Len(tasks) \in Nat /\ tasks[i].pos \in Int
        /\ \A c \in Clients : c \in Int
    BY TaskPlaces
  <2>4. i = 1
    <3>1. \A j \in 1 .. i - 1 : j \in DOMAIN tasks
      BY <2>3
    <3>2. \A j \in 1 .. i - 1 : FALSE
      BY <2>1, <2>2, <3>1 DEF SteadyInv
    <3> QED BY <2>3, <3>2
  <2>5. \A d \in ws_clients : d <= tasks[i].pos
    BY <2>1, <2>2, <2>3
  <2>6. ws_clients' = ws_clients
    BY <2>1, <2>2 DEF SteadyInv
  <2>7. /\ DOMAIN tasks' = 1 .. Len(tasks) - 1
        /\ \A j \in DOMAIN tasks' :
             j + 1 \in DOMAIN tasks /\ tasks'[j] = tasks[j + 1]
    <3> DEFINE r == RemoveAt(tasks, i)
    <3>1. /\ DOMAIN r = 1 .. Len(tasks) - 1
          /\ \A j \in DOMAIN r :
               Before(i, j) \in DOMAIN tasks \ {i} /\ r[j] = tasks[Before(i, j)]
      <4>1. tasks \in Seq(Tasks)
        BY <2>3
      <4> QED BY <4>1, Removed
    <3> HIDE DEF r
    <3>2. tasks' = r
      BY <2>2 DEF r
    <3>3. \A j \in DOMAIN r : Before(i, j) = j + 1
      BY <2>3, <2>4, <3>1 DEF Before
    <3> QED BY <3>1, <3>2, <3>3
  <2> QED BY <2>3, <2>4, <2>5, <2>6, <2>7
<1> QED BY <1>1, <1>2

\* What a new broadcast, one that moves on and one that ends do to what client c
\* is told of a kind of message.
LEMMA ToldBegun ==
  ASSUME tasks \in Seq(Tasks), NEW k \in Tasks, tasks' = Append(tasks, k),
         NEW K, NEW R, NEW c \in Clients
  PROVE  /\ k.msg \notin K => /\ LastIn(K, R, c) => LastIn(K, R, c)'
                              /\ Passed(K, c)' => Passed(K, c)
         /\ k.msg \in K => /\ k.msg \in R => LastIn(K, R, c)'
                           /\ Passed(K, c)' => c <= k.pos
<1>1. /\ DOMAIN tasks' = 1 .. Len(tasks) + 1 /\ Len(tasks) \in Nat
      /\ DOMAIN tasks = 1 .. Len(tasks)
      /\ \A i \in DOMAIN tasks : tasks'[i] = tasks[i]
      /\ tasks'[Len(tasks) + 1] = k
  BY Appended
<1> DEFINE n == Len(tasks) + 1
<1>2. /\ DOMAIN tasks' = DOMAIN tasks \cup {n} /\ n \notin DOMAIN tasks
      /\ n \in DOMAIN tasks' /\ tasks'[n] = k
      /\ \A i \in DOMAIN tasks : i < n
  BY <1>1
<1> HIDE DEF n
<1>3. CASE k.msg \notin K
  <2>1. LastIn(K, R, c) => LastIn(K, R, c)'
    BY <1>1, <1>2, <1>3 DEF LastIn
  <2>2. Passed(K, c)' => Passed(K, c)
    BY <1>1, <1>2 DEF Passed
  <2> QED BY <1>3, <2>1, <2>2
<1>4. CASE k.msg \in K
  <2>1. ASSUME k.msg \in R PROVE LastIn(K, R, c)'
    <3> SUFFICES ASSUME NEW i \in DOMAIN tasks',
                        \A j \in DOMAIN tasks' : i < j => tasks'[j].msg \notin K
                 PROVE  tasks'[i].msg \in R
      BY DEF LastIn
    <3>1. i = n
      BY <1>2, <1>4
    <3> QED BY <1>2, <2>1, <3>1
  <2>2. Passed(K, c)' => c <= k.pos
    BY <1>2, <1>4 DEF Passed
  <2> QED BY <1>4, <2>1, <2>2
<1> QED BY <1>3, <1>4

LEMMA ToldMoved ==
  ASSUME IInv, SteadyInv, NEW i \in DOMAIN tasks, NEW p \in ws_clients,
         p > tasks[i].pos, \A d \in ws_clients : d > tasks[i].pos => p <= d,
         DOMAIN tasks' = DOMAIN tasks,
         tasks'[i].msg = tasks[i].msg, tasks'[i].pos = p,
         \A j \in DOMAIN tasks \ {i} : tasks'[j] = tasks[j],
         NEW K, NEW R, NEW c \in ws_clients
  PROVE  /\ LastIn(K, R, c) => LastIn(K, R, c)'
         /\ Passed(K, c)' =>
              \/ Passed(K, c) /\ (c # p \/ tasks[i].msg \notin K)
              \/ c = p /\ tasks[i].msg \in K
                 /\ (LastIn(K, R, c) => tasks[i].msg \in R)
<1>1. /\ \A j \in DOMAIN tasks : tasks[j].pos \in Int
      /\ ws_clients \subseteq Clients /\ \A d \in Clients : d \in Int
      /\ DOMAIN tasks = 1 .. Len(tasks) /\ Len(tasks) \in Nat
  BY TaskPlaces DEF IInv, TypeOK
<1>2. \A j \in DOMAIN tasks : tasks'[j].msg = tasks[j].msg
  OBVIOUS
<1>3. LastIn(K, R, c) => LastIn(K, R, c)'
  <2>1. \A j \in DOMAIN tasks : tasks'[j].pos < c => tasks[j].pos < c
    <3> SUFFICES ASSUME NEW j \in DOMAIN tasks, tasks'[j].pos < c
                 PROVE  tasks[j].pos < c
      OBVIOUS
    <3>1. c \in Int /\ p \in Int /\ tasks[j].pos \in Int /\ tasks[i].pos \in Int
      BY <1>1
    <3>2. CASE j = i
      BY <3>1, <3>2
    <3>3. CASE j # i
      BY <3>3
    <3> QED BY <3>2, <3>3
  <2> QED BY <1>2, <2>1 DEF LastIn
<1>4. ASSUME Passed(K, c)'
      PROVE  \/ Passed(K, c) /\ (c # p \/ tasks[i].msg \notin K)
             \/ c = p /\ tasks[i].msg \in K
                /\ (LastIn(K, R, c) => tasks[i].msg \in R)
  <2>1. \A j \in DOMAIN tasks : j # i /\ tasks[j].msg \in K => c <= tasks[j].pos
    BY <1>4 DEF Passed
  <2>2. CASE tasks[i].msg \notin K
    <3>1. Passed(K, c)
      BY <2>1, <2>2 DEF Passed
    <3> QED BY <2>2, <3>1
  <2>3. CASE tasks[i].msg \in K /\ c # p
    <3>1. c <= p
      BY <1>2, <1>4, <2>3 DEF Passed
    <3>2. c <= tasks[i].pos
      <4>1. c \in Int /\ p \in Int /\ tasks[i].pos \in Int
        BY <1>1
      <4> QED BY <2>3, <3>1, <4>1
    <3>3. Passed(K, c)
      BY <2>1, <3>2 DEF Passed
    <3> QED BY <2>3, <3>3
  <2>4. CASE tasks[i].msg \in K /\ c = p
    <3>1. \A j \in DOMAIN tasks : i < j => tasks[j].msg \notin K
      <4> SUFFICES ASSUME NEW j \in DOMAIN tasks, i < j, tasks[j].msg \in K
                   PROVE  FALSE
        OBVIOUS
      <4>1. j # i /\ c <= tasks[j].pos
        BY <1>1, <2>1
      <4>2. tasks[j].pos <= tasks[i].pos
        BY DEF SteadyInv
      <4>3. c \in Int /\ tasks[j].pos \in Int /\ tasks[i].pos \in Int
        BY <1>1
      <4> QED BY <2>4, <4>1, <4>2, <4>3
    <3>2. tasks[i].pos < c
      BY <1>1, <2>4
    <3> QED BY <2>4, <3>1, <3>2 DEF LastIn
  <2> QED BY <2>2, <2>3, <2>4
<1> QED BY <1>3, <1>4

LEMMA ToldEnded ==
  ASSUME IInv, SteadyInv, 1 \in DOMAIN tasks,
         DOMAIN tasks' = 1 .. Len(tasks) - 1,
         \A j \in DOMAIN tasks' :
             j + 1 \in DOMAIN tasks /\ tasks'[j] = tasks[j + 1],
         NEW K, NEW R, NEW c \in ws_clients, c <= tasks[1].pos
  PROVE  /\ LastIn(K, R, c) => LastIn(K, R, c)'
         /\ Passed(K, c)' => Passed(K, c)
<1>1. DOMAIN tasks = 1 .. Len(tasks) /\ Len(tasks) \in Nat
  BY TaskPlaces
<1>2. ASSUME LastIn(K, R, c) PROVE LastIn(K, R, c)'
  <2> SUFFICES ASSUME NEW i \in DOMAIN tasks',
                      tasks'[i].msg \in K, tasks'[i].pos < c,
                      \A j \in DOMAIN tasks' : i < j => tasks'[j].msg \notin K
               PROVE  tasks'[i].msg \in R
    BY DEF LastIn
  <2>1. \A l \in DOMAIN tasks : i + 1 < l => tasks[l].msg \notin K
    <3> SUFFICES ASSUME NEW l \in DOMAIN tasks, i + 1 < l
                 PROVE  tasks[l].msg \notin K
      OBVIOUS
    <3>1. l - 1 \in DOMAIN tasks' /\ i < l - 1 /\ (l - 1) + 1 = l
      BY <1>1
    <3> QED BY <3>1
  <2> QED BY <1>2, <2>1 DEF LastIn
<1>3. ASSUME Passed(K, c)' PROVE Passed(K, c)
  <2> SUFFICES ASSUME NEW l \in DOMAIN tasks, tasks[l].msg \in K
               PROVE  c <= tasks[l].pos
    BY DEF Passed
  <2>1. CASE l = 1
    BY <2>1
  <2>2. CASE l # 1
    <3>1. l - 1 \in DOMAIN tasks' /\ (l - 1) + 1 = l
      BY <1>1, <2>2
    <3> QED BY <1>3, <3>1 DEF Passed
  <2> QED BY <2>1, <2>2
<1> QED BY <1>2, <1>3

-----------------------------------------------------------------------------
(* The store and the threads that feed the loop.                            *)

Upstream ==
    \/ \E g \in Gateways : EventFrame(g) \/ TouchGateway(g) \/ Silence(g)
    \/ ScheduleEvent \/ ScheduleGateway \/ ScheduleTransport
    \/ OnConnect \/ OnDisconnect \/ Reconfigure \/ ReapFlips

\* One more event in front, cut to what is kept.
LEMMA NewestStep ==
  ASSUME NEW n \in Nat
  PROVE  FirstOf(<<n + 1>> \o Newest(n)) = Newest(n + 1)
<1> DEFINE list == <<n + 1>> \o Newest(n)
           l == IF Keep <= n THEN Keep ELSE n
           m == Min({Keep, Len(list)})
<1>1. Keep \in Nat /\ l \in Nat
  BY FeedAssumption
<1>2. Newest(n) \in Seq(Nat) /\ Len(Newest(n)) = l
      /\ \A k \in 1 .. l : Newest(n)[k] = n + 1 - k
  BY <1>1 DEF Newest
<1>3. list \in Seq(Nat) /\ Len(list) = l + 1 /\ list[1] = n + 1
      /\ \A k \in 2 .. l + 1 : list[k] = Newest(n)[k - 1]
  BY <1>1, <1>2
<1>4. m = IF Keep <= l + 1 THEN Keep ELSE l + 1
  BY <1>1, <1>3, SMT DEF Min
<1>5. m = IF Keep <= n + 1 THEN Keep ELSE n + 1
  BY <1>1, <1>4
<1>6. m \in 0 .. l + 1
  BY <1>1, <1>4
<1>7. FirstOf(list) = SubSeq(list, 1, m)
  BY DEF FirstOf
<1> HIDE DEF list, m, l
<1>8. \A k \in 1 .. m : list[k] = (n + 1) + 1 - k
  <2> SUFFICES ASSUME NEW k \in 1 .. m PROVE list[k] = (n + 1) + 1 - k
    OBVIOUS
  <2>1. k \in 1 .. l + 1
    BY <1>6, <1>1
  <2>2. CASE k = 1
    BY <1>3, <2>2
  <2>3. CASE k # 1
    <3>1. k \in 2 .. l + 1 /\ k - 1 \in 1 .. l
      BY <1>1, <2>1, <2>3
    <3>2. list[k] = Newest(n)[k - 1]
      BY <1>3, <3>1
    <3>3. Newest(n)[k - 1] = n + 1 - (k - 1)
      BY <1>2, <3>1
    <3> QED BY <1>1, <3>1, <3>2, <3>3
  <2> QED BY <2>2, <2>3
<1>9. SubSeq(list, 1, m) = [k \in 1 .. m |-> (n + 1) + 1 - k]
  <2>1. SubSeq(list, 1, m) = [k \in 1 .. m |-> list[k]]
    BY <1>3, <1>6
  <2> QED BY <1>8, <2>1
<1>10. Newest(n + 1) = [k \in 1 .. m |-> (n + 1) + 1 - k]
  BY <1>5 DEF Newest
<1> QED BY <1>7, <1>9, <1>10 DEF list

\* A step that changes no list, no debt and no client keeps the lists true.
LEMMA ListKept ==
  ASSUME ListInv, total' = total, events' = events,
         \A c, e : Owes(e, c)' <=> Owes(e, c),
         UNCHANGED <<conn, ws_clients, view, excused>>
  PROVE  ListInv'
  BY DEF ListInv, Shown

LEMMA FlipOwes ==
  ASSUME UNCHANGED <<total, mq, ready, tasks>>
  PROVE  \A c, e : Owes(e, c)' <=> Owes(e, c)
  BY DEF Owes, InReady, InTasks

LEMMA UpstreamFrame ==
  ASSUME Upstream
  PROVE  UNCHANGED <<tasks, conn, ws_clients, view, excused>>
  BY DEF Upstream, EventFrame, TouchGateway, Silence, ScheduleEvent, storeVars,
         ScheduleGateway, ScheduleTransport, OnConnect, OnDisconnect,
         Reconfigure, ReapFlips, Flip, pageVars

LEMMA UpstreamSteady ==
  ASSUME SteadyInv, Upstream
  PROVE  SteadyInv'
  BY UpstreamFrame DEF SteadyInv

\* What is scheduled next.
LEMMA UpstreamReady ==
  ASSUME IInv, Upstream
  PROVE  \/ ready' = ready
         \/ \E m \in Scheduled :
              /\ ready' = Append(ready, m)
              /\ m \in EventMsgs => m.event = total /\ mq.todo = "emit_event"
<1>1. total \in Nat /\ up \in BOOLEAN
  BY DEF IInv, TypeOK
<1>2. CASE ScheduleEvent
  <2>1. [event |-> total] \in Scheduled
    BY <1>1, ScheduledMsgs
  <2> QED BY <1>2, <2>1 DEF ScheduleEvent
<1>3. CASE ScheduleGateway
  <2>1. mq.gw \in Gateways
    BY <1>3 DEF ScheduleGateway, IInv, MqInv
  <2>2. [gateway |-> mq.gw] \in Scheduled /\ [gateway |-> mq.gw] \notin EventMsgs
    BY <2>1, ScheduledMsgs, Kinds
  <2> QED BY <1>3, <2>2 DEF ScheduleGateway
<1>4. CASE ScheduleTransport \/ Reconfigure
  <2>1. FALSE \in BOOLEAN
    OBVIOUS
  <2>2. \A b \in BOOLEAN : [connected |-> b] \in Scheduled
                           /\ [connected |-> b] \notin EventMsgs
    <3> SUFFICES ASSUME NEW b \in BOOLEAN
                 PROVE  [connected |-> b] \in Scheduled
                        /\ [connected |-> b] \notin EventMsgs
      OBVIOUS
    <3>1. [connected |-> b] \in TransportMsgs
      BY ScheduledMsgs, Zenon
    <3> QED BY <3>1, ScheduledMsgs, Kinds
  <2>3. ready' = ready \/ ready' = Append(ready, [connected |-> up])
        \/ ready' = Append(ready, [connected |-> FALSE])
    BY <1>4 DEF ScheduleTransport, Reconfigure, StopSource
  <2> QED BY <1>1, <2>1, <2>2, <2>3
<1>5. CASE \/ \E g \in Gateways : EventFrame(g) \/ TouchGateway(g) \/ Silence(g)
           \/ OnConnect \/ OnDisconnect \/ ReapFlips
  BY <1>5 DEF EventFrame, TouchGateway, Silence, OnConnect, OnDisconnect,
              ReapFlips, Flip
<1> QED BY <1>2, <1>3, <1>4, <1>5 DEF Upstream

LEMMA UpstreamOrder ==
  ASSUME IInv, OnceInv, OrderInv, Upstream
  PROVE  OrderInv'
<1>1. tasks' = tasks
  BY UpstreamFrame
<1>2. CASE ready' = ready
  BY <1>1, <1>2 DEF OrderInv
<1>3. ASSUME NEW m \in Scheduled, ready' = Append(ready, m),
             m \in EventMsgs => m.event = total /\ mq.todo = "emit_event"
      PROVE  OrderInv'
  <2>1. total \in Nat /\ ready \in Seq(Scheduled)
    BY ReadyLen DEF IInv, TypeOK
  <2>2. /\ DOMAIN ready' = 1 .. Len(ready) + 1
        /\ DOMAIN ready = 1 .. Len(ready) /\ Len(ready) \in Nat
        /\ \A i \in DOMAIN ready : ready'[i] = ready[i]
        /\ ready'[Len(ready) + 1] = m
    BY <1>3, <2>1, Appended
  <2>3. m \in EventMsgs =>
          /\ \A i \in DOMAIN ready : ready[i] \in EventMsgs =>
               ready[i].event < m.event
          /\ \A i \in DOMAIN tasks : tasks[i].msg \in EventMsgs =>
               tasks[i].msg.event < m.event
    <3> SUFFICES ASSUME m \in EventMsgs
                 PROVE  /\ \A i \in DOMAIN ready : ready[i] \in EventMsgs =>
                             ready[i].event < total
                        /\ \A i \in DOMAIN tasks : tasks[i].msg \in EventMsgs =>
                             tasks[i].msg.event < total
      BY <1>3
    <3>1. Numbered = total - 1
      BY <1>3 DEF Numbered
    <3> QED BY <2>1, <3>1 DEF OnceInv
  <2>4. \A i, j \in DOMAIN ready' : i < j => i \in DOMAIN ready
    BY <2>2
  <2>5. \A i \in DOMAIN ready' : i \in DOMAIN ready \/ ready'[i] = m
    BY <2>2
  <2> QED BY <1>1, <2>2, <2>3, <2>4, <2>5 DEF OrderInv
<1> QED BY <1>2, <1>3, UpstreamReady

LEMMA UpstreamLists ==
  ASSUME FeedInv, ListInv, Upstream
  PROVE  ListInv'
<1>1. CASE \E g \in Gateways : EventFrame(g)
  <2>1. /\ mq.todo = "idle" /\ total' = total + 1 /\ mq'.todo = "emit_event"
        /\ events' = FirstOf(<<total'>> \o events)
        /\ UNCHANGED <<ready, tasks, conn, ws_clients, view, excused>>
    BY <1>1 DEF EventFrame, Accepts, Room, MqIdle, pageVars
  <2>2. total \in Nat
    BY DEF FeedInv, IInv, TypeOK
  <2>3. events' = Newest(total')
    BY <2>1, <2>2, NewestStep DEF ListInv
  <2>4. \A c, e : (InReady(e)' <=> InReady(e)) /\ (InTasks(e, c)' <=> InTasks(e, c))
    BY <2>1 DEF InReady, InTasks
  <2>5. ASSUME NEW c \in Clients \ excused, Shown(c), NEW e \in 1 .. total'
        PROVE  Owes(e, c)' <=> e > view[c].total
    <3>1. CASE e \in 1 .. total
      <4>1. e # total'
        BY <2>1, <2>2, <3>1
      <4>2. Owes(e, c)' <=> Owes(e, c)
        BY <2>1, <2>4, <4>1 DEF Owes
      <4> QED BY <2>5, <3>1, <4>2 DEF ListInv
    <3>2. CASE e \notin 1 .. total
      <4>1. e = total'
        BY <2>1, <2>2, <3>2
      <4>2. Owes(e, c)'
        BY <2>1, <4>1 DEF Owes
      <4>3. view[c].total <= total
        <5>1. Counted(c) /\ Cardinality(Owing(c)) \in Nat /\ view[c].total \in Nat
          BY <2>5, OwingIsFinite DEF FeedInv, CountInv, IInv, TypeOK
        <5> QED BY <2>2, <5>1 DEF Counted
      <4>4. view[c].total \in Nat
        BY DEF FeedInv, IInv, TypeOK
      <4> QED BY <2>1, <2>2, <4>1, <4>2, <4>3, <4>4
    <3> QED BY <3>1, <3>2
  <2> QED BY <2>1, <2>3, <2>5 DEF ListInv, Shown
<1>2. CASE ReapFlips
  <2>1. UNCHANGED <<total, events, mq, ready, tasks, conn, ws_clients, view, excused>>
    BY <1>2 DEF ReapFlips, Flip, pageVars
  <2> QED BY <2>1, FlipOwes, ListKept
<1>3. CASE \/ \E g \in Gateways : TouchGateway(g) \/ Silence(g)
           \/ ScheduleEvent \/ ScheduleGateway \/ ScheduleTransport
           \/ OnConnect \/ OnDisconnect \/ Reconfigure
  <2>1. /\ total' = total /\ UNCHANGED <<conn, ws_clients, view, excused>>
        /\ \A c, e : Owes(e, c)' <=> Owes(e, c)
    BY <1>3, MqttOwes
  <2>2. events' = events
    BY <1>3 DEF TouchGateway, Silence, ScheduleEvent, ScheduleGateway, storeVars,
                ScheduleTransport, OnConnect, OnDisconnect, Reconfigure
  <2> QED BY <2>1, <2>2, ListKept
<1> QED BY <1>1, <1>2, <1>3 DEF Upstream

\* The entry of a gateway that changes will be read again.
LEMMA UpstreamRereads ==
  ASSUME IInv, Upstream, NEW g \in Gateways, ~ Rereads(g)'
  PROVE  ~ Rereads(g) /\ online'[g] = online[g]
<1> DEFINE Q == \E i \in DOMAIN ready : ready[i] \in GatewayMsgs
                                        /\ ready[i].gateway = g
<1>1. /\ online \in [Gateways -> BOOLEAN] /\ ready \in Seq(Scheduled)
      /\ total \in Nat /\ up \in BOOLEAN
  BY ReadyLen DEF IInv, TypeOK
<1>2. /\ ~ (mq'.todo \in {"emit_event", "touch", "emit_gateway"} /\ mq'.gw = g)
      /\ ~ Q' /\ g \notin reaper'.todo
  BY DEF Rereads
<1>3. ASSUME NEW m \in Scheduled, ready' = Append(ready, m)
      PROVE  ~ Q /\ ~ (m \in GatewayMsgs /\ m.gateway = g)
  <2>1. /\ DOMAIN ready' = 1 .. Len(ready) + 1
        /\ DOMAIN ready = 1 .. Len(ready) /\ Len(ready) \in Nat
        /\ \A i \in DOMAIN ready : ready'[i] = ready[i]
        /\ ready'[Len(ready) + 1] = m
    BY <1>1, <1>3, Appended
  <2>2. DOMAIN ready \subseteq DOMAIN ready' /\ Len(ready) + 1 \in DOMAIN ready'
    BY <2>1
  <2>3. ~ Q
    BY <1>2, <2>1, <2>2
  <2>4. ~ (m \in GatewayMsgs /\ m.gateway = g)
    BY <1>2, <2>1, <2>2
  <2> QED BY <2>3, <2>4
<1>4. ready' = ready => ~ Q
  BY <1>2
<1>5. ready' = ready \/ \E m \in Scheduled : ready' = Append(ready, m)
  BY UpstreamReady, Zenon
<1>6. ~ Q
  BY <1>3, <1>4, <1>5, Zenon
<1> HIDE DEF Q
<1>7. ASSUME reaper' = reaper,
             mq.todo \in {"emit_event", "touch", "emit_gateway"} => mq.gw # g
      PROVE  ~ Rereads(g)
  BY <1>2, <1>6, <1>7 DEF Rereads, Q
<1>8. ASSUME NEW h \in Gateways, EventFrame(h) \/ TouchGateway(h)
      PROVE  ~ Rereads(g) /\ online'[g] = online[g]
  <2>1. /\ mq'.todo \in {"emit_event", "emit_gateway"} /\ mq'.gw = h
        /\ online' = [online EXCEPT ![h] = TRUE] /\ reaper' = reaper
        /\ mq.todo = "idle" \/ mq = [todo |-> "touch", gw |-> h]
    BY <1>8 DEF EventFrame, TouchGateway, Accepts, Room, MqIdle, Touch
  <2>2. g # h
    BY <1>2, <2>1
  <2>3. online'[g] = online[g]
    BY <1>1, <2>1, <2>2
  <2>4. mq.todo \in {"emit_event", "touch", "emit_gateway"} => mq.gw # g
    BY <2>1, <2>2
  <2> QED BY <1>7, <2>1, <2>3, <2>4
<1>9. CASE \/ \E h \in Gateways : Silence(h)
           \/ OnConnect \/ OnDisconnect \/ Reconfigure \/ ScheduleTransport
  <2>1. online' = online /\ reaper' = reaper
        /\ mq.todo \in {"idle", "emit_transport"}
    BY <1>9 DEF Silence, OnConnect, OnDisconnect, Reconfigure, Room, MqIdle,
                ScheduleTransport, storeVars
  <2> QED BY <1>7, <2>1
<1>10. CASE ScheduleEvent
  <2>1. /\ online' = online /\ reaper' = reaper
        /\ mq' = [mq EXCEPT !.todo = "touch"]
    BY <1>10 DEF ScheduleEvent, storeVars
  <2>2. mq'.todo = "touch" /\ mq'.gw = mq.gw
    BY <2>1 DEF IInv, TypeOK
  <2> QED BY <1>2, <1>7, <2>1, <2>2
<1>11. CASE ScheduleGateway
  <2>1. /\ online' = online /\ reaper' = reaper
        /\ ready' = Append(ready, [gateway |-> mq.gw])
    BY <1>11 DEF ScheduleGateway, storeVars
  <2>2. mq.gw \in Gateways
    BY <1>11 DEF ScheduleGateway, IInv, MqInv
  <2>3. [gateway |-> mq.gw] \in GatewayMsgs /\ [gateway |-> mq.gw] \in Scheduled
    BY <2>2, ScheduledMsgs
  <2>4. ~ ([gateway |-> mq.gw] \in GatewayMsgs
           /\ [gateway |-> mq.gw].gateway = g)
    BY <1>3, <2>1, <2>3
  <2>5. mq.gw # g
    BY <2>3, <2>4
  <2> QED BY <1>7, <2>1, <2>5
<1>12. CASE ReapFlips
  <2>1. /\ online' = [h \in Gateways |-> online[h] /\ h \notin Stale]
        /\ reaper'.todo = Stale /\ reaper = Asleep /\ mq' = mq
    BY <1>12 DEF ReapFlips, Flip
  <2>2. g \notin Stale
    BY <1>2, <2>1
  <2>3. online'[g] = online[g]
    BY <1>1, <2>1, <2>2
  <2>4. g \notin reaper.todo
    BY <2>1 DEF Asleep
  <2> QED BY <1>2, <1>6, <2>1, <2>3, <2>4 DEF Rereads, Q
<1> QED BY <1>8, <1>9, <1>10, <1>11, <1>12 DEF Upstream

LEMMA UpstreamStatus ==
  ASSUME IInv, StatusInv, Upstream
  PROVE  StatusInv'
<1> SUFFICES ASSUME NEW c \in Clients, NEW g \in Gateways, Shown(c)', ~ Rereads(g)'
             PROVE  /\ LastIn(Of(g), Saying(g, online[g]), c)'
                    /\ Passed(Of(g), c)' => view'[c].online[g] = online'[g]
  BY DEF StatusInv
<1>1. ~ Rereads(g) /\ online'[g] = online[g]
  BY UpstreamRereads
<1>2. UNCHANGED <<tasks, conn, ws_clients, view, excused>>
  BY UpstreamFrame
<1>3. Shown(c)
  BY <1>2 DEF Shown
<1>4. /\ LastIn(Of(g), Saying(g, online[g]), c)
      /\ Passed(Of(g), c) => view[c].online[g] = online[g]
  BY <1>1, <1>3 DEF StatusInv
<1> QED BY <1>1, <1>2, <1>4 DEF LastIn, Passed

\* What waits of the connection to the broker after an append.
LEMMA WaitingAppended ==
  ASSUME IInv, NEW m \in Scheduled, ready' = Append(ready, m)
  PROVE  /\ m \notin TransportMsgs =>
              Waiting' = Waiting /\ \A i \in Waiting : ready'[i] = ready[i]
         /\ m \in TransportMsgs =>
              /\ Waiting' # {}
              /\ \A i \in Waiting' :
                   (\A j \in Waiting' : j <= i) => ready'[i] = m
<1>1. ready \in Seq(Scheduled)
  BY ReadyLen DEF IInv
<1> DEFINE n == Len(ready) + 1
<1>2. /\ DOMAIN ready' = 1 .. Len(ready) + 1
      /\ DOMAIN ready = 1 .. Len(ready) /\ Len(ready) \in Nat
      /\ \A i \in DOMAIN ready : ready'[i] = ready[i]
      /\ ready'[n] = m
  BY <1>1, Appended
<1>3. /\ DOMAIN ready' = DOMAIN ready \cup {n} /\ n \notin DOMAIN ready
      /\ \A i \in DOMAIN ready : ~ (n <= i)
  BY <1>2
<1> HIDE DEF n
<1> QED BY <1>2, <1>3 DEF Waiting

LEMMA LinkKept ==
  ASSUME LinkInv, mq'.todo # "emit_transport" => mq.todo # "emit_transport",
         Waiting' = Waiting, \A i \in Waiting : ready'[i] = ready[i],
         UNCHANGED <<up, tasks, conn, ws_clients, view>>
  PROVE  LinkInv'
<1> SUFFICES ASSUME mq'.todo # "emit_transport"
             PROVE  /\ \A i \in Waiting' : (\A j \in Waiting' : j <= i) =>
                         ready'[i].connected = up'
                    /\ Waiting' = {} => \A c \in Clients : Shown(c)' =>
                         /\ LastIn(TransportMsgs, Link(up), c)'
                         /\ Passed(TransportMsgs, c)' => view'[c].broker = up'
  BY DEF LinkInv
<1>1. \A c : Shown(c)' <=> Shown(c)
  BY DEF Shown
<1>2. \A c : /\ LastIn(TransportMsgs, Link(up), c)' <=> LastIn(TransportMsgs, Link(up), c)
             /\ Passed(TransportMsgs, c)' <=> Passed(TransportMsgs, c)
  BY DEF LastIn, Passed, Link
<1> QED BY <1>1, <1>2 DEF LinkInv

LEMMA UpstreamLink ==
  ASSUME IInv, LinkInv, Upstream
  PROVE  LinkInv'
<1>1. UNCHANGED <<tasks, conn, ws_clients, view, excused>>
  BY UpstreamFrame
<1>2. total \in Nat /\ up \in BOOLEAN
  BY DEF IInv, TypeOK
<1>3. CASE OnConnect \/ OnDisconnect
  <2>1. mq'.todo = "emit_transport"
    BY <1>3 DEF OnConnect, OnDisconnect, MqIdle
  <2> QED BY <2>1 DEF LinkInv
<1>4. ASSUME NEW b \in BOOLEAN, up' = b, ready' = Append(ready, [connected |-> b])
      PROVE  LinkInv'
  <2>1. [connected |-> b] \in TransportMsgs /\ [connected |-> b] \in Scheduled
    <3>1. [connected |-> b] \in TransportMsgs
      BY ScheduledMsgs, Zenon
    <3> QED BY <3>1 DEF Scheduled
  <2>2. /\ Waiting' # {}
        /\ \A i \in Waiting' :
             (\A j \in Waiting' : j <= i) => ready'[i] = [connected |-> b]
    BY <1>4, <2>1, WaitingAppended
  <2>3. [connected |-> b].connected = b
    OBVIOUS
  <2>4. \A i \in Waiting' : (\A j \in Waiting' : j <= i) =>
          ready'[i].connected = up'
    BY <1>4, <2>2, <2>3
  <2> QED BY <2>2, <2>4 DEF LinkInv
<1>5. CASE ScheduleTransport
  BY <1>2, <1>4, <1>5 DEF ScheduleTransport
<1>6. ASSUME mq'.todo # "emit_transport" => mq.todo # "emit_transport", up' = up,
             \/ ready' = ready
             \/ \E m \in Scheduled : m \notin TransportMsgs
                                     /\ ready' = Append(ready, m)
      PROVE  LinkInv'
  <2>1. Waiting' = Waiting /\ \A i \in Waiting : ready'[i] = ready[i]
    <3>1. CASE ready' = ready
      BY <3>1 DEF Waiting
    <3> QED BY <1>6, <3>1, WaitingAppended
  <2> QED BY <1>1, <1>6, <2>1, LinkKept
<1>7. CASE Reconfigure
  <2>1. mq' = mq /\ up' = FALSE
        /\ \/ ready' = Append(ready, [connected |-> FALSE])
           \/ ~ up /\ ready' = ready
    BY <1>7 DEF Reconfigure, StopSource
  <2>2. CASE ready' = Append(ready, [connected |-> FALSE])
    <3>1. FALSE \in BOOLEAN
      OBVIOUS
    <3> QED BY <1>4, <2>1, <2>2, <3>1
  <2>3. CASE ~ up /\ ready' = ready
    BY <1>2, <1>6, <2>1, <2>3
  <2> QED BY <2>1, <2>2, <2>3
<1>8. CASE ScheduleEvent
  <2>1. [event |-> total] \in EventMsgs /\ [event |-> total] \in Scheduled
    BY <1>2, ScheduledMsgs
  <2>2. [event |-> total] \notin TransportMsgs
    BY <2>1, Kinds
  <2>3. up' = up /\ mq.todo # "emit_transport"
        /\ ready' = Append(ready, [event |-> total])
    BY <1>8 DEF ScheduleEvent
  <2> QED BY <1>6, <2>1, <2>2, <2>3
<1>9. CASE ScheduleGateway
  <2>1. mq.gw \in Gateways
    BY <1>9 DEF ScheduleGateway, IInv, MqInv
  <2>2. [gateway |-> mq.gw] \in GatewayMsgs /\ [gateway |-> mq.gw] \in Scheduled
    BY <2>1, ScheduledMsgs
  <2>3. [gateway |-> mq.gw] \notin TransportMsgs
    BY <2>2, Kinds
  <2>4. up' = up /\ mq.todo # "emit_transport"
        /\ ready' = Append(ready, [gateway |-> mq.gw])
    BY <1>9 DEF ScheduleGateway
  <2> QED BY <1>6, <2>2, <2>3, <2>4
<1>10. CASE \E g \in Gateways : EventFrame(g) \/ TouchGateway(g) \/ Silence(g)
  <2>1. up' = up /\ ready' = ready /\ mq.todo # "emit_transport"
    BY <1>10 DEF EventFrame, TouchGateway, Silence, Accepts, Room, MqIdle
  <2> QED BY <1>6, <2>1
<1>11. CASE ReapFlips
  <2>1. up' = up /\ ready' = ready /\ mq' = mq
    BY <1>11 DEF ReapFlips, Flip
  <2> QED BY <1>6, <2>1
<1> QED BY <1>3, <1>5, <1>7, <1>8, <1>9, <1>10, <1>11 DEF Upstream

-----------------------------------------------------------------------------
(* A broadcast begins.                                                      *)

\* What a page that applies a message says of a gateway, and of the connection.
LEMMA AppliedTold ==
  ASSUME NEW v \in Views, NEW m \in Sent
  PROVE  /\ \A g \in Gateways, b \in BOOLEAN :
              m \in Saying(g, b) => Apply(v, m).online[g] = b
         /\ \A g \in Gateways :
              m \notin Of(g) => Apply(v, m).online[g] = v.online[g]
         /\ \A b : m \in Link(b) => Apply(v, m).broker = b
         /\ m \notin TransportMsgs => Apply(v, m).broker = v.broker
<1>1. v.online \in [Gateways -> BOOLEAN]
  BY DEF Views
<1>2. CASE m \in EventMsgs
  <2>1. Apply(v, m).online = v.online /\ Apply(v, m).broker = v.broker
    BY <1>2, AppliedEvent, Zenon
  <2>2. m \notin StatusMsgs /\ m \notin TransportMsgs
    BY <1>2, Kinds
  <2> QED BY <2>1, <2>2 DEF Saying, Of, Link
<1>3. CASE m \in StatusMsgs
  <2>1. /\ Apply(v, m).online = [v.online EXCEPT ![m.gateway] = m.online]
        /\ Apply(v, m).broker = v.broker
    BY <1>3, AppliedStatus, Zenon
  <2>2. m \notin TransportMsgs
    BY <1>3, Kinds
  <2> QED BY <1>1, <1>3, <2>1, <2>2 DEF Saying, Of, Link
<1>4. CASE m \in TransportMsgs
  <2>1. Apply(v, m).online = v.online /\ Apply(v, m).broker = m.connected
    BY <1>4, AppliedTransport, Zenon
  <2>2. m \notin StatusMsgs
    BY <1>4, Kinds
  <2> QED BY <1>4, <2>1, <2>2 DEF Saying, Of, Link
<1> QED BY <1>2, <1>3, <1>4 DEF Sent

LEMMA QueueShift ==
  ASSUME IInv, ready # <<>>, ready' = Tail(ready)
  PROVE  /\ 1 \in DOMAIN ready /\ ready[1] = Head(ready) /\ Head(ready) \in Scheduled
         /\ DOMAIN ready \subseteq Int /\ DOMAIN ready' \subseteq Int
         /\ \A i \in DOMAIN ready' :
              i + 1 \in DOMAIN ready /\ 1 < i + 1 /\ ready'[i] = ready[i + 1]
         /\ \A i \in DOMAIN ready : i # 1 =>
              i > 1 /\ i - 1 \in DOMAIN ready' /\ ready'[i - 1] = ready[i]
<1>1. ready \in Seq(Scheduled)
  BY ReadyLen DEF IInv
<1>2. /\ Head(ready) \in Scheduled /\ Head(ready) = ready[1]
      /\ DOMAIN ready = 1 .. Len(ready) /\ Len(ready) \in Nat \ {0}
      /\ DOMAIN ready' = 1 .. Len(ready) - 1
      /\ \A i \in 1 .. Len(ready) - 1 : ready'[i] = ready[i + 1]
  BY <1>1, Tailed
<1>3. \A i \in DOMAIN ready : i # 1 =>
        i > 1 /\ i - 1 \in DOMAIN ready' /\ (i - 1) + 1 = i
  BY <1>2
<1> QED BY <1>2, <1>3

\* The task that begins waits at the first client p; nothing else changes for
\* the others.
BeginsWith(k, p) ==
    /\ k.pos = p /\ k.size = Cardinality(ws_clients) /\ k.dead = {}
    /\ \A d \in ws_clients : p <= d
    /\ tasks' = Append(tasks, k)
    /\ view'[p] = Apply(view[p], k.msg)
    /\ \A d \in Clients \ {p} : view'[d] = view[d]
    /\ UNCHANGED <<ws_clients, conn, excused, total, events, online, up, mq>>

LEMMA BegunSteady ==
  ASSUME IInv, SteadyInv, NEW p \in ws_clients, NEW k \in Tasks, BeginsWith(k, p)
  PROVE  SteadyInv'
<1>1. tasks \in Seq(Tasks) /\ tasks' = Append(tasks, k)
  BY DEF IInv, TypeOK, BeginsWith
<1>2. /\ DOMAIN tasks' = 1 .. Len(tasks) + 1 /\ Len(tasks) \in Nat
      /\ DOMAIN tasks = 1 .. Len(tasks)
      /\ \A i \in DOMAIN tasks : tasks'[i] = tasks[i]
      /\ tasks'[Len(tasks) + 1] = k
  BY <1>1, Appended
<1> DEFINE n == Len(tasks) + 1
<1>3. /\ DOMAIN tasks' = DOMAIN tasks \cup {n} /\ n \notin DOMAIN tasks
      /\ tasks'[n] = k
      /\ \A i \in DOMAIN tasks' : ~ (n < i)
  BY <1>2
<1> HIDE DEF n
<1>4. \A i, j \in DOMAIN tasks' : i < j => tasks'[j].pos <= tasks'[i].pos
  <2> SUFFICES ASSUME NEW i \in DOMAIN tasks', NEW j \in DOMAIN tasks', i < j
               PROVE  tasks'[j].pos <= tasks'[i].pos
    OBVIOUS
  <2>1. i \in DOMAIN tasks /\ tasks'[i] = tasks[i]
    BY <1>2, <1>3
  <2>2. CASE j = n
    <3>1. tasks[i].pos \in ws_clients
      BY <2>1 DEF SteadyInv
    <3> QED BY <1>3, <2>1, <2>2, <3>1 DEF BeginsWith
  <2>3. CASE j # n
    BY <1>2, <1>3, <2>1, <2>3 DEF SteadyInv
  <2> QED BY <2>2, <2>3
<1>5. \A i \in DOMAIN tasks' :
         /\ tasks'[i].size = Cardinality(ws_clients) /\ tasks'[i].dead = {}
         /\ tasks'[i].pos \in ws_clients
  BY <1>2, <1>3 DEF SteadyInv, BeginsWith
<1> QED BY <1>4, <1>5 DEF SteadyInv, BeginsWith

\* The events of the queue stay in order.
LEMMA OrderStarts ==
  ASSUME IInv, OrderInv, ready # <<>>, ready' = Tail(ready),
         \/ tasks' = tasks
         \/ \E k \in Tasks : tasks' = Append(tasks, k)
                             /\ k.msg = AsSent(Head(ready))
  PROVE  OrderInv'
<1>1. /\ 1 \in DOMAIN ready /\ ready[1] = Head(ready) /\ Head(ready) \in Scheduled
      /\ DOMAIN ready \subseteq Int /\ DOMAIN ready' \subseteq Int
      /\ \A i \in DOMAIN ready' :
           i + 1 \in DOMAIN ready /\ 1 < i + 1 /\ ready'[i] = ready[i + 1]
  BY QueueShift
<1>2. \A i, j \in DOMAIN ready' : i < j => i + 1 < j + 1
  BY <1>1
<1>3. \A i, j \in DOMAIN ready' :
         i < j /\ ready'[i] \in EventMsgs /\ ready'[j] \in EventMsgs =>
             ready'[i].event < ready'[j].event
  BY <1>1, <1>2 DEF OrderInv
<1>4. CASE tasks' = tasks
  BY <1>1, <1>3, <1>4 DEF OrderInv
<1>5. ASSUME NEW k \in Tasks, tasks' = Append(tasks, k), k.msg = AsSent(Head(ready))
      PROVE  OrderInv'
  <2>1. tasks \in Seq(Tasks) /\ TypeOK
    BY DEF IInv, TypeOK
  <2>2. /\ DOMAIN tasks' = 1 .. Len(tasks) + 1 /\ Len(tasks) \in Nat
        /\ DOMAIN tasks = 1 .. Len(tasks)
        /\ \A i \in DOMAIN tasks : tasks'[i] = tasks[i]
        /\ tasks'[Len(tasks) + 1] = k
    BY <1>5, <2>1, Appended
  <2>3. k.msg \in EventMsgs => k.msg = ready[1]
    BY <1>1, <1>5, <2>1, SentType, Kinds
  <2>4. /\ \A i \in DOMAIN tasks' : i \in DOMAIN tasks \/ tasks'[i] = k
        /\ \A i, j \in DOMAIN tasks' : i < j => i \in DOMAIN tasks
    BY <2>2
  <2>5. \A i \in DOMAIN tasks, j \in DOMAIN ready' :
          tasks[i].msg \in EventMsgs /\ ready'[j] \in EventMsgs =>
            tasks[i].msg.event < ready'[j].event
    BY <1>1 DEF OrderInv
  <2>6. \A j \in DOMAIN ready' :
          k.msg \in EventMsgs /\ ready'[j] \in EventMsgs =>
            k.msg.event < ready'[j].event
    BY <1>1, <2>3 DEF OrderInv
  <2>7. \A i \in DOMAIN tasks :
          tasks[i].msg \in EventMsgs /\ k.msg \in EventMsgs =>
            tasks[i].msg.event < k.msg.event
    BY <1>1, <2>3 DEF OrderInv
  <2>8. \A i, j \in DOMAIN tasks' :
         i < j /\ tasks'[i].msg \in EventMsgs /\ tasks'[j].msg \in EventMsgs =>
             tasks'[i].msg.event < tasks'[j].msg.event
    BY <2>2, <2>4, <2>7 DEF OrderInv
  <2>9. \A i \in DOMAIN tasks', j \in DOMAIN ready' :
         tasks'[i].msg \in EventMsgs /\ ready'[j] \in EventMsgs =>
             tasks'[i].msg.event < ready'[j].event
    BY <2>2, <2>4, <2>5, <2>6
  <2> QED BY <1>3, <2>8, <2>9 DEF OrderInv
<1> QED BY <1>4, <1>5

\* The reaper's broadcast is not of an event.
LEMMA OrderReaps ==
  ASSUME IInv, OrderInv, ready' = ready, NEW k \in Tasks,
         tasks' = Append(tasks, k), k.msg \notin EventMsgs
  PROVE  OrderInv'
<1>1. tasks \in Seq(Tasks)
  BY DEF IInv, TypeOK
<1>2. /\ DOMAIN tasks' = 1 .. Len(tasks) + 1 /\ Len(tasks) \in Nat
      /\ DOMAIN tasks = 1 .. Len(tasks)
      /\ \A i \in DOMAIN tasks : tasks'[i] = tasks[i]
      /\ tasks'[Len(tasks) + 1] = k
  BY <1>1, Appended
<1>3. \A i \in DOMAIN tasks' : i \in DOMAIN tasks \/ tasks'[i] = k
  BY <1>2
<1> QED BY <1>2, <1>3 DEF OrderInv

\* The least event a page is owed is the one after those it counted.
LEMMA NextOwed ==
  ASSUME IInv, ListInv, NEW c \in Clients \ excused, Shown(c),
         NEW x \in 1 .. total, Owes(x, c),
         \A f \in 1 .. total : f < x => ~ Owes(f, c)
  PROVE  x = view[c].total + 1
<1>1. total \in Nat /\ view[c].total \in Nat
  BY DEF IInv, TypeOK
<1>2. \A e \in 1 .. total : Owes(e, c) <=> e > view[c].total
  BY DEF ListInv
<1>3. CASE x > view[c].total + 1
  <2>1. view[c].total + 1 \in 1 .. total /\ view[c].total + 1 < x
        /\ view[c].total + 1 > view[c].total
    BY <1>1, <1>3
  <2> QED BY <1>2, <2>1
<1> QED BY <1>1, <1>2, <1>3

Listed(c) ==
    /\ view[c].events = Newest(view[c].total)
    /\ \A e \in 1 .. total : Owes(e, c) <=> e > view[c].total

\* The page applies it, and lists it on top.
LEMMA ListedNext ==
  ASSUME IInv, ListInv, NEW c \in Clients \ excused, Shown(c), total' = total,
         NEW m \in EventMsgs, m.event \in 1 .. total, Owes(m.event, c),
         \A f \in 1 .. total : f < m.event => ~ Owes(f, c),
         view'[c] = Apply(view[c], m), ~ Owes(m.event, c)',
         \A e \in 1 .. total : e # m.event => (Owes(e, c)' <=> Owes(e, c))
  PROVE  Listed(c)'
<1>1. total \in Nat /\ view[c] \in Views /\ view[c].total \in Nat
  BY DEF IInv, TypeOK, Views
<1>2. m.event = view[c].total + 1
  BY NextOwed
<1>3. view[c].events = Newest(view[c].total)
      /\ \A e \in 1 .. total : Owes(e, c) <=> e > view[c].total
  BY DEF ListInv
<1>4. /\ view'[c].total = view[c].total + 1
      /\ view'[c].events = FirstOf(<<m.event>> \o view[c].events)
  BY <1>1, AppliedEvent
<1>5. view'[c].events = Newest(view'[c].total)
  BY <1>1, <1>2, <1>3, <1>4, NewestStep
<1>6. \A e \in 1 .. total : Owes(e, c)' <=> e > view'[c].total
  BY <1>1, <1>2, <1>3, <1>4
<1> QED BY <1>5, <1>6 DEF Listed

LEMMA ListedSame ==
  ASSUME ListInv, NEW c \in Clients \ excused, Shown(c), total' = total,
         view'[c].total = view[c].total, view'[c].events = view[c].events,
         \A e \in 1 .. total : Owes(e, c)' <=> Owes(e, c)
  PROVE  Listed(c)'
  BY DEF ListInv, Listed

LEMMA ListsListed ==
  ASSUME ListInv, total' = total, events' = events,
         UNCHANGED <<conn, ws_clients, excused>>,
         \A c \in Clients \ excused : Shown(c) => Listed(c)'
  PROVE  ListInv'
  BY DEF ListInv, Listed, Shown

\* The queue starts the broadcast of its first message.
LEMMA ListStarts ==
  ASSUME FeedInv, SteadyInv, OrderInv, ListInv,
         ready # <<>>, ready' = Tail(ready),
         NEW p \in ws_clients, NEW k \in Tasks, BeginsWith(k, p),
         k.msg = AsSent(Head(ready))
  PROVE  ListInv'
<1>1. IInv /\ TypeOK /\ OnceInv /\ total \in Nat /\ ws_clients \subseteq Clients
      /\ view \in [Clients -> Views]
  BY DEF FeedInv, IInv, TypeOK, Views
<1>2. /\ OnceInv'
      /\ k.msg \notin EventMsgs => \A c, e : Owes(e, c)' <=> Owes(e, c)
      /\ k.msg \in EventMsgs =>
            /\ k.msg.event \in 1 .. total
            /\ \A c : Owes(k.msg.event, c)
                      /\ (Owes(k.msg.event, c)' <=> k.pos < c)
            /\ \A c, e : e # k.msg.event => (Owes(e, c)' <=> Owes(e, c))
  <2>1. UNCHANGED <<total, mq>> /\ tasks' = Append(tasks, k)
    BY DEF BeginsWith
  <2> QED BY <1>1, <2>1, Begun
<1>3. /\ 1 \in DOMAIN ready /\ ready[1] = Head(ready) /\ Head(ready) \in Scheduled
      /\ DOMAIN ready \subseteq Int
      /\ \A i \in DOMAIN ready : i # 1 => i > 1
  BY <1>1, QueueShift
<1>4. k.msg \in Sent /\ (k.msg \in EventMsgs => k.msg = ready[1])
  BY <1>1, <1>3, SentType, Kinds
<1>5. SUFFICES ASSUME NEW c \in Clients \ excused, Shown(c) PROVE Listed(c)'
  BY ListsListed DEF BeginsWith
<1>6. c \in ws_clients /\ p \in Int /\ c \in Int /\ p <= c /\ total' = total
  BY <1>1, <1>5, ClientsAreNumbers DEF Shown, BeginsWith
<1>7. CASE c # p \/ k.msg \notin EventMsgs
  <2>1. view'[c].total = view[c].total /\ view'[c].events = view[c].events
    <3>1. CASE c # p
      BY <1>5, <3>1 DEF BeginsWith
    <3>2. CASE c = p /\ k.msg \notin EventMsgs
      <4>1. view'[c] = Apply(view[c], k.msg) /\ view[c] \in Views
        BY <1>1, <1>5, <3>2 DEF BeginsWith
      <4> QED BY <1>4, <3>2, <4>1, AppliedOther, Zenon
    <3> QED BY <1>7, <3>1, <3>2
  <2>2. \A e \in 1 .. total : Owes(e, c)' <=> Owes(e, c)
    <3>1. CASE k.msg \notin EventMsgs
      BY <1>2, <3>1
    <3>2. CASE k.msg \in EventMsgs
      <4>1. k.pos < c
        BY <1>6, <1>7, <3>2 DEF BeginsWith
      <4> QED BY <1>2, <3>2, <4>1
    <3> QED BY <3>1, <3>2
  <2> QED BY <1>5, <1>6, <2>1, <2>2, ListedSame
<1>8. CASE c = p /\ k.msg \in EventMsgs
  <2>1. \A f \in 1 .. total : f < k.msg.event => ~ Owes(f, c)
    <3> SUFFICES ASSUME NEW f \in 1 .. total, f < k.msg.event PROVE ~ Owes(f, c)
      OBVIOUS
    <3>1. k.msg.event \in 1 .. total /\ ready[1] \in EventMsgs
          /\ k.msg.event = ready[1].event
      BY <1>2, <1>4, <1>8
    <3>2. ~ InReady(f)
      <4> SUFFICES ASSUME NEW i \in DOMAIN ready, ready[i] \in EventMsgs,
                          ready[i].event = f
                   PROVE  FALSE
        BY DEF InReady
      <4>1. i # 1
        BY <1>1, <3>1
      <4>2. ready[1].event < ready[i].event
        BY <1>3, <3>1, <4>1 DEF OrderInv
      <4> QED BY <1>1, <3>1, <4>2
    <3>3. ~ InTasks(f, c)
      <4> SUFFICES ASSUME NEW j \in DOMAIN tasks, tasks[j].pos < c
                   PROVE  FALSE
        BY DEF InTasks
      <4>1. p <= tasks[j].pos /\ tasks[j].pos \in Int
        BY <1>1, TaskPlaces DEF SteadyInv, BeginsWith
      <4> QED BY <1>6, <1>8, <4>1
    <3>4. ~ (mq.todo = "emit_event" /\ f = total)
      BY <1>1, <3>1
    <3> QED BY <3>2, <3>3, <3>4 DEF Owes
  <2>2. view'[c] = Apply(view[c], k.msg) /\ ~ (k.pos < c)
    BY <1>6, <1>8 DEF BeginsWith
  <2> QED BY <1>1, <1>2, <1>5, <1>6, <1>8, <2>1, <2>2, ListedNext
<1> QED BY <1>7, <1>8

LEMMA ListReaps ==
  ASSUME FeedInv, SteadyInv, ListInv, ready' = ready,
         NEW p \in ws_clients, NEW k \in Tasks, BeginsWith(k, p),
         k.msg \notin EventMsgs
  PROVE  ListInv'
<1>1. IInv /\ OnceInv /\ ws_clients \subseteq Clients
      /\ view \in [Clients -> Views]
  BY DEF FeedInv, IInv, TypeOK, Views
<1>2. \A c, e : Owes(e, c)' <=> Owes(e, c)
  <2>1. UNCHANGED <<total, mq, ready>> /\ tasks' = Append(tasks, k)
    BY DEF BeginsWith
  <2> QED BY <1>1, <2>1, StatusBegun
<1>3. k.msg \in Sent
  BY DEF Tasks, Sent
<1>4. SUFFICES ASSUME NEW c \in Clients \ excused, Shown(c) PROVE Listed(c)'
  BY ListsListed DEF BeginsWith
<1>5. view'[c].total = view[c].total /\ view'[c].events = view[c].events
  <2>1. CASE c # p
    BY <1>4, <2>1 DEF BeginsWith
  <2>2. CASE c = p
    <3>1. view'[c] = Apply(view[c], k.msg) /\ view[c] \in Views
      BY <1>1, <1>4, <2>2 DEF BeginsWith
    <3> QED BY <1>3, <3>1, AppliedOther, Zenon
  <2> QED BY <2>1, <2>2
<1>6. total' = total
  BY DEF BeginsWith
<1> QED BY <1>2, <1>4, <1>5, <1>6, ListedSame

\* What the broadcast that begins tells of the gateways.
LEMMA StatusTold ==
  ASSUME IInv, SteadyInv, StatusInv,
         NEW p \in ws_clients, NEW k \in Tasks, BeginsWith(k, p),
         \A g \in Gateways : ~ Rereads(g)' =>
             \/ ~ Rereads(g) /\ k.msg \notin Of(g)
             \/ k.msg \in Saying(g, online[g])
  PROVE  StatusInv'
<1>1. /\ tasks \in Seq(Tasks) /\ ws_clients \subseteq Clients
      /\ view \in [Clients -> Views] /\ online \in [Gateways -> BOOLEAN]
  BY DEF IInv, TypeOK, Views
<1>2. k.msg \in Sent
  BY DEF Tasks, Sent
<1>3. tasks' = Append(tasks, k) /\ online' = online
  BY DEF BeginsWith
<1> SUFFICES ASSUME NEW c \in Clients, NEW g \in Gateways, Shown(c)', ~ Rereads(g)'
             PROVE  /\ LastIn(Of(g), Saying(g, online[g]), c)'
                    /\ Passed(Of(g), c)' => view'[c].online[g] = online[g]
  BY <1>3 DEF StatusInv, LastIn, Saying
<1>4. Shown(c) /\ c \in ws_clients /\ p <= c /\ c \in Int /\ p \in Int
      /\ online[g] \in BOOLEAN
  BY <1>1, ClientsAreNumbers DEF Shown, BeginsWith
<1> DEFINE R == Saying(g, online[g])
<1>5. R' = R
  BY <1>3 DEF Saying
<1>6. view[c] \in Views
  BY <1>1
<1>7. CASE k.msg \in Saying(g, online[g])
  <2>1. k.msg \in Of(g)
    BY <1>7 DEF Saying, Of
  <2>2. LastIn(Of(g), R, c)' /\ (Passed(Of(g), c)' => c <= k.pos)
    BY <1>1, <1>3, <1>5, <1>7, <2>1, ToldBegun
  <2>3. ASSUME Passed(Of(g), c)' PROVE view'[c].online[g] = online[g]
    <3>1. c = p
      BY <1>4, <2>2, <2>3 DEF BeginsWith
    <3>2. view'[c] = Apply(view[c], k.msg)
      BY <3>1 DEF BeginsWith
    <3> QED BY <1>2, <1>4, <1>6, <1>7, <3>2, AppliedTold
  <2> QED BY <2>2, <2>3
<1>8. CASE ~ Rereads(g) /\ k.msg \notin Of(g)
  <2>1. /\ LastIn(Of(g), R, c)
        /\ Passed(Of(g), c) => view[c].online[g] = online[g]
    BY <1>4, <1>8 DEF StatusInv
  <2>2. LastIn(Of(g), R, c)' /\ (Passed(Of(g), c)' => Passed(Of(g), c))
    BY <1>1, <1>3, <1>5, <1>8, <2>1, ToldBegun
  <2>3. view'[c].online[g] = view[c].online[g]
    <3>1. CASE c = p
      <4>1. view'[c] = Apply(view[c], k.msg)
        BY <3>1 DEF BeginsWith
      <4> QED BY <1>2, <1>6, <1>8, <4>1, AppliedTold
    <3>2. CASE c # p
      BY <3>2 DEF BeginsWith
    <3> QED BY <3>1, <3>2
  <2> QED BY <2>1, <2>2, <2>3
<1> QED BY <1>7, <1>8

\* What it tells of the connection.
LEMMA LinkTold ==
  ASSUME IInv, SteadyInv, LinkInv,
         NEW p \in ws_clients, NEW k \in Tasks, BeginsWith(k, p),
         mq.todo # "emit_transport" =>
           /\ \A i \in Waiting' :
                (\A j \in Waiting' : j <= i) => ready'[i].connected = up
           /\ Waiting' = {} => \/ Waiting = {} /\ k.msg \notin TransportMsgs
                               \/ k.msg \in Link(up)
  PROVE  LinkInv'
<1>1. /\ tasks \in Seq(Tasks) /\ ws_clients \subseteq Clients
      /\ view \in [Clients -> Views]
  BY DEF IInv, TypeOK, Views
<1>2. k.msg \in Sent
  BY DEF Tasks, Sent
<1>3. tasks' = Append(tasks, k) /\ up' = up /\ mq' = mq
  BY DEF BeginsWith
<1> DEFINE R == Link(up)
<1>4. R' = R
  BY <1>3 DEF Link
<1> SUFFICES ASSUME mq.todo # "emit_transport", Waiting' = {},
                    NEW c \in Clients, Shown(c)'
             PROVE  /\ LastIn(TransportMsgs, R, c)'
                    /\ Passed(TransportMsgs, c)' => view'[c].broker = up
  BY <1>3 DEF LinkInv
<1>5. Shown(c) /\ c \in ws_clients /\ p <= c /\ c \in Int /\ p \in Int
  BY <1>1, ClientsAreNumbers DEF Shown, BeginsWith
<1>6. view[c] \in Views
  BY <1>1
<1>7. CASE k.msg \in Link(up)
  <2>1. k.msg \in TransportMsgs
    BY <1>7 DEF Link
  <2>2. LastIn(TransportMsgs, R, c)' /\ (Passed(TransportMsgs, c)' => c <= k.pos)
    BY <1>1, <1>3, <1>4, <1>7, <2>1, ToldBegun
  <2>3. ASSUME Passed(TransportMsgs, c)' PROVE view'[c].broker = up
    <3>1. c = p
      BY <1>5, <2>2, <2>3 DEF BeginsWith
    <3>2. view'[c] = Apply(view[c], k.msg)
      BY <3>1 DEF BeginsWith
    <3> QED BY <1>2, <1>6, <1>7, <3>2, AppliedTold
  <2> QED BY <2>2, <2>3
<1>8. CASE Waiting = {} /\ k.msg \notin TransportMsgs
  <2>1. /\ LastIn(TransportMsgs, R, c)
        /\ Passed(TransportMsgs, c) => view[c].broker = up
    BY <1>5, <1>8 DEF LinkInv
  <2>2. LastIn(TransportMsgs, R, c)' /\ (Passed(TransportMsgs, c)' => Passed(TransportMsgs, c))
    BY <1>1, <1>3, <1>4, <1>8, <2>1, ToldBegun
  <2>3. view'[c].broker = view[c].broker
    <3>1. CASE c = p
      <4>1. view'[c] = Apply(view[c], k.msg)
        BY <3>1 DEF BeginsWith
      <4> QED BY <1>2, <1>6, <1>8, <4>1, AppliedTold
    <3>2. CASE c # p
      BY <3>2 DEF BeginsWith
    <3> QED BY <3>1, <3>2
  <2> QED BY <2>1, <2>2, <2>3
<1> QED BY <1>7, <1>8

\* What waits of the connection when the queue moves up.
LEMMA WaitingShift ==
  ASSUME IInv, ready # <<>>, ready' = Tail(ready)
  PROVE  /\ \A i \in Waiting' : (\A j \in Waiting' : j <= i) =>
              /\ i + 1 \in Waiting /\ \A j \in Waiting : j <= i + 1
              /\ ready'[i] = ready[i + 1]
         /\ Waiting' = {} =>
              \/ Waiting = {} /\ Head(ready) \notin TransportMsgs
              \/ /\ Head(ready) \in TransportMsgs
                 /\ 1 \in Waiting /\ \A j \in Waiting : j <= 1
<1>1. /\ 1 \in DOMAIN ready /\ ready[1] = Head(ready) /\ Head(ready) \in Scheduled
      /\ DOMAIN ready \subseteq Int /\ DOMAIN ready' \subseteq Int
      /\ \A i \in DOMAIN ready' :
           i + 1 \in DOMAIN ready /\ 1 < i + 1 /\ ready'[i] = ready[i + 1]
      /\ \A i \in DOMAIN ready : i # 1 =>
           i > 1 /\ i - 1 \in DOMAIN ready' /\ ready'[i - 1] = ready[i]
  BY QueueShift
<1>2. \A j \in Waiting : j # 1 => j > 1 /\ j - 1 \in Waiting'
  BY <1>1 DEF Waiting
<1>3. ASSUME NEW i \in Waiting', \A j \in Waiting' : j <= i
      PROVE  /\ i + 1 \in Waiting /\ \A j \in Waiting : j <= i + 1
             /\ ready'[i] = ready[i + 1]
  <2>1. /\ i \in Int /\ i + 1 \in Waiting /\ 1 < i + 1
        /\ ready'[i] = ready[i + 1]
    BY <1>1 DEF Waiting
  <2>2. \A j \in Waiting : j <= i + 1
    <3> SUFFICES ASSUME NEW j \in Waiting PROVE j <= i + 1
      OBVIOUS
    <3>1. j \in Int
      BY <1>1 DEF Waiting
    <3>2. CASE j = 1
      BY <2>1, <3>2
    <3>3. CASE j # 1
      <4>1. j - 1 <= i
        BY <1>2, <1>3, <3>3
      <4> QED BY <2>1, <3>1, <4>1
    <3> QED BY <3>2, <3>3
  <2> QED BY <2>1, <2>2
<1>4. ASSUME Waiting' = {}
      PROVE  \/ Waiting = {} /\ Head(ready) \notin TransportMsgs
             \/ /\ Head(ready) \in TransportMsgs
                /\ 1 \in Waiting /\ \A j \in Waiting : j <= 1
  <2>1. \A j \in Waiting : j = 1
    BY <1>2, <1>4
  <2>2. 1 \in Waiting <=> Head(ready) \in TransportMsgs
    BY <1>1 DEF Waiting
  <2> QED BY <2>1, <2>2
<1> QED BY <1>3, <1>4

\* A status is read when its broadcast starts: only that one is read no more.
LEMMA RereadsShift ==
  ASSUME IInv, ready # <<>>, ready' = Tail(ready), mq' = mq, reaper' = reaper,
         NEW g \in Gateways, ~ Rereads(g)'
  PROVE  \/ ~ Rereads(g) /\ AsSent(Head(ready)) \notin Of(g)
         \/ AsSent(Head(ready)) \in Saying(g, online[g])
<1> DEFINE m == Head(ready)
<1>1. /\ 1 \in DOMAIN ready /\ ready[1] = m /\ m \in Scheduled
      /\ \A i \in DOMAIN ready : i # 1 =>
           i > 1 /\ i - 1 \in DOMAIN ready' /\ ready'[i - 1] = ready[i]
  BY QueueShift
<1>2. TypeOK
  BY DEF IInv
<1> HIDE DEF m
<1>3. /\ AsSent(m) \in Sent
      /\ m \in GatewayMsgs =>
           /\ AsSent(m) \in StatusMsgs
           /\ AsSent(m).gateway = m.gateway
           /\ AsSent(m).online = online[m.gateway]
      /\ m \notin GatewayMsgs => AsSent(m) = m
  BY <1>1, <1>2, SentType
<1>4. CASE m \in GatewayMsgs /\ m.gateway = g
  BY <1>3, <1>4 DEF Saying, m
<1>5. CASE ~ (m \in GatewayMsgs /\ m.gateway = g)
  <2>1. \A i \in DOMAIN ready : ~ (ready[i] \in GatewayMsgs /\ ready[i].gateway = g)
    <3>1. \A i \in DOMAIN ready' : ~ (ready'[i] \in GatewayMsgs /\ ready'[i].gateway = g)
      BY DEF Rereads
    <3> QED BY <1>1, <1>5, <3>1
  <2>2. ~ Rereads(g)
    BY <2>1 DEF Rereads
  <2>3. AsSent(m) \notin Of(g)
    <3>1. CASE m \in GatewayMsgs
      BY <1>3, <1>5, <3>1 DEF Of
    <3>2. CASE m \notin GatewayMsgs
      <4>1. m \notin StatusMsgs
        BY <1>1, <3>2, Kinds DEF Scheduled
      <4> QED BY <1>3, <3>2, <4>1 DEF Of
    <3> QED BY <3>1, <3>2
  <2> QED BY <2>2, <2>3 DEF m
<1> QED BY <1>4, <1>5

LEMMA StartLive ==
  ASSUME LiveInv, StartTask
  PROVE  Live'
<1>1. /\ ready # <<>> /\ ready' = Tail(ready)
      /\ UNCHANGED <<total, events, online, up, mq, reaper, conn, excused>>
  BY DEF StartTask, storeVars
<1>2. /\ TypeOK /\ ready \in Seq(Scheduled) /\ IInv /\ FeedInv
      /\ SteadyInv /\ OrderInv /\ ListInv /\ StatusInv /\ LinkInv
      /\ ws_clients \subseteq Clients
  BY ReadyLen DEF LiveInv, Live, FeedInv, IInv, TypeOK
<1>3. Head(ready) \in Scheduled
  BY <1>1, <1>2, QueueShift
<1>4. mq.todo # "emit_transport" =>
        /\ \A i \in Waiting' :
             (\A j \in Waiting' : j <= i) => ready'[i].connected = up
        /\ Waiting' = {} =>
             \/ Waiting = {} /\ Head(ready) \notin TransportMsgs
             \/ Head(ready) \in Link(up)
  <2> SUFFICES ASSUME mq.todo # "emit_transport"
               PROVE  /\ \A i \in Waiting' : (\A j \in Waiting' : j <= i) =>
                           ready'[i].connected = up
                      /\ Waiting' = {} =>
                           \/ Waiting = {} /\ Head(ready) \notin TransportMsgs
                           \/ Head(ready) \in Link(up)
    OBVIOUS
  <2>1. \A i \in Waiting : (\A j \in Waiting : j <= i) => ready[i].connected = up
    BY <1>2 DEF LinkInv
  <2>2. ready[1] = Head(ready)
    BY <1>1, <1>2, QueueShift
  <2>3. /\ \A i \in Waiting' : (\A j \in Waiting' : j <= i) =>
              /\ i + 1 \in Waiting /\ \A j \in Waiting : j <= i + 1
              /\ ready'[i] = ready[i + 1]
        /\ Waiting' = {} =>
              \/ Waiting = {} /\ Head(ready) \notin TransportMsgs
              \/ /\ Head(ready) \in TransportMsgs
                 /\ 1 \in Waiting /\ \A j \in Waiting : j <= 1
    BY <1>1, <1>2, WaitingShift
  <2> QED BY <2>1, <2>2, <2>3 DEF Link
<1>5. CASE NobodyTakes
  <2>1. /\ ws_clients = {} /\ ws_clients' = ws_clients /\ tasks' = tasks
        /\ view' = view
    BY <1>2, <1>5, SteadyNobody
  <2>2. \A c : ~ Shown(c) /\ ~ Shown(c)'
    BY <2>1 DEF Shown
  <2>3. SteadyInv'
    BY <1>1, <1>2, <2>1 DEF SteadyInv
  <2>4. OrderInv'
    BY <1>1, <1>2, <2>1, OrderStarts
  <2>5. ListInv'
    BY <1>1, <1>2, <2>2 DEF ListInv
  <2>6. StatusInv'
    BY <2>2 DEF StatusInv
  <2>7. LinkInv'
    BY <1>1, <1>4, <2>2 DEF LinkInv
  <2> QED BY <2>3, <2>4, <2>5, <2>6, <2>7 DEF Live
<1>6. CASE Begin(Head(ready), FALSE)
  <2>1. PICK p \in ws_clients, k \in Tasks :
           /\ \A d \in ws_clients : p <= d
           /\ k.msg = AsSent(Head(ready)) /\ k.pos = p
           /\ k.size = Cardinality(ws_clients) /\ k.dead = {}
           /\ tasks' = Append(tasks, k)
           /\ view'[p] = Apply(view[p], k.msg)
           /\ \A d \in Clients \ {p} : view'[d] = view[d]
           /\ ws_clients' = ws_clients
    <3>1. FALSE \in BOOLEAN
      OBVIOUS
    <3> QED BY <1>2, <1>3, <1>6, <3>1, SteadyBegin, Zenon
  <2>2. BeginsWith(k, p)
    BY <1>1, <2>1 DEF BeginsWith
  <2>3. SteadyInv'
    BY <1>2, <2>2, BegunSteady
  <2>4. OrderInv'
    BY <1>1, <1>2, <2>1, OrderStarts
  <2>5. ListInv'
    BY <1>1, <1>2, <2>1, <2>2, ListStarts
  <2>6. StatusInv'
    <3>1. \A g \in Gateways : ~ Rereads(g)' =>
             \/ ~ Rereads(g) /\ k.msg \notin Of(g)
             \/ k.msg \in Saying(g, online[g])
      BY <1>1, <1>2, <2>1, RereadsShift
    <3> QED BY <1>2, <2>2, <3>1, StatusTold
  <2>7. LinkInv'
    <3>1. Head(ready) \in TransportMsgs <=> k.msg \in TransportMsgs
      BY <1>2, <1>3, <2>1, SentType, Kinds
    <3>2. Head(ready) \in TransportMsgs => k.msg = Head(ready)
      BY <1>2, <1>3, <2>1, SentType, Kinds
    <3>3. Link(up) \subseteq TransportMsgs
      BY DEF Link
    <3>4. mq.todo # "emit_transport" =>
           /\ \A i \in Waiting' :
                (\A j \in Waiting' : j <= i) => ready'[i].connected = up
           /\ Waiting' = {} => \/ Waiting = {} /\ k.msg \notin TransportMsgs
                               \/ k.msg \in Link(up)
      BY <1>4, <3>1, <3>2, <3>3
    <3> QED BY <1>2, <2>2, <3>4, LinkTold
  <2> QED BY <2>3, <2>4, <2>5, <2>6, <2>7 DEF Live
<1> QED BY <1>5, <1>6 DEF StartTask

LEMMA ReapLive ==
  ASSUME LiveInv, ReapEmits
  PROVE  Live'
<1>1. /\ TypeOK /\ IInv /\ FeedInv
      /\ SteadyInv /\ OrderInv /\ ListInv /\ StatusInv /\ LinkInv
      /\ ws_clients \subseteq Clients
  BY DEF LiveInv, Live, FeedInv, IInv, TypeOK
<1> DEFINE g == First(reaper.todo)
           m == [gateway |-> g]
<1>2. /\ reaper.at = "emit"
      /\ \/ NobodyTakes
         \/ Begin(m, TRUE) /\ reaper' = [at |-> "emitting", todo |-> reaper.todo \ {g}]
      /\ UNCHANGED <<total, events, online, up, mq, ready, conn, excused>>
  BY Zenon DEF ReapEmits, storeVars
<1>3. g \in Gateways
  <2>1. reaper.todo \subseteq Gateways /\ reaper.todo # {}
    BY <1>1, <1>2 DEF IInv, TypeOK, ReaperInv
  <2>2. reaper.todo \subseteq Nat
    BY <2>1, FeedAssumption DEF Gateways
  <2>3. g \in reaper.todo
    BY <2>1, <2>2, FirstIsLeast, Zenon
  <2> QED BY <2>1, <2>3
<1>4. m \in GatewayMsgs /\ m \in Scheduled /\ m.gateway = g
  <2>1. m \in GatewayMsgs /\ m \in Scheduled
    BY <1>3, ScheduledMsgs, Zenon
  <2>2. m.gateway = g
    OBVIOUS
  <2> QED BY <2>1, <2>2
<1> HIDE DEF g, m
<1>5. Waiting' = Waiting
  BY <1>2 DEF Waiting
<1>6. CASE NobodyTakes
  <2>1. /\ ws_clients = {} /\ ws_clients' = ws_clients /\ tasks' = tasks
        /\ view' = view
    BY <1>1, <1>6, SteadyNobody
  <2>2. \A c : ~ Shown(c) /\ ~ Shown(c)'
    BY <2>1 DEF Shown
  <2>3. SteadyInv' /\ OrderInv'
    BY <1>1, <1>2, <2>1 DEF SteadyInv, OrderInv
  <2>4. ListInv' /\ StatusInv'
    BY <1>1, <1>2, <2>2 DEF ListInv, StatusInv
  <2>5. LinkInv'
    BY <1>1, <1>2, <1>5, <2>2 DEF LinkInv
  <2> QED BY <2>3, <2>4, <2>5 DEF Live
<1>7. CASE Begin(m, TRUE) /\ reaper' = [at |-> "emitting", todo |-> reaper.todo \ {g}]
  <2>1. PICK p \in ws_clients, k \in Tasks :
           /\ \A d \in ws_clients : p <= d
           /\ k.msg = AsSent(m) /\ k.pos = p
           /\ k.size = Cardinality(ws_clients) /\ k.dead = {}
           /\ tasks' = Append(tasks, k)
           /\ view'[p] = Apply(view[p], k.msg)
           /\ \A d \in Clients \ {p} : view'[d] = view[d]
           /\ ws_clients' = ws_clients
    <3>1. TRUE \in BOOLEAN
      OBVIOUS
    <3> QED BY <1>1, <1>4, <1>7, <3>1, SteadyBegin, Zenon
  <2>2. BeginsWith(k, p)
    BY <1>2, <2>1 DEF BeginsWith
  <2>3. /\ k.msg \in StatusMsgs /\ k.msg.gateway = g /\ k.msg.online = online[g]
    BY <1>1, <1>4, <2>1, SentType
  <2>4. k.msg \notin EventMsgs /\ k.msg \notin TransportMsgs
    BY <2>3, Kinds
  <2>5. SteadyInv'
    BY <1>1, <2>2, BegunSteady
  <2>6. OrderInv'
    BY <1>1, <1>2, <2>1, <2>4, OrderReaps
  <2>7. ListInv'
    BY <1>1, <1>2, <2>2, <2>4, ListReaps
  <2>8. StatusInv'
    <3>1. ASSUME NEW h \in Gateways, ~ Rereads(h)'
          PROVE  \/ ~ Rereads(h) /\ k.msg \notin Of(h)
                 \/ k.msg \in Saying(h, online[h])
      <4>1. CASE h = g
        BY <2>3, <4>1 DEF Saying
      <4>2. CASE h # g
        <5>1. k.msg \notin Of(h)
          BY <2>3, <4>2 DEF Of
        <5>2. h \notin reaper.todo
          BY <1>7, <3>1, <4>2 DEF Rereads
        <5> QED BY <1>2, <3>1, <5>1, <5>2 DEF Rereads
      <4> QED BY <4>1, <4>2
    <3> QED BY <1>1, <2>2, <3>1, StatusTold
  <2>9. LinkInv'
    <3>1. mq.todo # "emit_transport" =>
           /\ \A i \in Waiting' :
                (\A j \in Waiting' : j <= i) => ready'[i].connected = up
           /\ Waiting' = {} => \/ Waiting = {} /\ k.msg \notin TransportMsgs
                               \/ k.msg \in Link(up)
      BY <1>1, <1>2, <1>5, <2>4 DEF LinkInv
    <3> QED BY <1>1, <2>2, <3>1, LinkTold
  <2> QED BY <2>5, <2>6, <2>7, <2>8, <2>9 DEF Live
<1> QED BY <1>2, <1>6, <1>7

-----------------------------------------------------------------------------
(* A broadcast goes on, and ends.                                           *)

\* Broadcast i sends to the next client p.
GoesTo(i, p) ==
    /\ p > tasks[i].pos /\ \A d \in ws_clients : d > tasks[i].pos => p <= d
    /\ \A j \in 1 .. i - 1 : tasks[j].pos > tasks[i].pos
    /\ tasks' \in Seq(Tasks) /\ DOMAIN tasks' = DOMAIN tasks
    /\ tasks'[i].msg = tasks[i].msg /\ tasks'[i].pos = p
    /\ tasks'[i].size = tasks[i].size /\ tasks'[i].dead = {}
    /\ \A j \in DOMAIN tasks \ {i} : tasks'[j] = tasks[j]
    /\ view'[p] = Apply(view[p], tasks[i].msg)
    /\ \A d \in Clients \ {p} : view'[d] = view[d]
    /\ UNCHANGED <<ws_clients, conn, excused, total, events, online, up, mq,
                   ready, reaper>>

LEMMA SendsGoesTo ==
  ASSUME TypeOK, SteadyInv, NEW i \in DOMAIN tasks, TaskSends(i)
  PROVE  \E p \in ws_clients : GoesTo(i, p)
<1>1. PICK p \in ws_clients, k \in Tasks :
           /\ p > tasks[i].pos /\ \A d \in ws_clients : d > tasks[i].pos => p <= d
           /\ k.msg = tasks[i].msg /\ k.pos = p /\ k.size = tasks[i].size
           /\ k.dead = {}
           /\ tasks' \in Seq(Tasks) /\ DOMAIN tasks' = DOMAIN tasks
           /\ tasks'[i] = k
           /\ \A j \in DOMAIN tasks \ {i} : tasks'[j] = tasks[j]
           /\ view'[p] = Apply(view[p], k.msg)
           /\ \A d \in Clients \ {p} : view'[d] = view[d]
  BY SteadySends, Zenon
<1>2. /\ \A j \in 1 .. i - 1 : tasks[j].pos > tasks[i].pos
      /\ UNCHANGED <<ws_clients, conn, excused, total, events, online, up, mq,
                     ready, reaper>>
  BY DEF TaskSends, Resumable, storeVars
<1>3. /\ tasks'[i].msg = tasks[i].msg /\ tasks'[i].pos = p
      /\ tasks'[i].size = tasks[i].size /\ tasks'[i].dead = {}
      /\ view'[p] = Apply(view[p], tasks[i].msg)
  BY <1>1
<1> QED BY <1>1, <1>2, <1>3, Zenon DEF GoesTo

\* Older broadcasts have been at p already.
LEMMA OlderPassed ==
  ASSUME IInv, SteadyInv, NEW i \in DOMAIN tasks, NEW p \in ws_clients,
         GoesTo(i, p), NEW j \in DOMAIN tasks, j < i
  PROVE  p <= tasks[j].pos
<1>1. DOMAIN tasks = 1 .. Len(tasks) /\ Len(tasks) \in Nat
  BY TaskPlaces
<1>2. tasks[j].pos > tasks[i].pos
  BY <1>1 DEF GoesTo
<1>3. tasks[j].pos \in ws_clients
  BY DEF SteadyInv
<1> QED BY <1>2, <1>3 DEF GoesTo

LEMMA MovedSteady ==
  ASSUME IInv, SteadyInv, NEW i \in DOMAIN tasks, NEW p \in ws_clients,
         GoesTo(i, p)
  PROVE  SteadyInv'
<1>1. /\ \A j \in DOMAIN tasks : tasks[j].pos \in Int
      /\ DOMAIN tasks = 1 .. Len(tasks) /\ Len(tasks) \in Nat
      /\ ws_clients \subseteq Clients /\ \A c \in Clients : c \in Int
  BY TaskPlaces DEF IInv, TypeOK
<1>2. \A j, l \in DOMAIN tasks' : j < l => tasks'[l].pos <= tasks'[j].pos
  <2> SUFFICES ASSUME NEW j \in DOMAIN tasks, NEW l \in DOMAIN tasks, j < l
               PROVE  tasks'[l].pos <= tasks'[j].pos
    BY DEF GoesTo
  <2>1. tasks[l].pos <= tasks[j].pos
    BY DEF SteadyInv
  <2>2. j \in Int /\ l \in Int /\ tasks[j].pos \in Int /\ tasks[l].pos \in Int
        /\ tasks[i].pos \in Int /\ p \in Int
    BY <1>1
  <2>3. CASE l = i
    <3>1. p <= tasks[j].pos
      BY <2>3, OlderPassed
    <3> QED BY <2>2, <2>3, <3>1 DEF GoesTo
  <2>4. CASE j = i
    <3>1. tasks'[l].pos = tasks[l].pos /\ tasks'[j].pos = p /\ p > tasks[i].pos
      BY <2>2, <2>4 DEF GoesTo
    <3> QED BY <2>1, <2>2, <2>4, <3>1
  <2>5. CASE j # i /\ l # i
    BY <2>1, <2>5 DEF GoesTo
  <2> QED BY <2>3, <2>4, <2>5
<1>3. \A j \in DOMAIN tasks' :
         /\ tasks'[j].size = Cardinality(ws_clients) /\ tasks'[j].dead = {}
         /\ tasks'[j].pos \in ws_clients
  <2> SUFFICES ASSUME NEW j \in DOMAIN tasks
               PROVE  /\ tasks'[j].size = Cardinality(ws_clients)
                      /\ tasks'[j].dead = {} /\ tasks'[j].pos \in ws_clients
    BY DEF GoesTo
  <2>1. CASE j = i
    BY <2>1 DEF SteadyInv, GoesTo
  <2>2. CASE j # i
    BY <2>2 DEF SteadyInv, GoesTo
  <2> QED BY <2>1, <2>2
<1>4. ws_clients' = ws_clients /\ conn' = conn
  BY DEF GoesTo
<1> QED BY <1>2, <1>3, <1>4 DEF SteadyInv

LEMMA MovedOrder ==
  ASSUME OrderInv, NEW i \in DOMAIN tasks, NEW p, GoesTo(i, p)
  PROVE  OrderInv'
<1>1. ready' = ready /\ DOMAIN tasks' = DOMAIN tasks
      /\ \A j \in DOMAIN tasks : tasks'[j].msg = tasks[j].msg
  BY DEF GoesTo
<1> QED BY <1>1 DEF OrderInv

LEMMA MovedLists ==
  ASSUME FeedInv, SteadyInv, OrderInv, ListInv, NEW i \in DOMAIN tasks,
         NEW p \in ws_clients, GoesTo(i, p)
  PROVE  ListInv'
<1>1. IInv /\ OnceInv /\ total \in Nat /\ ws_clients \subseteq Clients
      /\ view \in [Clients -> Views]
  BY DEF FeedInv, IInv, TypeOK, Views
<1>2. /\ \A j \in DOMAIN tasks : tasks[j].pos \in Int
      /\ \A c \in Clients : c \in Int /\ p \in Clients
      /\ DOMAIN tasks = 1 .. Len(tasks)
  BY <1>1, TaskPlaces
<1>3. PICK m \in Sent : m = tasks[i].msg
  <2>1. tasks[i] \in Tasks
    BY <1>1 DEF IInv, TypeOK
  <2> QED BY <2>1 DEF Tasks, Sent
<1>4. /\ \A c \in Clients : c <= tasks[i].pos \/ p < c =>
           \A e : Owes(e, c)' <=> Owes(e, c)
      /\ m \notin EventMsgs => \A c, e : Owes(e, c)' <=> Owes(e, c)
      /\ m \in EventMsgs =>
           \E x \in 1 .. total :
             /\ x = m.event /\ Owes(x, p) /\ ~ Owes(x, p)'
             /\ \A e : e # x => (Owes(e, p)' <=> Owes(e, p))
  <2>1. /\ UNCHANGED <<total, mq, ready>> /\ tasks[i].pos < p
        /\ tasks' \in Seq(Tasks) /\ DOMAIN tasks' = DOMAIN tasks
        /\ tasks'[i].msg = tasks[i].msg /\ tasks'[i].pos = p
        /\ \A j \in DOMAIN tasks \ {i} : tasks'[j] = tasks[j]
    BY <1>1, <1>2 DEF GoesTo
  <2>2. p \in Clients
    BY <1>1
  <2>3. /\ \A c \in Clients : c <= tasks[i].pos \/ p < c =>
             \A e : Owes(e, c)' <=> Owes(e, c)
        /\ tasks[i].msg \notin EventMsgs => \A c, e : Owes(e, c)' <=> Owes(e, c)
        /\ tasks[i].msg \in EventMsgs =>
             \E x \in 1 .. total :
               /\ x = tasks[i].msg.event /\ Owes(x, p) /\ ~ Owes(x, p)'
               /\ \A e : e # x => (Owes(e, p)' <=> Owes(e, p))
    BY <1>1, <2>1, <2>2, TaskMoves
  <2> QED BY <1>3, <2>3
<1> SUFFICES ASSUME NEW c \in Clients \ excused, Shown(c) PROVE Listed(c)'
  BY ListsListed DEF GoesTo
<1>5. c \in ws_clients /\ total' = total
  BY DEF Shown, GoesTo
<1>6. c = p \/ c <= tasks[i].pos \/ p < c
  BY <1>1, <1>2, <1>5 DEF GoesTo
<1>7. CASE c # p \/ m \notin EventMsgs
  <2>1. view'[c].total = view[c].total /\ view'[c].events = view[c].events
    <3>1. CASE c # p
      BY <3>1 DEF GoesTo
    <3>2. CASE c = p /\ m \notin EventMsgs
      <4>1. view'[c] = Apply(view[c], m) /\ view[c] \in Views
        BY <1>1, <1>3, <3>2 DEF GoesTo
      <4> QED BY <3>2, <4>1, AppliedOther, Zenon
    <3> QED BY <1>7, <3>1, <3>2
  <2>2. \A e \in 1 .. total : Owes(e, c)' <=> Owes(e, c)
    BY <1>4, <1>6, <1>7
  <2> QED BY <1>5, <2>1, <2>2, ListedSame
<1>8. CASE c = p /\ m \in EventMsgs
  <2>1. /\ m.event \in 1 .. total /\ Owes(m.event, c) /\ ~ Owes(m.event, c)'
        /\ \A e : e # m.event => (Owes(e, c)' <=> Owes(e, c))
    BY <1>4, <1>8, Zenon
  <2>2. \A f \in 1 .. total : f < m.event => ~ Owes(f, c)
    <3> SUFFICES ASSUME NEW f \in 1 .. total, f < m.event PROVE ~ Owes(f, c)
      OBVIOUS
    <3>1. ~ InReady(f)
      <4> SUFFICES ASSUME NEW l \in DOMAIN ready, ready[l] \in EventMsgs,
                          ready[l].event = f
                   PROVE  FALSE
        BY DEF InReady
      <4>1. m.event < ready[l].event
        BY <1>3, <1>8 DEF OrderInv
      <4> QED BY <1>1, <2>1, <4>1
    <3>2. ~ InTasks(f, c)
      <4> SUFFICES ASSUME NEW j \in DOMAIN tasks, tasks[j].msg \in EventMsgs,
                          tasks[j].msg.event = f, tasks[j].pos < c
                   PROVE  FALSE
        BY DEF InTasks
      <4>1. j # i
        BY <1>1, <1>3, <2>1
      <4>2. ~ (i < j)
        <5>1. i < j => m.event < f
          BY <1>3, <1>8 DEF OrderInv
        <5> QED BY <1>1, <2>1, <5>1
      <4>3. j < i
        BY <1>2, <4>1, <4>2
      <4>4. p <= tasks[j].pos
        BY <1>1, <4>3, OlderPassed
      <4> QED BY <1>2, <1>8, <4>4
    <3>3. ~ (mq.todo = "emit_event" /\ f = total)
      BY <1>1, <2>1
    <3> QED BY <3>1, <3>2, <3>3 DEF Owes
  <2>3. view'[c] = Apply(view[c], m)
    BY <1>3, <1>8 DEF GoesTo
  <2>4. m \in EventMsgs /\ IInv
    BY <1>1, <1>8
  <2> QED BY <1>5, <2>1, <2>2, <2>3, <2>4, ListedNext, Zenon
<1> QED BY <1>7, <1>8

\* What client c is told, when broadcast i goes on to p.
LEMMA MovedTold ==
  ASSUME IInv, SteadyInv, NEW i \in DOMAIN tasks, NEW p \in ws_clients,
         GoesTo(i, p), NEW K, NEW R, NEW c \in ws_clients
  PROVE  /\ LastIn(K, R, c) => LastIn(K, R, c)'
         /\ Passed(K, c)' =>
              \/ Passed(K, c) /\ (c # p \/ tasks[i].msg \notin K)
              \/ c = p /\ tasks[i].msg \in K
                 /\ (LastIn(K, R, c) => tasks[i].msg \in R)
<1>1. /\ p > tasks[i].pos /\ \A d \in ws_clients : d > tasks[i].pos => p <= d
      /\ DOMAIN tasks' = DOMAIN tasks
      /\ tasks'[i].msg = tasks[i].msg /\ tasks'[i].pos = p
      /\ \A j \in DOMAIN tasks \ {i} : tasks'[j] = tasks[j]
  BY DEF GoesTo
<1> QED BY <1>1, ToldMoved

LEMMA MovedStatus ==
  ASSUME IInv, SteadyInv, StatusInv, NEW i \in DOMAIN tasks,
         NEW p \in ws_clients, GoesTo(i, p)
  PROVE  StatusInv'
<1>1. /\ online' = online /\ view \in [Clients -> Views]
      /\ online \in [Gateways -> BOOLEAN]
  BY DEF GoesTo, IInv, TypeOK, Views
<1>2. PICK m \in Sent : m = tasks[i].msg
  <2>1. tasks[i] \in Tasks
    BY DEF IInv, TypeOK
  <2> QED BY <2>1 DEF Tasks, Sent
<1> SUFFICES ASSUME NEW c \in Clients, NEW g \in Gateways, Shown(c)', ~ Rereads(g)'
             PROVE  /\ LastIn(Of(g), Saying(g, online[g]), c)'
                    /\ Passed(Of(g), c)' => view'[c].online[g] = online[g]
  BY <1>1 DEF StatusInv, LastIn, Saying
<1>3. /\ Shown(c) /\ c \in ws_clients /\ ~ Rereads(g)
      /\ online[g] \in BOOLEAN /\ view[c] \in Views
  BY <1>1 DEF Shown, GoesTo, Rereads
<1>4. /\ LastIn(Of(g), Saying(g, online[g]), c)
      /\ Passed(Of(g), c) => view[c].online[g] = online[g]
  BY <1>3 DEF StatusInv
<1>5. PICK R : R = Saying(g, online[g])
  OBVIOUS
<1>6. Saying(g, online[g])' = R
  BY <1>1, <1>5 DEF Saying
<1>7. /\ LastIn(Of(g), R, c) => LastIn(Of(g), R, c)'
      /\ Passed(Of(g), c)' =>
           \/ Passed(Of(g), c) /\ (c # p \/ tasks[i].msg \notin Of(g))
           \/ c = p /\ tasks[i].msg \in Of(g)
              /\ (LastIn(Of(g), R, c) => tasks[i].msg \in R)
  BY <1>3, MovedTold
<1>8. LastIn(Of(g), R, c)
  BY <1>4, <1>5
<1>9. LastIn(Of(g), Saying(g, online[g]), c)'
  BY <1>6, <1>7, <1>8
<1>10. ASSUME Passed(Of(g), c)' PROVE view'[c].online[g] = online[g]
  <2>1. CASE Passed(Of(g), c) /\ c # p
    BY <1>4, <2>1 DEF GoesTo
  <2>2. CASE Passed(Of(g), c) /\ c = p /\ m \notin Of(g)
    <3>1. view'[c] = Apply(view[c], m)
      BY <1>2, <2>2 DEF GoesTo
    <3> QED BY <1>3, <1>4, <2>2, <3>1, AppliedTold
  <2>3. CASE c = p /\ m \in Saying(g, online[g])
    <3>1. view'[c] = Apply(view[c], m)
      BY <1>2, <2>3 DEF GoesTo
    <3> QED BY <1>3, <2>3, <3>1, AppliedTold
  <2> QED BY <1>2, <1>5, <1>7, <1>8, <1>10, <2>1, <2>2, <2>3
<1> QED BY <1>9, <1>10

LEMMA MovedLink ==
  ASSUME IInv, SteadyInv, LinkInv, NEW i \in DOMAIN tasks,
         NEW p \in ws_clients, GoesTo(i, p)
  PROVE  LinkInv'
<1>1. /\ up' = up /\ mq' = mq /\ ready' = ready
      /\ view \in [Clients -> Views]
  BY DEF GoesTo, IInv, TypeOK, Views
<1>2. PICK m \in Sent : m = tasks[i].msg
  <2>1. tasks[i] \in Tasks
    BY DEF IInv, TypeOK
  <2> QED BY <2>1 DEF Tasks, Sent
<1>3. Waiting' = Waiting
  BY <1>1 DEF Waiting
<1>4. mq.todo # "emit_transport" =>
        \A j \in Waiting' : (\A l \in Waiting' : l <= j) => ready'[j].connected = up'
  BY <1>1, <1>3 DEF LinkInv
<1> SUFFICES ASSUME mq.todo # "emit_transport", Waiting = {},
                    NEW c \in Clients, Shown(c)'
             PROVE  /\ LastIn(TransportMsgs, Link(up), c)'
                    /\ Passed(TransportMsgs, c)' => view'[c].broker = up
  BY <1>1, <1>3, <1>4 DEF LinkInv
<1>5. Shown(c) /\ c \in ws_clients /\ view[c] \in Views
  BY <1>1 DEF Shown, GoesTo
<1>6. /\ LastIn(TransportMsgs, Link(up), c)
      /\ Passed(TransportMsgs, c) => view[c].broker = up
  BY <1>5 DEF LinkInv
<1>7. PICK R : R = Link(up)
  OBVIOUS
<1>8. Link(up)' = R
  BY <1>1, <1>7 DEF Link
<1>9. /\ LastIn(TransportMsgs, R, c) => LastIn(TransportMsgs, R, c)'
      /\ Passed(TransportMsgs, c)' =>
           \/ Passed(TransportMsgs, c) /\ (c # p \/ tasks[i].msg \notin TransportMsgs)
           \/ c = p /\ tasks[i].msg \in TransportMsgs
              /\ (LastIn(TransportMsgs, R, c) => tasks[i].msg \in R)
  BY <1>5, MovedTold
<1>10. LastIn(TransportMsgs, R, c)
  BY <1>6, <1>7
<1>11. LastIn(TransportMsgs, Link(up), c)'
  BY <1>8, <1>9, <1>10
<1>12. ASSUME Passed(TransportMsgs, c)' PROVE view'[c].broker = up
  <2>1. CASE Passed(TransportMsgs, c) /\ c # p
    BY <1>6, <2>1 DEF GoesTo
  <2>2. CASE Passed(TransportMsgs, c) /\ c = p /\ m \notin TransportMsgs
    <3>1. view'[c] = Apply(view[c], m)
      BY <1>2, <2>2 DEF GoesTo
    <3> QED BY <1>5, <1>6, <2>2, <3>1, AppliedTold
  <2>3. CASE c = p /\ m \in Link(up)
    <3>1. view'[c] = Apply(view[c], m)
      BY <1>2, <2>3 DEF GoesTo
    <3> QED BY <1>5, <2>3, <3>1, AppliedTold
  <2> QED BY <1>2, <1>7, <1>9, <1>10, <1>12, <2>1, <2>2, <2>3
<1> QED BY <1>11, <1>12

LEMMA SendsLive ==
  ASSUME LiveInv, NEW i \in DOMAIN tasks, TaskSends(i)
  PROVE  Live'
<1>1. /\ TypeOK /\ IInv /\ FeedInv
      /\ SteadyInv /\ OrderInv /\ ListInv /\ StatusInv /\ LinkInv
  BY DEF LiveInv, Live, FeedInv, IInv
<1>2. PICK p \in ws_clients : GoesTo(i, p)
  BY <1>1, SendsGoesTo
<1>3. SteadyInv'
  BY <1>1, <1>2, MovedSteady
<1>4. OrderInv'
  BY <1>1, <1>2, MovedOrder
<1>5. ListInv'
  BY <1>1, <1>2, MovedLists
<1>6. StatusInv'
  BY <1>1, <1>2, MovedStatus
<1>7. LinkInv'
  BY <1>1, <1>2, MovedLink
<1> QED BY <1>3, <1>4, <1>5, <1>6, <1>7 DEF Live

\* The oldest broadcast ends; nobody waits for it.
LEMMA EndsLive ==
  ASSUME LiveInv, NEW i \in DOMAIN tasks, TaskEnds(i)
  PROVE  Live'
<1>1. /\ TypeOK /\ IInv /\ FeedInv /\ OnceInv
      /\ SteadyInv /\ OrderInv /\ ListInv /\ StatusInv /\ LinkInv
      /\ ws_clients \subseteq Clients /\ total \in Nat
  BY DEF LiveInv, Live, FeedInv, IInv, TypeOK
<1>2. /\ i = 1 /\ ws_clients' = ws_clients
      /\ \A d \in ws_clients : d <= tasks[1].pos
      /\ DOMAIN tasks = 1 .. Len(tasks) /\ Len(tasks) \in Nat
      /\ DOMAIN tasks' = 1 .. Len(tasks) - 1
      /\ \A j \in DOMAIN tasks' :
           j + 1 \in DOMAIN tasks /\ tasks'[j] = tasks[j + 1]
  BY <1>1, SteadyEnds
<1>3. /\ UNCHANGED <<total, events, online, up, mq, ready, conn, view, excused>>
      /\ tasks' = RemoveAt(tasks, 1)
      /\ reaper'.todo = reaper.todo
  <2>1. /\ UNCHANGED <<total, events, online, up, mq, ready, conn, view, excused>>
        /\ tasks' = RemoveAt(tasks, 1)
        /\ reaper' = reaper \/ ReaperGoesOn
    BY <1>2 DEF TaskEnds, storeVars, ReaperAfter
  <2>2. reaper'.todo = reaper.todo
    <3>1. CASE reaper' = reaper
      BY <3>1
    <3>2. CASE ReaperGoesOn /\ reaper.todo = {}
      BY <3>2 DEF ReaperGoesOn, Asleep
    <3>3. CASE ReaperGoesOn /\ reaper.todo # {}
      <4>1. reaper' = [reaper EXCEPT !.at = "emit"] /\ reaper \in ReaperStates
        BY <1>1, <3>3, LoopTypes DEF ReaperGoesOn
      <4> QED BY <4>1 DEF ReaperStates
    <3> QED BY <2>1, <3>1, <3>2, <3>3
  <2> QED BY <2>1, <2>2
<1>4. \A j, l \in DOMAIN tasks' : j < l => j + 1 < l + 1
  BY <1>2
<1>5. SteadyInv'
  BY <1>1, <1>2, <1>3, <1>4 DEF SteadyInv
<1>6. OrderInv'
  BY <1>1, <1>2, <1>3, <1>4 DEF OrderInv
<1>7. \A c : Shown(c)' <=> Shown(c)
  BY <1>2, <1>3 DEF Shown
<1>8. ListInv'
  <2> SUFFICES ASSUME NEW c \in Clients \ excused, Shown(c) PROVE Listed(c)'
    BY <1>1, <1>2, <1>3, ListsListed
  <2>1. ~ (c > tasks[1].pos)
    <3>1. c \in Int /\ tasks[1].pos \in Int
      BY <1>1, <1>2, TaskPlaces
    <3> QED BY <1>2, <3>1 DEF Shown
  <2>2. \A e : Owes(e, c)' <=> Owes(e, c)
    BY <1>1, <1>2, <1>3, <2>1, TaskGone
  <2> QED BY <1>1, <1>3, <2>2, ListedSame
<1>9. \A c \in ws_clients : \A K, R :
        /\ LastIn(K, R, c) => LastIn(K, R, c)'
        /\ Passed(K, c)' => Passed(K, c)
  BY <1>1, <1>2, ToldEnded
<1>10. StatusInv'
  <2> SUFFICES ASSUME NEW c \in Clients, NEW g \in Gateways, Shown(c), ~ Rereads(g)'
               PROVE  /\ LastIn(Of(g), Saying(g, online[g]), c)'
                      /\ Passed(Of(g), c)' => view[c].online[g] = online[g]
    BY <1>3, <1>7 DEF StatusInv, LastIn, Saying
  <2>1. c \in ws_clients /\ ~ Rereads(g)
    BY <1>3 DEF Shown, Rereads
  <2>2. PICK R : R = Saying(g, online[g])
    OBVIOUS
  <2>3. Saying(g, online[g])' = R
    BY <1>3, <2>2 DEF Saying
  <2>4. LastIn(Of(g), R, c) /\ (Passed(Of(g), c) => view[c].online[g] = online[g])
    BY <1>1, <2>1, <2>2 DEF StatusInv
  <2> QED BY <1>9, <2>1, <2>3, <2>4
<1>11. LinkInv'
  <2>1. Waiting' = Waiting
    BY <1>3 DEF Waiting
  <2>2. PICK R : R = Link(up)
    OBVIOUS
  <2>3. Link(up)' = R
    BY <1>3, <2>2 DEF Link
  <2>4. mq.todo # "emit_transport" =>
          /\ \A j \in Waiting : (\A l \in Waiting : l <= j) => ready[j].connected = up
          /\ Waiting = {} =>
               \A c \in Clients : Shown(c) =>
                   /\ LastIn(TransportMsgs, R, c)
                   /\ Passed(TransportMsgs, c) => view[c].broker = up
    BY <1>1, <2>2 DEF LinkInv
  <2>5. ASSUME mq.todo # "emit_transport", Waiting = {}, NEW c \in Clients, Shown(c)
        PROVE  /\ LastIn(TransportMsgs, R, c)'
               /\ Passed(TransportMsgs, c)' => view[c].broker = up
    <3>1. c \in ws_clients
      BY <2>5 DEF Shown
    <3> QED BY <1>9, <2>4, <2>5, <3>1
  <2> QED BY <1>3, <1>7, <2>1, <2>3, <2>4, <2>5 DEF LinkInv
<1> QED BY <1>5, <1>6, <1>8, <1>10, <1>11 DEF Live

-----------------------------------------------------------------------------
(* A page joins, and the theorem.                                           *)

LEMMA JoinLive ==
  ASSUME ~ Churn, LiveInv, NEW c \in Clients, Join(c)
  PROVE  Live'
<1>1. /\ IInv /\ FeedInv
      /\ SteadyInv /\ OrderInv /\ ListInv /\ StatusInv /\ LinkInv
      /\ conn \in [Clients -> {"away", "open", "gone"}] /\ total \in Nat
      /\ view \in [Clients -> Views]
  BY DEF LiveInv, Live, FeedInv, IInv, TypeOK, Views
<1>2. /\ conn' = [conn EXCEPT ![c] = "open"] /\ ws_clients' = ws_clients \cup {c}
      /\ view' = [view EXCEPT ![c] = Snapshot]
      /\ excused' = IF Quiet THEN excused \ {c} ELSE excused \cup {c}
      /\ UNCHANGED <<total, events, online, up, mq, ready, tasks, reaper>>
      /\ DOMAIN tasks = {}
  BY DEF Join, storeVars
<1>3. /\ view'[c].total = total /\ view'[c].events = events
      /\ view'[c].online = online /\ view'[c].broker = up
      /\ \A d \in Clients \ {c} : view'[d] = view[d]
      /\ \A d \in Clients \ {c} : Shown(d)' <=> Shown(d)
  BY <1>1, <1>2 DEF Snapshot, Shown
<1>4. SteadyInv'
  BY <1>1, <1>2 DEF SteadyInv
<1>5. OrderInv'
  BY <1>1, <1>2 DEF OrderInv
<1>6. \A d, e : Owes(e, d)' <=> Owes(e, d)
  BY <1>2 DEF Owes, InReady, InTasks
<1>7. ListInv'
  <2>1. events' = Newest(total')
    BY <1>1, <1>2 DEF ListInv
  <2>2. ASSUME NEW d \in Clients \ excused', Shown(d)'
        PROVE  Listed(d)'
    <3>1. CASE d = c
      <4>1. Quiet
        BY <1>2, <2>2, <3>1
      <4>2. DOMAIN ready = {} /\ mq.todo = "idle"
        BY <4>1 DEF Quiet, MqIdle
      <4>3. \A e : ~ Owes(e, c)
        BY <1>2, <4>2 DEF Owes, InReady, InTasks
      <4>4. \A e \in 1 .. total : ~ (e > total)
        BY <1>1
      <4> QED BY <1>1, <1>2, <1>3, <1>6, <2>1, <3>1, <4>3, <4>4 DEF Listed
    <3>2. CASE d # c
      <4>1. d \in Clients \ excused /\ Shown(d) /\ view'[d] = view[d]
        BY <1>2, <1>3, <2>2, <3>2
      <4> QED BY <1>1, <1>2, <1>6, <4>1, ListedSame
    <3> QED BY <3>1, <3>2
  <2> QED BY <2>1, <2>2 DEF ListInv, Listed
<1>8. \A K, R, d : LastIn(K, R, d)' /\ Passed(K, d)' /\ Passed(K, d)
  BY <1>2 DEF LastIn, Passed
<1>9. StatusInv'
  <2> SUFFICES ASSUME NEW d \in Clients, NEW g \in Gateways, Shown(d)', ~ Rereads(g)'
               PROVE  view'[d].online[g] = online[g]
    BY <1>2, <1>8 DEF StatusInv, LastIn
  <2>1. ~ Rereads(g)
    BY <1>2 DEF Rereads
  <2>2. CASE d = c
    BY <1>3, <2>2
  <2>3. CASE d # c
    BY <1>1, <1>3, <1>8, <2>1, <2>3 DEF StatusInv
  <2> QED BY <2>2, <2>3
<1>10. LinkInv'
  <2>1. Waiting' = Waiting
    BY <1>2 DEF Waiting
  <2>2. ASSUME mq.todo # "emit_transport", Waiting = {}, NEW d \in Clients, Shown(d)'
        PROVE  view'[d].broker = up
    <3>1. CASE d = c
      BY <1>3, <3>1
    <3>2. CASE d # c
      BY <1>1, <1>3, <1>8, <2>2, <3>2 DEF LinkInv
    <3> QED BY <3>1, <3>2
  <2>3. mq.todo # "emit_transport" =>
          \A j \in Waiting : (\A l \in Waiting : l <= j) => ready[j].connected = up
    BY <1>1 DEF LinkInv
  <2> QED BY <1>2, <2>1, <2>2, <2>3 DEF LinkInv, LastIn
<1> QED BY <1>4, <1>5, <1>7, <1>9, <1>10 DEF Live

LEMMA UpstreamLive ==
  ASSUME LiveInv, Upstream
  PROVE  Live'
<1>1. /\ IInv /\ OnceInv /\ FeedInv
      /\ SteadyInv /\ OrderInv /\ ListInv /\ StatusInv /\ LinkInv
  BY DEF LiveInv, Live, FeedInv
<1>2. SteadyInv'
  BY <1>1, UpstreamSteady
<1>3. OrderInv'
  BY <1>1, UpstreamOrder
<1>4. ListInv'
  BY <1>1, UpstreamLists
<1>5. StatusInv'
  BY <1>1, UpstreamStatus
<1>6. LinkInv'
  BY <1>1, UpstreamLink
<1> QED BY <1>2, <1>3, <1>4, <1>5, <1>6 DEF Live

LEMMA StaysLive ==
  ASSUME LiveInv, UNCHANGED vars
  PROVE  Live'
<1>1. UNCHANGED <<total, events, online, up, mq, ready, tasks, reaper, conn,
                  ws_clients, view, excused>>
  BY DEF vars, storeVars, pageVars
<1>2. SteadyInv' /\ OrderInv' /\ ListInv'
  BY <1>1 DEF LiveInv, Live, SteadyInv, OrderInv, ListInv, Shown, Owes, InReady, InTasks
<1>3. StatusInv' /\ LinkInv'
  BY <1>1 DEF LiveInv, Live, StatusInv, LinkInv, Shown, Rereads, Waiting, LastIn,
              Passed, Saying, Link
<1> QED BY <1>2, <1>3 DEF Live

LEMMA LiveInit == Init => Live
<1> SUFFICES ASSUME Init PROVE Live
  OBVIOUS
<1>1. DOMAIN ready = {} /\ DOMAIN tasks = {} /\ total = 0 /\ events = <<>>
      /\ ws_clients = {} /\ conn = [c \in Clients |-> "away"]
  BY DEF Init
<1>2. \A c : ~ Shown(c)
  BY <1>1 DEF Shown
<1>3. Waiting = {}
  BY <1>1 DEF Waiting
<1>4. SteadyInv /\ OrderInv
  BY <1>1 DEF SteadyInv, OrderInv
<1>5. events = Newest(total)
  <2>1. Keep \in Nat
    BY FeedAssumption
  <2>2. Newest(0) = [k \in 1 .. 0 |-> 0 + 1 - k]
    BY <2>1 DEF Newest
  <2>3. 1 .. 0 = {}
    OBVIOUS
  <2> QED BY <1>1, <2>2, <2>3
<1> QED BY <1>2, <1>3, <1>4, <1>5 DEF Live, ListInv, StatusInv, LinkInv

LEMMA LiveNext ==
  ASSUME ~ Churn
  PROVE  LiveInv /\ [Next]_vars => Live'
<1> SUFFICES ASSUME LiveInv, [Next]_vars PROVE Live'
  OBVIOUS
<1>1. /\ IInv /\ SteadyInv
      /\ mq.todo = "touch" => mq.gw \in Gateways
  BY DEF LiveInv, Live, FeedInv, IInv, MqInv
<1>2. CASE Upstream
  BY <1>2, UpstreamLive
<1>3. CASE StartTask
  BY <1>3, StartLive
<1>4. ASSUME NEW i \in DOMAIN tasks, TaskRaises(i) \/ TaskSends(i) \/ TaskEnds(i)
      PROVE  Live'
  BY <1>1, <1>4, SteadyEnds, SendsLive, EndsLive
<1>5. CASE ReapEmits
  BY <1>5, ReapLive
<1>6. ASSUME NEW c \in Clients, Join(c) \/ Leave(c) \/ Discard(c)
      PROVE  Live'
  <2>1. ~ Leave(c) /\ ~ Discard(c)
    BY <1>1 DEF Leave, Discard, SteadyInv
  <2> QED BY <1>6, <2>1, JoinLive
<1>7. CASE UNCHANGED vars \/ DuplicateFrame
  BY <1>7, StaysLive DEF DuplicateFrame
<1>8. CASE Frame \/ MqttThread \/ (\E g \in Gateways : Silence(g)) \/ Broker
           \/ Reconfigure \/ ReapFlips
  <2>1. Upstream \/ DuplicateFrame
    BY <1>1, <1>8 DEF Upstream, Frame, MqttThread, Broker
  <2> QED BY <1>2, <1>7, <2>1
<1> QED BY <1>3, <1>4, <1>5, <1>6, <1>7, <1>8 DEF Next, Loop, Resume, Reaper, Browser

LEMMA LiveAlways ==
  ASSUME ~ Churn
  PROVE  Spec => []LiveInv
<1>1. Init => Live
  BY LiveInit
<1>2. LiveInv <=> FeedInv /\ Live
  BY DEF LiveInv, Live
<1>3. (FeedInv /\ Live) /\ [Next]_vars => Live'
  BY <1>2, LiveNext
<1> QED BY <1>1, <1>2, <1>3, Counts, PTL DEF Spec

\* When pages stay and nothing is on its way, every page shows what the store
\* has: the gateways and the connection to the broker as they are, and the same
\* newest events in the same order, unless the page joined with a broadcast on
\* its way.  It holds whatever the MQTT thread changes in the store between two
\* sends of the loop, and although a status is read late and the connection is
\* told by value (broadcast, _emit_gateway, _notify_transport, store.ts).
THEOREM StayingPagesShowStore == ~ Churn => (Spec => []PagesShowStore)
<1> SUFFICES ASSUME ~ Churn PROVE Spec => []PagesShowStore
  OBVIOUS
<1>1. ASSUME LiveInv PROVE PagesShowStore
  <2> SUFFICES ASSUME Quiet, NEW c \in Clients, Shown(c)
               PROVE  /\ view[c].online = online /\ view[c].broker = up
                      /\ c \notin excused => view[c].events = events
    BY DEF PagesShowStore
  <2>1. /\ mq.todo = "idle" /\ DOMAIN ready = {} /\ DOMAIN tasks = {}
        /\ reaper.at # "emit"
    BY DEF Quiet, MqIdle, LoopFree
  <2>2. /\ IInv /\ FeedInv /\ ListInv /\ StatusInv /\ LinkInv /\ total \in Nat
        /\ view \in [Clients -> Views] /\ online \in [Gateways -> BOOLEAN]
    BY <1>1 DEF LiveInv, Live, FeedInv, IInv, TypeOK, Views
  <2>3. \A g \in Gateways : ~ Rereads(g)
    <3>1. reaper.todo = {}
      BY <2>1, <2>2 DEF IInv, TypeOK, ReaperInv
    <3> QED BY <2>1, <3>1 DEF Rereads
  <2>4. \A K : Passed(K, c)
    BY <2>1 DEF Passed
  <2>5. view[c].online = online
    <3>1. \A g \in Gateways : view[c].online[g] = online[g]
      BY <2>2, <2>3, <2>4 DEF StatusInv
    <3>2. view[c].online \in [Gateways -> BOOLEAN]
      BY <2>2 DEF Views
    <3> QED BY <2>2, <3>1, <3>2
  <2>6. view[c].broker = up
    <3>1. Waiting = {} /\ mq.todo # "emit_transport"
      BY <2>1 DEF Waiting
    <3> QED BY <2>2, <2>4, <3>1 DEF LinkInv
  <2>7. ASSUME c \notin excused PROVE view[c].events = events
    <3>1. Counted(c) /\ Cardinality(Owing(c)) = 0 /\ view[c].total \in Nat
      BY <2>2, <2>7, QuietOwesNothing DEF FeedInv, CountInv, Views
    <3>2. view[c].total = total
      BY <2>2, <3>1 DEF Counted
    <3> QED BY <2>2, <2>7, <3>2 DEF ListInv
  <2> QED BY <2>5, <2>6, <2>7
<1>2. LiveInv => PagesShowStore
  BY <1>1
<1>3. Spec => []LiveInv
  BY LiveAlways
<1> QED BY <1>2, <1>3, PTL
=============================================================================
