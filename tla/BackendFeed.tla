----------------------------- MODULE BackendFeed -----------------------------
(***************************************************************************)
(* The live feed of the backend: the store (app/backend/store.py), the     *)
(* thread of the MQTT client that fills it (mqtt_client.py), the event     *)
(* loop that broadcasts its changes over WebSockets (main.py), and the     *)
(* page that applies them (app/app/src/store.ts).                          *)
(*                                                                         *)
(* The MQTT thread changes the store under its lock and only then          *)
(* schedules a broadcast on the loop.  A broadcast is a task that iterates *)
(* over ws_clients and yields at each send: other tasks, connections and   *)
(* the MQTT thread go on meanwhile.                                        *)
(***************************************************************************)
EXTENDS Integers, Sequences, FiniteSets, SequencesExt

CONSTANTS
    NGateways,  \* gateways 1 .. NGateways, in the order of the dictionary
    NClients,   \* browsers 1 .. NClients, in the order the set iterates
    Churn,      \* connections come and go while broadcasts run
    Transport,  \* the connection to the broker comes and goes
    Keep,       \* events the store and a page remember (500)
    MaxEvents,  \* bound on the events received
    MaxPending  \* bound on the broadcasts not yet done when a frame arrives

ASSUME FeedAssumption ==
    /\ {NGateways, NClients, Keep, MaxEvents, MaxPending} \subseteq Nat
    /\ Churn \in BOOLEAN /\ Transport \in BOOLEAN

VARIABLES
    total,      \* _total
    events,     \* _events, newest first: each by its place in the count
    online,     \* per gateway: its entry says online
    silent,     \* per gateway: GATEWAY_ONLINE_TTL_S has passed since its last
                \* frame
    up,         \* source.is_connected()
    mq,         \* what the MQTT thread has left to do in _on_message, for whom
    ready,      \* coroutines scheduled and not started
    tasks,      \* broadcasts under way, oldest first
    reaper,     \* _gateway_reaper: asleep, about to emit, emitting, or dead,
                \* and the flipped gateways it has yet to tell of
    conn,       \* per client: away, open, or gone (the backend does not know)
    ws_clients, \* ws_clients
    view,       \* per client: the totals, events and statuses of its page
    excused     \* history: clients that joined with a broadcast on its way, or
                \* that one which raised had yet to serve

storeVars == <<total, events, online, silent>>
pageVars == <<conn, ws_clients, view, excused>>
vars == <<storeVars, up, mq, ready, tasks, reaper, pageVars>>

Clients == 1 .. NClients
Gateways == 1 .. NGateways

\* The messages as they are scheduled and, for a gateway, as they are sent.
EventMsgs == [event : Nat]
GatewayMsgs == [gateway : Gateways]
StatusMsgs == [gateway : Gateways, online : BOOLEAN]
TransportMsgs == [connected : BOOLEAN]

\* A broadcast: its message, the slot it waits at, the size of the set when the
\* iteration began, the clients found dead, and whether the reaper awaits it.
Tasks == [msg : EventMsgs \cup StatusMsgs \cup TransportMsgs,
          pos : Clients, size : Clients, dead : SUBSET Clients,
          byReaper : BOOLEAN]

MqIdle == [todo |-> "idle", gw |-> 1]
Asleep == [at |-> "sleep", todo |-> {}]

TypeOK ==
    /\ total \in Nat /\ events \in Seq(Nat) /\ Len(events) <= Keep
    /\ online \in [Gateways -> BOOLEAN] /\ silent \in [Gateways -> BOOLEAN]
    /\ up \in BOOLEAN
    /\ mq \in [todo : {"idle", "emit_event", "touch", "emit_gateway",
                       "emit_transport"}, gw : Gateways \cup {1}]
    /\ ready \in Seq(EventMsgs \cup GatewayMsgs \cup TransportMsgs)
    /\ Len(ready) <= MaxPending + 1
    /\ tasks \in Seq(Tasks)
    /\ reaper \in [at : {"sleep", "emit", "emitting", "dead"},
                   todo : SUBSET Gateways]
    /\ conn \in [Clients -> {"away", "open", "gone"}]
    /\ ws_clients \in SUBSET Clients
    /\ view \in [Clients -> [total : Nat, events : Seq(Nat),
                           online : [Gateways -> BOOLEAN], broker : BOOLEAN]]
    /\ excused \in SUBSET Clients

\* Each gateway has just sent its first status.
Init ==
    /\ total = 0 /\ events = <<>> /\ online = [g \in Gateways |-> TRUE]
    /\ silent = [g \in Gateways |-> FALSE]
    /\ up = TRUE
    /\ mq = MqIdle /\ ready = <<>> /\ tasks = <<>>
    /\ reaper = Asleep
    /\ conn = [c \in Clients |-> "away"]
    /\ ws_clients = {}
    /\ view = [c \in Clients |-> [total |-> 0, events |-> <<>>,
                                 online |-> [g \in Gateways |-> FALSE],
                                 broker |-> FALSE]]
    /\ excused = {}

-----------------------------------------------------------------------------
(* The MQTT thread: _on_message.                                            *)

\* deque(maxlen), and slice(0, EVENT_HISTORY_MAX).
FirstOf(list) == SubSeq(list, 1, Min({Keep, Len(list)}))

Touch(g) ==
    /\ online' = [online EXCEPT ![g] = TRUE]
    /\ silent' = [silent EXCEPT ![g] = FALSE]

\* Room for the coroutines of one more frame.
Room == mq = MqIdle /\ Len(ready) + Len(tasks) < MaxPending

\* Frames come over a connection.
Accepts == up /\ Room

\* add_event stores the event and touches the gateway.
EventFrame(g) ==
    /\ Accepts
    /\ total < MaxEvents
    /\ total' = total + 1
    /\ events' = FirstOf(<<total'>> \o events)
    /\ Touch(g)
    /\ mq' = [todo |-> "emit_event", gw |-> g]
    /\ UNCHANGED <<up, ready, tasks, reaper, pageVars>>

\* add_event returned None: nothing else is done.
DuplicateFrame ==
    /\ Accepts
    /\ total > 0
    /\ UNCHANGED vars

\* Variant: the event is stored and not broadcast.
ScheduleEventNot ==
    /\ mq.todo = "emit_event"
    /\ mq' = [mq EXCEPT !.todo = "touch"]
    /\ UNCHANGED <<storeVars, up, ready, tasks, reaper, pageVars>>

ScheduleEvent ==
    /\ mq.todo = "emit_event"
    /\ ready' = Append(ready, [event |-> total])
    /\ mq' = [mq EXCEPT !.todo = "touch"]
    /\ UNCHANGED <<storeVars, up, tasks, reaper, pageVars>>

\* The second touch of an event, or the touch of a /seen or /status frame.
TouchGateway(g) ==
    /\ Accepts \/ mq = [todo |-> "touch", gw |-> g]
    /\ Touch(g)
    /\ mq' = [todo |-> "emit_gateway", gw |-> g]
    /\ UNCHANGED <<total, events, up, ready, tasks, reaper, pageVars>>

\* Variant: the status of a touched gateway is not broadcast.
ScheduleNothing ==
    /\ mq.todo = "emit_gateway"
    /\ mq' = MqIdle
    /\ UNCHANGED <<storeVars, up, ready, tasks, reaper, pageVars>>

\* Variant: the status is broadcast over and over.
ScheduleGatewayAgain ==
    /\ mq.todo = "emit_gateway"
    /\ ready' = Append(ready, [gateway |-> mq.gw])
    /\ UNCHANGED <<storeVars, up, mq, tasks, reaper, pageVars>>

ScheduleGateway ==
    /\ mq.todo = "emit_gateway"
    /\ ready' = Append(ready, [gateway |-> mq.gw])
    /\ mq' = MqIdle
    /\ UNCHANGED <<storeVars, up, tasks, reaper, pageVars>>

-----------------------------------------------------------------------------
(* The connection to the broker.  paho calls on_disconnect also when a      *)
(* connection is refused.                                                   *)

OnConnect ==
    /\ Transport
    /\ Room /\ ~up
    /\ up' = TRUE
    /\ mq' = [MqIdle EXCEPT !.todo = "emit_transport"]
    /\ UNCHANGED <<storeVars, ready, tasks, reaper, pageVars>>

OnDisconnect ==
    /\ Transport
    /\ Room
    /\ up' = FALSE
    /\ mq' = [MqIdle EXCEPT !.todo = "emit_transport"]
    /\ UNCHANGED <<storeVars, ready, tasks, reaper, pageVars>>

\* _notify_transport: unlike a status, the message holds its value.
ScheduleTransport ==
    /\ mq.todo = "emit_transport"
    /\ ready' = Append(ready, [connected |-> up])
    /\ mq' = MqIdle
    /\ UNCHANGED <<storeVars, up, tasks, reaper, pageVars>>

-----------------------------------------------------------------------------
\* Time passes without a frame of the gateway.
Silence(g) ==
    /\ mq = MqIdle /\ ~silent[g]
    /\ silent' = [silent EXCEPT ![g] = TRUE]
    /\ UNCHANGED <<total, events, online, up, mq, ready, tasks, reaper, pageVars>>

-----------------------------------------------------------------------------
(* broadcast.  A send to an open client yields, one to a client that is     *)
(* gone fails at once.  Sends to one client are served in their order.      *)

\* The loop is between two tasks: the reaper never yields between flipping the
\* gateway and the first send.
LoopFree == reaper.at # "emit"

\* The page: addEvent, setGateway, setBrokerConnected.
Show(v, msg) ==
    IF msg \in TransportMsgs THEN [v EXCEPT !.broker = msg.connected]
    ELSE [v EXCEPT !.online[msg.gateway] = msg.online]

\* Variant: the new event goes below the older ones.
ApplyBelow(v, msg) ==
    IF msg \in EventMsgs
    THEN [v EXCEPT !.total = @ + 1, !.events = FirstOf(Append(@, msg.event))]
    ELSE Show(v, msg)

Apply(v, msg) ==
    IF msg \in EventMsgs
    THEN [v EXCEPT !.total = @ + 1, !.events = FirstOf(<<msg.event>> \o @)]
    ELSE Show(v, msg)

\* The clients an iteration has yet to visit, and the first of them that takes
\* the message.
After(pos) == {c \in ws_clients : c > pos}
Takers(pos) == {c \in After(pos) : conn[c] = "open"}
First(S) == CHOOSE c \in S : \A d \in S : c <= d
Failing(pos) == {c \in After(pos) : conn[c] = "gone" /\
                                    \A d \in Takers(pos) : c < d}

Send(c, msg) == view' = [view EXCEPT ![c] = Apply(@, msg)]

\* The reaper goes on with the next gateway, or back to sleep.
ReaperGoesOn ==
    reaper' = IF reaper.todo = {} THEN Asleep ELSE [reaper EXCEPT !.at = "emit"]

ReaperAfter(task) == IF task.byReaper THEN ReaperGoesOn ELSE UNCHANGED reaper

\* The status of the gateway is read only when the task starts.
AsSent(msg) ==
    IF msg \in GatewayMsgs
    THEN [gateway |-> msg.gateway, online |-> online[msg.gateway]] ELSE msg

\* No client takes the message: the broadcast ends at once.
NobodyTakes ==
    /\ Takers(0) = {}
    /\ ws_clients' = ws_clients \ Failing(0)
    /\ UNCHANGED <<tasks, view>>

\* The task starts and yields at its first send.
Begin(scheduled, byReaper) ==
    /\ Takers(0) # {}
    /\ LET msg == AsSent(scheduled) c == First(Takers(0)) IN
         /\ Send(c, msg)
         /\ tasks' = Append(tasks,
                [msg |-> msg, pos |-> c, size |-> Cardinality(ws_clients),
                 dead |-> Failing(0), byReaper |-> byReaper])
    /\ UNCHANGED ws_clients

StartTask ==
    /\ LoopFree
    /\ ready # <<>>
    /\ NobodyTakes \/ Begin(Head(ready), FALSE)
    /\ ready' = Tail(ready)
    /\ UNCHANGED <<storeVars, up, mq, reaper, conn, excused>>

\* No older broadcast waits at or before the slot of broadcast i.
Resumable(i) ==
    LoopFree /\ \A j \in 1 .. i - 1 : tasks[j].pos > tasks[i].pos

\* Python compares the size at every step of the iteration.
SizeChanged(i) == Cardinality(ws_clients) # tasks[i].size

\* "Set changed size during iteration": the coroutine ends there.
TaskRaises(i) ==
    /\ Resumable(i)
    /\ SizeChanged(i)
    /\ tasks' = RemoveAt(tasks, i)
    /\ reaper' = IF tasks[i].byReaper THEN [at |-> "dead", todo |-> {}] ELSE reaper
    /\ excused' = excused \cup After(tasks[i].pos)
    /\ UNCHANGED <<storeVars, up, mq, ready, conn, ws_clients, view>>

TaskSends(i) ==
    /\ Resumable(i)
    /\ ~SizeChanged(i)
    /\ Takers(tasks[i].pos) # {}
    /\ LET c == First(Takers(tasks[i].pos)) IN
         /\ Send(c, tasks[i].msg)
         /\ tasks' = [tasks EXCEPT ![i].pos = c,
                                   ![i].dead = @ \cup Failing(tasks[i].pos)]
    /\ UNCHANGED <<storeVars, up, mq, ready, reaper, conn, ws_clients, excused>>

TaskEnds(i) ==
    /\ Resumable(i)
    /\ ~SizeChanged(i)
    /\ Takers(tasks[i].pos) = {}
    /\ ws_clients' = ws_clients \ (tasks[i].dead \cup Failing(tasks[i].pos))
    /\ tasks' = RemoveAt(tasks, i)
    /\ ReaperAfter(tasks[i])
    /\ UNCHANGED <<storeVars, up, mq, ready, conn, view, excused>>

-----------------------------------------------------------------------------
(* The reaper.  Between reap_gateways and the first send only the MQTT      *)
(* thread can run, and again between two of its broadcasts.                 *)

Stale == {g \in Gateways : silent[g] /\ online[g]}

Flip ==
    /\ LoopFree /\ reaper = Asleep
    /\ Stale # {}
    /\ online' = [g \in Gateways |-> online[g] /\ g \notin Stale]
    /\ UNCHANGED <<total, events, silent, up, mq, ready, tasks, pageVars>>

\* Variant: the reaper tells of the first gateway only.
ReapFlipsFirst == Flip /\ reaper' = [at |-> "emit", todo |-> {First(Stale)}]

ReapFlips == Flip /\ reaper' = [at |-> "emit", todo |-> Stale]

\* The entry of the next gateway is read now, not when it was flipped.
ReapEmits ==
    /\ reaper.at = "emit"
    /\ LET g == First(reaper.todo) rest == reaper.todo \ {g} IN
         \/ /\ NobodyTakes
            /\ reaper' = IF rest = {} THEN Asleep
                         ELSE [at |-> "emit", todo |-> rest]
         \/ /\ Begin([gateway |-> g], TRUE)
            /\ reaper' = [at |-> "emitting", todo |-> rest]
    /\ UNCHANGED <<storeVars, up, mq, ready, conn, excused>>

-----------------------------------------------------------------------------
(* websocket_endpoint and the browser.                                      *)

Quiet == mq = MqIdle /\ ready = <<>> /\ tasks = <<>> /\ LoopFree

\* What a page that joins is told.
Snapshot == [total |-> total, events |-> events, online |-> online, broker |-> up]

\* Variant: the client is not added to the set.
JoinUnserved(c) ==
    /\ LoopFree
    /\ conn[c] = "away" /\ c \notin ws_clients
    /\ Churn \/ tasks = <<>>
    /\ conn' = [conn EXCEPT ![c] = "open"]
    /\ view' = [view EXCEPT ![c] = Snapshot]
    /\ excused' = IF Quiet THEN excused \ {c} ELSE excused \cup {c}
    /\ UNCHANGED <<storeVars, up, mq, ready, tasks, reaper, ws_clients>>

\* Joined, then sent a snapshot without yielding.
Join(c) ==
    /\ LoopFree
    /\ conn[c] = "away" /\ c \notin ws_clients
    /\ Churn \/ tasks = <<>>
    /\ conn' = [conn EXCEPT ![c] = "open"]
    /\ ws_clients' = ws_clients \cup {c}
    /\ view' = [view EXCEPT ![c] = Snapshot]
    /\ excused' = IF Quiet THEN excused \ {c} ELSE excused \cup {c}
    /\ UNCHANGED <<storeVars, up, mq, ready, tasks, reaper>>

\* The browser goes away.
Leave(c) ==
    /\ Churn
    /\ conn[c] = "open"
    /\ conn' = [conn EXCEPT ![c] = "gone"]
    /\ UNCHANGED <<storeVars, up, mq, ready, tasks, reaper, ws_clients, view,
                   excused>>

\* receive_text raises WebSocketDisconnect, the finally clause discards.  A
\* client that comes back in the slot is another object: no broadcast has found
\* it dead.
Discard(c) ==
    /\ LoopFree
    /\ conn[c] = "gone"
    /\ conn' = [conn EXCEPT ![c] = "away"]
    /\ ws_clients' = ws_clients \ {c}
    /\ tasks' = [i \in DOMAIN tasks |-> [tasks[i] EXCEPT !.dead = @ \ {c}]]
    /\ UNCHANGED <<storeVars, up, mq, ready, reaper, view, excused>>

-----------------------------------------------------------------------------
(* update_config: the old client is stopped and another one made.  Stopping *)
(* waits for the callback of the MQTT thread that runs; disconnecting an    *)
(* open connection calls on_disconnect, here.                               *)

\* Variant: the old client is dropped without its callback.
StopSourceSilently == up' = FALSE /\ UNCHANGED ready

\* source.stop()
StopSource ==
    /\ up' = FALSE
    /\ ready' = Append(ready, [connected |-> FALSE]) \/ (~up /\ UNCHANGED ready)

\* The new client starts unconnected.
Reconfigure ==
    /\ Transport /\ LoopFree /\ Room
    /\ StopSource
    /\ UNCHANGED <<storeVars, mq, tasks, reaper, pageVars>>

-----------------------------------------------------------------------------
MqttThread == \/ ScheduleEvent \/ ScheduleGateway \/ ScheduleTransport
              \/ mq.todo = "touch" /\ TouchGateway(mq.gw)
Broker == OnConnect \/ OnDisconnect
Frame == \/ \E g \in Gateways : EventFrame(g) \/ TouchGateway(g)
         \/ DuplicateFrame
Resume == \E i \in DOMAIN tasks : TaskRaises(i) \/ TaskSends(i) \/ TaskEnds(i)
Loop == StartTask \/ Resume
Reaper == ReapFlips \/ ReapEmits
Browser == \E c \in Clients : Join(c) \/ Leave(c) \/ Discard(c)

Next == Frame \/ MqttThread \/ (\E g \in Gateways : Silence(g)) \/ Loop \/ Reaper \/ Browser
        \/ Broker \/ Reconfigure

Spec == Init /\ [][Next]_vars

\* The two threads run; browsers and gateways promise nothing.
Fairness ==
    /\ WF_vars(MqttThread) /\ WF_vars(StartTask) /\ WF_vars(Resume)
    /\ WF_vars(ReapFlips) /\ WF_vars(ReapEmits)

FairSpec == Spec /\ Fairness

-----------------------------------------------------------------------------
(* Properties.                                                              *)

Shown(c) == conn[c] = "open" /\ c \in ws_clients

\* An open page is served: no broadcast removes a client that is connected.
OpenIsServed == \A c \in Clients : conn[c] = "open" => c \in ws_clients

\* When nothing is on its way, every page shows what the store has: the gateways
\* and the connection to the broker as they are, however often they change while
\* pages load and broadcasts wait, and the same events in the same order, unless
\* the page joined with a broadcast on its way.  It holds without churn only: a
\* broadcast that meets a client gone overtakes an older one that waits for it.
PagesShowStore ==
    Quiet => \A c \in Clients : Shown(c) =>
                 /\ view[c].online = online /\ view[c].broker = up
                 /\ c \notin excused => view[c].events = events

\* When nothing is on its way, every page counts every event once, unless it
\* joined during a broadcast or was missed by one that raised.
PagesCountEvents ==
    Quiet => \A c \in Clients \ excused : Shown(c) => view[c].total = total

\* A gateway that stays silent is shown offline on every page, or speaks again.
SilenceIsShown ==
    \A g \in Gateways :
        silent[g] ~> \/ ~silent[g]
                     \/ \A c \in Clients : Shown(c) => ~view[c].online[g]

-----------------------------------------------------------------------------
(* What the repository says and the code does not do.                       *)

\* "this task flips it offline after GATEWAY_ONLINE_TTL_S of silence"
\* (main.py:58).
SilentGoesOffline ==
    \A g \in Gateways : silent[g] ~> ~silent[g] \/ ~online[g]
=============================================================================
