------------------------------- MODULE MqttCarrier -------------------------------
(***************************************************************************)
(* The MQTT carrier: mqtt_carrier_espidf.c and its Swift client            *)
(* (Transports/mqtt-espidf/main).                                          *)
(*                                                                         *)
(* Two tasks share the carrier's state.  The application task runs the     *)
(* synchronous calls: connect, subscribe, unsubscribe, poll, the wait for  *)
(* a reconnect, disconnect.  The ESP-MQTT task runs network_mqtt_event for *)
(* one event after the other.  Each atomic access and each critical        *)
(* section is one step.  The link and the broker are external: a           *)
(* connection comes and goes, and the broker handles the requests of one   *)
(* connection in the order they were sent and forgets them with it.        *)
(*                                                                         *)
(* Deadlines are not clocked: a wait whose condition does not hold may     *)
(* time out at any moment.                                                 *)
(***************************************************************************)
EXTENDS Integers, Sequences, FiniteSets

CONSTANTS Topics,
          SubscriptionCapacity, \* NETWORK_SUBSCRIPTION_CAPACITY
          EventCapacity,        \* NETWORK_EVENT_CAPACITY
          MaxConnects,          \* bound: connections the library makes per run
          MaxCalls,             \* bound: subscribe and unsubscribe calls per run
          MaxFrames,            \* bound: inbound messages per run
          StopFails,            \* whether esp_mqtt_client_stop or _destroy may fail
          SendModes             \* whether a request may fail on a live connection

ASSUME CarrierAssumption ==
  /\ IsFiniteSet(Topics) /\ SubscriptionCapacity \in Nat \ {0} /\ EventCapacity \in Nat \ {0}
  /\ MaxConnects \in Nat /\ MaxCalls \in Nat /\ MaxFrames \in Nat
  /\ StopFails \in BOOLEAN /\ SendModes \subseteq BOOLEAN

VARIABLES client,        \* mqtt_client: "none" or "started"
          swift,         \* EmbeddedMQTTClient.state
          bits,          \* network_mqtt_bits: 4 up, 8 ready, 32 loopback, 64 overflow
          connect_count, ack_count, reconnect_baseline,
          subscriptions, \* the subscription table, a sequence of topics
          will,          \* network_will_configured
          queue,         \* network_event_queue
          oversized,     \* network_oversized_count
          active,        \* the platform network is prepared
          app,           \* the application task: step, topic, count read before a wait
          handler,       \* the event handler: step, count read, topics left to resubscribe
          sendFails,     \* external: a request may fail on a live connection; fixed
          net,           \* external: the library's connection, "up" or "down"
          pending,       \* external: requests of this connection the broker has not handled
          granted,       \* external: topics the broker has subscribed on this connection
          connects, calls, frames,  \* how much of each bound is used
          confirmed,     \* history: topics whose subscribe call returned success
          unreported     \* history: an event was dropped since the last overflow result

carrier == <<bits, connect_count, ack_count, reconnect_baseline, subscriptions, will, queue, oversized>>
lifecycle == <<client, swift, active>>
external == <<net, pending, granted>>
bounds == <<sendFails, connects, calls, frames>>
history == <<confirmed, unreported>>
vars == <<carrier, lifecycle, external, bounds, history, app, handler>>

AppIdle == [step |-> "idle", topic |-> "none", prior |-> 0]
HandlerIdle == [step |-> "idle", acked |-> 0, todo |-> <<>>]
Listed == {subscriptions[i] : i \in DOMAIN subscriptions}
Left(h) == {h.todo[i] : i \in DOMAIN h.todo}

Init ==
  /\ client = "none" /\ swift = "idle" /\ active = FALSE
  /\ bits = {} /\ connect_count = 0 /\ ack_count = 0 /\ reconnect_baseline = 0
  /\ subscriptions = <<>> /\ will = FALSE /\ queue = <<>> /\ oversized = 0
  /\ app = AppIdle /\ handler = HandlerIdle
  /\ net = "down" /\ pending = <<>> /\ granted = {}
  /\ sendFails \in SendModes /\ connects = 0 /\ calls = 0 /\ frames = 0
  /\ confirmed = {} /\ unreported = FALSE

AppGoto(step) == app' = [app EXCEPT !.step = step]
AppReturn == app' = AppIdle
HandlerGoto(step) == handler' = [handler EXCEPT !.step = step]
HandlerReturn == handler' = HandlerIdle
LinkGone == net' = "down" /\ pending' = <<>> /\ granted' = {}

\* A request on the connection: esp_mqtt_client_subscribe or _unsubscribe.
Request(kind, t) == pending' = Append(pending, [kind |-> kind, topic |-> t])
RequestFails == net = "down" \/ sendFails

-------------------------------------------------------------------------------
(* The platform network's hooks, called while the carrier is disconnected. *)

\* axoloty_transport_network_prepare.
NetworkPrepare ==
  /\ app = AppIdle /\ client = "none" /\ ~active
  /\ active' = TRUE /\ queue' = <<>> /\ subscriptions' = <<>> /\ ack_count' = 0 /\ will' = FALSE
  /\ UNCHANGED <<client, swift, bits, connect_count, reconnect_baseline, oversized,
                 external, bounds, history, app, handler>>

\* network_reset_mqtt_state.
ResetState ==
  /\ subscriptions' = <<>> /\ ack_count' = 0 /\ reconnect_baseline' = 0
  /\ will' = FALSE /\ connect_count' = 0 /\ queue' = <<>>
  /\ UNCHANGED <<bits, oversized>>

\* axoloty_transport_network_cleanup.
NetworkCleanup ==
  /\ app = AppIdle /\ client = "none" /\ active
  /\ active' = FALSE /\ ResetState
  /\ UNCHANGED <<client, swift, external, bounds, history, app, handler>>

-------------------------------------------------------------------------------
(* The lifecycle of the Swift client.                                      *)

ConfigureLastWill ==
  /\ app = AppIdle /\ active /\ swift \in {"idle", "disconnected"} /\ client = "none"
  /\ will' = TRUE
  /\ UNCHANGED <<bits, connect_count, ack_count, reconnect_baseline, subscriptions, queue, oversized,
                 lifecycle, external, bounds, history, app, handler>>

\* axoloty_mqtt_connect_wait up to its wait.  The call returns without a
\* client when the library cannot create or start one.
Connect ==
  /\ app = AppIdle /\ active /\ swift \in {"idle", "disconnected"}
  /\ bits' = {} /\ connect_count' = 0 /\ ack_count' = 0 /\ queue' = <<>> /\ unreported' = FALSE
  /\ \/ client' = "started" /\ AppGoto("connecting")
     \/ client' = "none" /\ UNCHANGED app
  /\ UNCHANGED <<swift, active, reconnect_baseline, subscriptions, will, oversized,
                 external, bounds, confirmed, handler>>

ConnectSeen ==
  /\ app.step = "connecting" /\ "up" \in bits
  /\ AppGoto("baseline")
  /\ UNCHANGED <<carrier, lifecycle, external, bounds, history, handler>>

\* The connect call returns, and EmbeddedMQTTClient.connect is connected.
ConnectDone ==
  /\ app.step = "baseline"
  /\ reconnect_baseline' = connect_count
  /\ swift' = "connected" /\ AppReturn
  /\ UNCHANGED <<bits, connect_count, ack_count, subscriptions, will, queue, oversized,
                 client, active, external, bounds, history, handler>>

\* The deadline passed: stop, which waits for the handler, and destroy.
ConnectTimeout ==
  /\ app.step = "connecting" /\ "up" \notin bits /\ handler = HandlerIdle
  /\ client' = "none" /\ LinkGone /\ AppReturn
  /\ UNCHANGED <<carrier, swift, active, bounds, history, handler>>

\* disconnect: the client is gone whatever stop and destroy report, and Swift
\* leaves its state alone unless both succeeded.
Disconnect ==
  /\ app = AppIdle /\ swift \in {"connected", "subscribed"}
  /\ \/ /\ client = "none"
        /\ swift' = "disconnected"
        /\ UNCHANGED <<carrier, external, client, handler, confirmed>>
     \/ /\ client = "started" /\ handler = HandlerIdle
        /\ client' = "none" /\ LinkGone /\ ResetState /\ confirmed' = {}
        /\ swift' = "disconnected" \/ (StopFails /\ UNCHANGED swift)
        /\ UNCHANGED handler
  /\ UNCHANGED <<active, bounds, unreported, app>>

-------------------------------------------------------------------------------
(* Subscriptions.                                                          *)

HasRoom == Len(subscriptions) < SubscriptionCapacity

\* axoloty_mqtt_subscribe_wait: the table entry, under the lock.
Subscribe(t) ==
  /\ app = AppIdle /\ swift \in {"connected", "subscribed"} /\ client = "started"
  /\ calls < MaxCalls /\ calls' = calls + 1
  /\ \/ t \in Listed /\ UNCHANGED subscriptions
     \/ /\ t \notin Listed /\ HasRoom
        /\ subscriptions' = Append(subscriptions, t)
  /\ app' = [AppIdle EXCEPT !.step = "prior", !.topic = t]
  /\ UNCHANGED <<bits, connect_count, ack_count, reconnect_baseline, will, queue, oversized,
                 lifecycle, external, sendFails, connects, frames, history, handler>>

ReadPrior ==
  /\ app.step = "prior"
  /\ app' = [app EXCEPT !.prior = ack_count, !.step = "clear"]
  /\ UNCHANGED <<carrier, lifecycle, external, bounds, history, handler>>

ClearReady ==
  /\ app.step = "clear"
  /\ bits' = bits \ {"ready"} /\ AppGoto("send")
  /\ UNCHANGED <<connect_count, ack_count, reconnect_baseline, subscriptions, will, queue, oversized,
                 lifecycle, external, bounds, history, handler>>

SendSubscribe ==
  /\ app.step = "send"
  /\ \/ net = "up" /\ Request("sub", app.topic) /\ AppGoto("await")
     \/ RequestFails /\ AppReturn /\ UNCHANGED pending
  /\ UNCHANGED <<carrier, lifecycle, net, granted, bounds, history, handler>>

SubscribeDone ==
  /\ app.step = "await" /\ ack_count > app.prior
  /\ swift' = "subscribed" /\ confirmed' = confirmed \cup {app.topic} /\ AppReturn
  /\ UNCHANGED <<carrier, client, active, external, bounds, unreported, handler>>

\* The topic stays in the table.
SubscribeTimeout ==
  /\ app.step = "await" /\ ack_count <= app.prior
  /\ AppReturn
  /\ UNCHANGED <<carrier, lifecycle, external, bounds, history, handler>>

\* axoloty_mqtt_unsubscribe: find the topic, send, and compact the table.
Unsubscribe(t) ==
  /\ app = AppIdle /\ swift = "subscribed" /\ client = "started" /\ t \in Listed
  /\ calls < MaxCalls /\ calls' = calls + 1
  /\ app' = [AppIdle EXCEPT !.step = "unsend", !.topic = t]
  /\ UNCHANGED <<carrier, lifecycle, external, sendFails, connects, frames, history, handler>>

SendUnsubscribe ==
  /\ app.step = "unsend"
  /\ \/ /\ net = "up" /\ Request("unsub", app.topic) /\ AppGoto("compact")
        /\ confirmed' = confirmed \ {app.topic}
     \/ RequestFails /\ AppReturn /\ UNCHANGED <<pending, confirmed>>
  /\ UNCHANGED <<carrier, lifecycle, net, granted, bounds, unreported, handler>>

\* Faulty variant: the last entry is dropped instead of the one found.
Without_Last(s, t) == SubSeq(s, 1, Len(s) - 1)
Without(s, t) ==
  LET at == CHOOSE i \in DOMAIN s : s[i] = t
  IN  [i \in 1..(Len(s) - 1) |-> IF i < at THEN s[i] ELSE s[i + 1]]

Compact ==
  /\ app.step = "compact"
  /\ subscriptions' = IF app.topic \in Listed THEN Without(subscriptions, app.topic) ELSE subscriptions
  /\ AppReturn
  /\ UNCHANGED <<bits, connect_count, ack_count, reconnect_baseline, will, queue, oversized,
                 lifecycle, external, bounds, history, handler>>

-------------------------------------------------------------------------------
(* Waiting for a reconnect, and polling.                                   *)

ReconnectWait ==
  /\ app = AppIdle /\ swift = "subscribed" /\ client = "started" /\ active /\ subscriptions # <<>>
  /\ app' = [AppIdle EXCEPT !.step = "rewait", !.prior = reconnect_baseline]
  /\ UNCHANGED <<carrier, lifecycle, external, bounds, history, handler>>

\* The last load of the bits, then of the count.
ReconnectSeen ==
  /\ app.step = "rewait" /\ {"up", "ready"} \subseteq bits
  /\ AppGoto("recount")
  /\ UNCHANGED <<carrier, lifecycle, external, bounds, history, handler>>
ReconnectTimeout ==
  /\ \/ app.step = "rewait" /\ ~({"up", "ready"} \subseteq bits)
     \/ app.step = "recount" /\ connect_count < app.prior + 1
  /\ AppReturn
  /\ UNCHANGED <<carrier, lifecycle, external, bounds, history, handler>>
ReconnectDone ==
  /\ app.step = "recount" /\ connect_count >= app.prior + 1
  /\ reconnect_baseline' = app.prior + 1 /\ AppReturn
  /\ UNCHANGED <<bits, connect_count, ack_count, subscriptions, will, queue, oversized,
                 lifecycle, external, bounds, history, handler>>

\* axoloty_mqtt_poll_one_event: overflow first, then the link, then one frame.
\* A frame too large for the caller's buffers is consumed too.
Poll ==
  /\ app = AppIdle /\ swift = "subscribed"
  /\ IF "overflow" \in bits THEN AppGoto("overflow") ELSE AppGoto("link")
  /\ UNCHANGED <<carrier, lifecycle, external, bounds, history, handler>>
PollOverflow ==
  /\ app.step = "overflow"
  /\ bits' = bits \ {"overflow"} /\ unreported' = FALSE /\ AppReturn
  /\ UNCHANGED <<connect_count, ack_count, reconnect_baseline, subscriptions, will, queue, oversized,
                 lifecycle, external, bounds, confirmed, handler>>
PollLink ==
  /\ app.step = "link"
  /\ IF "up" \in bits THEN AppGoto("receive") ELSE AppReturn
  /\ UNCHANGED <<carrier, lifecycle, external, bounds, history, handler>>
PollReceive ==
  /\ app.step = "receive"
  /\ queue' = IF queue = <<>> THEN queue ELSE Tail(queue)
  /\ AppReturn
  /\ UNCHANGED <<bits, connect_count, ack_count, reconnect_baseline, subscriptions, will, oversized,
                 lifecycle, external, bounds, history, handler>>

-------------------------------------------------------------------------------
(* network_mqtt_event, one atomic access per step.                         *)

CountConnect ==
  /\ handler.step = "connected"
  /\ connect_count' = connect_count + 1
  /\ HandlerGoto(IF connect_count > 0 THEN "upAgain" ELSE "upFirst")
  /\ UNCHANGED <<bits, ack_count, reconnect_baseline, subscriptions, will, queue, oversized,
                 lifecycle, external, bounds, history, app>>
SetUp ==
  /\ handler.step \in {"upFirst", "upAgain"}
  /\ bits' = bits \cup {"up"}
  /\ IF handler.step = "upAgain" THEN HandlerGoto("zeroAcks") ELSE HandlerReturn
  /\ UNCHANGED <<connect_count, ack_count, reconnect_baseline, subscriptions, will, queue, oversized,
                 lifecycle, external, bounds, history, app>>
ZeroAcks ==
  /\ handler.step = "zeroAcks"
  /\ ack_count' = 0 /\ HandlerGoto("clearReady")
  /\ UNCHANGED <<bits, connect_count, reconnect_baseline, subscriptions, will, queue, oversized,
                 lifecycle, external, bounds, history, app>>
ClearReadyAgain ==
  /\ handler.step = "clearReady"
  /\ bits' = bits \ {"ready"} /\ HandlerGoto("snapshot")
  /\ UNCHANGED <<connect_count, ack_count, reconnect_baseline, subscriptions, will, queue, oversized,
                 lifecycle, external, bounds, history, app>>
\* Faulty variant: the last table entry is left out of the copy.
Snapshot_Short ==
  /\ handler.step = "snapshot"
  /\ handler' = [handler EXCEPT !.step = "resubscribe",
                                !.todo = SubSeq(subscriptions, 1, Len(subscriptions) - 1)]
  /\ UNCHANGED <<carrier, lifecycle, external, bounds, history, app>>
Snapshot ==
  /\ handler.step = "snapshot"
  /\ handler' = [handler EXCEPT !.step = "resubscribe", !.todo = subscriptions]
  /\ UNCHANGED <<carrier, lifecycle, external, bounds, history, app>>
\* The result of each request is ignored.
Resubscribe ==
  /\ handler.step = "resubscribe"
  /\ IF handler.todo = <<>>
       THEN HandlerReturn /\ UNCHANGED pending
       ELSE /\ handler' = [handler EXCEPT !.todo = Tail(handler.todo)]
            /\ Request("sub", Head(handler.todo)) \/ (sendFails /\ UNCHANGED pending)
  /\ UNCHANGED <<carrier, lifecycle, net, granted, bounds, history, app>>

\* Faulty variants: the ready bit survives the loss of the link; every bit is cleared.
ClearUp_KeepReady ==
  /\ handler.step = "disconnected"
  /\ bits' = bits \ {"up"} /\ HandlerReturn
  /\ UNCHANGED <<connect_count, ack_count, reconnect_baseline, subscriptions, will, queue, oversized,
                 lifecycle, external, bounds, history, app>>
ClearUp_All ==
  /\ handler.step = "disconnected"
  /\ bits' = {} /\ HandlerReturn
  /\ UNCHANGED <<connect_count, ack_count, reconnect_baseline, subscriptions, will, queue, oversized,
                 lifecycle, external, bounds, history, app>>
ClearUp ==
  /\ handler.step = "disconnected"
  /\ bits' = bits \ {"up", "ready"} /\ HandlerReturn
  /\ UNCHANGED <<connect_count, ack_count, reconnect_baseline, subscriptions, will, queue, oversized,
                 lifecycle, external, bounds, history, app>>

CountAck ==
  /\ handler.step = "subscribed"
  /\ ack_count' = ack_count + 1
  /\ handler' = [handler EXCEPT !.step = "compare", !.acked = ack_count + 1]
  /\ UNCHANGED <<bits, connect_count, reconnect_baseline, subscriptions, will, queue, oversized,
                 lifecycle, external, bounds, history, app>>
CompareAcks ==
  /\ handler.step = "compare"
  /\ IF Len(subscriptions) > 0 /\ handler.acked >= Len(subscriptions)
       THEN HandlerGoto("setReady") ELSE HandlerReturn
  /\ UNCHANGED <<carrier, lifecycle, external, bounds, history, app>>
SetReady ==
  /\ handler.step = "setReady"
  /\ bits' = bits \cup {"ready"} /\ HandlerReturn
  /\ UNCHANGED <<connect_count, ack_count, reconnect_baseline, subscriptions, will, queue, oversized,
                 lifecycle, external, bounds, history, app>>
SetOverflow ==
  /\ handler.step = "full"
  /\ bits' = bits \cup {"overflow"} /\ HandlerReturn
  /\ UNCHANGED <<connect_count, ack_count, reconnect_baseline, subscriptions, will, queue, oversized,
                 lifecycle, external, bounds, history, app>>

HandleEvent ==
  \/ CountConnect \/ SetUp \/ ZeroAcks \/ ClearReadyAgain \/ Snapshot \/ Resubscribe
  \/ ClearUp \/ CountAck \/ CompareAcks \/ SetReady \/ SetOverflow

-------------------------------------------------------------------------------
(* Events: the link, the broker's answers, and inbound messages.           *)

LinkUp ==
  /\ client = "started" /\ net = "down" /\ handler = HandlerIdle
  /\ connects < MaxConnects /\ connects' = connects + 1
  /\ net' = "up" /\ HandlerGoto("connected")
  /\ UNCHANGED <<carrier, lifecycle, pending, granted, sendFails, calls, frames, history, app>>

LinkDown ==
  /\ net = "up" /\ handler = HandlerIdle
  /\ LinkGone /\ HandlerGoto("disconnected")
  /\ UNCHANGED <<carrier, lifecycle, bounds, history, app>>

Answer ==
  /\ net = "up" /\ handler = HandlerIdle /\ pending # <<>>
  /\ pending' = Tail(pending)
  /\ LET request == Head(pending)
     IN  IF request.kind = "sub"
           THEN granted' = granted \cup {request.topic} /\ HandlerGoto("subscribed")
           ELSE granted' = granted \ {request.topic} /\ UNCHANGED handler
  /\ UNCHANGED <<carrier, lifecycle, net, bounds, history, app>>

\* axoloty_mqtt_event_classify decides on the first event of a message; later
\* parts of it are discarded.
Deliver(verdict) ==
  /\ net = "up" /\ granted # {} /\ handler = HandlerIdle
  /\ frames < MaxFrames /\ frames' = frames + 1
  /\ \/ /\ verdict = "oversized" /\ oversized' = oversized + 1
        /\ UNCHANGED <<bits, queue, unreported, handler>>
     \/ /\ verdict = "discard"
        /\ UNCHANGED <<bits, queue, oversized, unreported, handler>>
     \/ /\ verdict \in {"accept", "probe"}
        /\ bits' = IF verdict = "probe" THEN bits \cup {"loopback"} ELSE bits
        /\ IF Len(queue) < EventCapacity
             THEN queue' = Append(queue, frames') /\ UNCHANGED <<unreported, handler>>
             ELSE unreported' = TRUE /\ HandlerGoto("full") /\ UNCHANGED queue
        /\ UNCHANGED oversized
  /\ UNCHANGED <<connect_count, ack_count, reconnect_baseline, subscriptions, will,
                 lifecycle, external, sendFails, connects, calls, confirmed, app>>

Verdicts == {"accept", "probe", "oversized", "discard"}

-------------------------------------------------------------------------------
Call ==
  \/ NetworkPrepare \/ NetworkCleanup \/ ConfigureLastWill \/ Connect \/ Disconnect
  \/ \E t \in Topics : Subscribe(t) \/ Unsubscribe(t)
  \/ ReconnectWait \/ Poll
Return ==
  \/ ConnectSeen \/ ConnectDone \/ ConnectTimeout
  \/ ReadPrior \/ ClearReady \/ SendSubscribe \/ SubscribeDone \/ SubscribeTimeout
  \/ SendUnsubscribe \/ Compact
  \/ ReconnectSeen \/ ReconnectTimeout \/ ReconnectDone
  \/ PollOverflow \/ PollLink \/ PollReceive

Next ==
  \/ Call \/ Return \/ HandleEvent
  \/ LinkUp \/ LinkDown \/ Answer \/ \E v \in Verdicts : Deliver(v)

Spec == Init /\ [][Next]_vars

\* Each task gets the processor, and a live broker answers.
Fairness == WF_vars(HandleEvent) /\ WF_vars(Return) /\ WF_vars(Answer)
FairSpec == Spec /\ Fairness

-------------------------------------------------------------------------------
AppStep == {"idle", "connecting", "baseline", "prior", "clear", "send", "await", "unsend",
            "compact", "rewait", "recount", "overflow", "link", "receive"}
HandlerStep == {"idle", "connected", "upFirst", "upAgain", "zeroAcks", "clearReady", "snapshot",
                "resubscribe", "disconnected", "subscribed", "compare", "setReady", "full"}

\* Every variable has its type, and table and queue keep their capacities.
TypeOK ==
  /\ client \in {"none", "started"} /\ swift \in {"idle", "connected", "subscribed", "disconnected"}
  /\ active \in BOOLEAN /\ will \in BOOLEAN /\ unreported \in BOOLEAN
  /\ bits \subseteq {"up", "ready", "loopback", "overflow"}
  /\ connect_count \in Nat /\ ack_count \in Nat /\ reconnect_baseline \in Nat /\ oversized \in Nat
  /\ subscriptions \in Seq(Topics) /\ Len(subscriptions) <= SubscriptionCapacity
  /\ queue \in Seq(Nat) /\ Len(queue) <= EventCapacity
  /\ app \in [step : AppStep, topic : Topics \cup {"none"}, prior : Nat]
  /\ handler \in [step : HandlerStep, acked : Nat, todo : Seq(Topics)]
  /\ net \in {"up", "down"} /\ pending \in Seq([kind : {"sub", "unsub"}, topic : Topics])
  /\ sendFails \in SendModes /\ granted \subseteq Topics /\ confirmed \subseteq Topics
  /\ connects \in 0..MaxConnects /\ calls \in 0..MaxCalls /\ frames \in 0..MaxFrames

(* The broker has topic t on this connection once it has handled what was  *)
(* sent.                                                                   *)
AskedFor(t) ==
  LET about == {i \in DOMAIN pending : pending[i].topic = t}
  IN  IF about = {} THEN t \in granted
      ELSE \E i \in about : pending[i].kind = "sub" /\ \A j \in about : j <= i

\* The handler has seen a connection and not yet copied the table.
Reconnecting == handler.step \in {"connected", "upFirst", "upAgain", "zeroAcks", "clearReady", "snapshot"}

(* A topic the application was told it has is in the table, without        *)
(* duplicates, and it is asked for on every connection: either it has been *)
(* requested, or the handler is about to.                                  *)
ConfirmedCovered ==
  /\ \A i, j \in DOMAIN subscriptions : subscriptions[i] = subscriptions[j] => i = j
  /\ \A t \in confirmed :
       /\ t \in Listed
       /\ net = "up" => AskedFor(t) \/ Reconnecting \/ t \in Left(handler)

(* axoloty_mqtt_reconnect_wait: connected and ready together mean that     *)
(* every confirmed topic was requested on the connection that is up.       *)
ReadyMeansRestored ==
  {"up", "ready"} \subseteq bits /\ net = "up" => \A t \in confirmed : AskedFor(t)

(* An event dropped for lack of room is reported by a later poll: until    *)
(* then the overflow bit is set or about to be.                            *)
OverflowReported ==
  unreported => "overflow" \in bits \/ handler.step = "full"

(* While a connection lasts that takes requests, a confirmed topic comes   *)
(* to be subscribed at the broker, after a reconnect too.                  *)
Resubscribed ==
  \A t \in Topics :
    (t \in confirmed /\ net = "up" /\ ~sendFails) ~> (t \in granted \/ net = "down" \/ t \notin confirmed)
================================================================================
