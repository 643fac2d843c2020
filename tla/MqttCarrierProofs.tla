----------------------------- MODULE MqttCarrierProofs -----------------------------
(***************************************************************************)
(* Proofs about MqttCarrier, for every set of topics, every capacity and   *)
(* any number of connections, calls and messages: an overflow is never     *)
(* lost, and a confirmed topic is asked for on every connection that takes *)
(* requests.                                                               *)
(***************************************************************************)
EXTENDS MqttCarrier, SequenceTheorems, TLAPS

Connecting == {"connecting", "baseline"}
OnTopic == {"prior", "clear", "send", "await", "unsend", "compact"}
Polling == {"overflow", "link", "receive"}
Restoring == {"connected", "upFirst", "upAgain", "zeroAcks", "clearReady", "snapshot", "resubscribe"}

(* Which calls run in which state of the client, and what a carrier        *)
(* without a client has left.                                              *)
Lifecycle ==
  /\ app.step = "idle" => app = AppIdle
  /\ swift \in {"idle", "disconnected"} => app.step \in {"idle"} \cup Connecting
  /\ app.step = "idle" /\ swift \in {"idle", "disconnected"} => client = "none"
  /\ app.step \in Connecting => client = "started" /\ confirmed = {}
  /\ app.step \notin {"idle"} \cup Polling => client = "started"
  /\ client = "none" => net = "down" /\ handler = HandlerIdle /\ confirmed = {}

(* What the handler's step says of the link and of the carrier's bits.     *)
Connection ==
  /\ handler.step # "resubscribe" => handler.todo = <<>>
  /\ handler.step = "idle" => handler = HandlerIdle
  /\ client = "started" =>
       /\ net = "down" => handler.step \in {"idle", "disconnected"}
       /\ net = "up" => handler.step # "disconnected"
       /\ net = "down" /\ handler.step = "idle" => "up" \notin bits /\ "ready" \notin bits
       /\ handler.step \in Restoring => "ready" \notin bits
       /\ connect_count = 0 => app.step = "connecting"
       /\ connect_count = 0 => handler.step \notin {"upFirst", "upAgain"}
       /\ connect_count = 0 \/ handler.step = "upFirst" => "up" \notin bits
       /\ handler.step = "upFirst" => app.step = "connecting"

(* The table has no topic twice, and holds the confirmed topics and the    *)
(* one a call is about.                                                    *)
Distinct(s) == \A i, j \in DOMAIN s : s[i] = s[j] => i = j
Table ==
  /\ Distinct(subscriptions)
  /\ confirmed \subseteq Listed
  /\ app.step \in OnTopic => app.topic \in Listed
  /\ app.step = "compact" => app.topic \notin confirmed

(* The topics the carrier owes the application on the connection.          *)
Owed(t) == t \in confirmed \/ (app.step = "await" /\ t = app.topic)
Covered ==
  net = "up" /\ ~sendFails =>
    \A t \in Topics : Owed(t) => AskedFor(t) \/ Reconnecting \/ t \in Left(handler)

CarrierInv == TypeOK /\ Lifecycle /\ Connection /\ Table /\ Covered /\ OverflowReported

-------------------------------------------------------------------------------
(* What is asked for on the connection.                                    *)

Requests == [kind : {"sub", "unsub"}, topic : Topics]

(* A request sent last decides about its topic and leaves the others.      *)
LEMMA AskedAfterRequest ==
  ASSUME pending \in Seq(Requests), NEW kind \in {"sub", "unsub"}, NEW t \in Topics,
         Request(kind, t), granted' = granted
  PROVE  /\ pending' \in Seq(Requests)
         /\ kind = "sub" => AskedFor(t)'
         /\ \A u \in Topics : u # t /\ AskedFor(u) => AskedFor(u)'
<1> DEFINE r == [kind |-> kind, topic |-> t]
<1>1. r \in Requests /\ r.kind = kind /\ r.topic = t BY DEF Requests
<1>2. pending' = Append(pending, r) BY DEF Request
<1> HIDE DEF r
<1>3. /\ pending' \in Seq(Requests) /\ Len(pending') = Len(pending) + 1
      /\ pending'[Len(pending) + 1] = r
      /\ \A i \in 1 .. Len(pending) : pending'[i] = pending[i]
  BY <1>1, <1>2, AppendProperties
<1> DEFINE n == Len(pending)
<1>4. n \in Nat BY LenProperties
<1>5. DOMAIN pending = 1 .. n /\ DOMAIN pending' = 1 .. (n + 1) BY <1>3, LenProperties
<1> HIDE DEF n
<1>6. pending'[n + 1] = r /\ \A i \in 1 .. n : pending'[i] = pending[i] BY <1>3 DEF n
<1>7. ASSUME kind = "sub" PROVE AskedFor(t)'
  <2>1. n + 1 \in {i \in DOMAIN pending' : pending'[i].topic = t} BY <1>1, <1>4, <1>5, <1>6
  <2>2. \A j \in {i \in DOMAIN pending' : pending'[i].topic = t} : j <= n + 1 BY <1>4, <1>5
  <2> QED BY <1>1, <1>6, <1>7, <2>1, <2>2 DEF AskedFor
<1>8. ASSUME NEW u \in Topics, u # t, AskedFor(u) PROVE AskedFor(u)'
  <2>1. {i \in DOMAIN pending' : pending'[i].topic = u} = {i \in DOMAIN pending : pending[i].topic = u}
    BY <1>1, <1>4, <1>5, <1>6, <1>8
  <2>2. \A i \in DOMAIN pending : pending'[i] = pending[i] BY <1>5, <1>6
  <2> QED BY <1>8, <2>1, <2>2 DEF AskedFor
<1> QED BY <1>3, <1>7, <1>8

(* Handling a request changes who holds it, not what is asked for.         *)
LEMMA AskedAfterAnswer ==
  ASSUME pending \in Seq(Requests), pending # <<>>, pending' = Tail(pending),
         granted' = IF Head(pending).kind = "sub" THEN granted \cup {Head(pending).topic}
                                                  ELSE granted \ {Head(pending).topic}
  PROVE  /\ pending' \in Seq(Requests)
         /\ Head(pending) \in Requests
         /\ \A t \in Topics : AskedFor(t) => AskedFor(t)'
<1> DEFINE n == Len(pending) - 1
<1>1. /\ pending' \in Seq(Requests) /\ Len(pending') = n
      /\ \A i \in 1 .. n : pending'[i] = pending[i + 1]
      /\ Head(pending) = pending[1] /\ pending[1] \in Requests
  BY HeadTailProperties, ElementOfSeq, EmptySeq
<1>2. n \in Nat /\ DOMAIN pending = 1 .. (n + 1) /\ DOMAIN pending' = 1 .. n
  BY <1>1, LenProperties
<1> HIDE DEF n
<1>3. ASSUME NEW t \in Topics, AskedFor(t) PROVE AskedFor(t)'
  <2> DEFINE A == {i \in DOMAIN pending : pending[i].topic = t}
             B == {i \in DOMAIN pending' : pending'[i].topic = t}
  <2>1. \A i \in B : i \in 1 .. n /\ i + 1 \in A BY <1>1, <1>2
  <2>2. \A i \in A : i = 1 \/ (i - 1 \in B /\ i \in Int) BY <1>1, <1>2
  <2>3. B \subseteq Int /\ A \subseteq Int BY <1>2
  <2>4. CASE B # {}
    <3>1. A # {} BY <2>1, <2>4
    <3>2. PICK i \in A : pending[i].kind = "sub" /\ \A j \in A : j <= i BY <1>3, <3>1 DEF AskedFor
    <3>3. i # 1 BY <2>1, <2>3, <2>4, <3>2
    <3>4. i - 1 \in B /\ i \in Int BY <2>2, <3>2, <3>3
    <3>5. pending'[i - 1] = pending[(i - 1) + 1] /\ (i - 1) + 1 = i BY <1>1, <2>1, <3>4
    <3>6. \A j \in B : j <= i - 1 BY <2>1, <2>3, <3>2, <3>4
    <3> QED BY <3>2, <3>4, <3>5, <3>6 DEF AskedFor
  <2>5. CASE B = {} /\ A = {}
    <3>1. t \in granted BY <1>3, <2>5 DEF AskedFor
    <3>2. Head(pending).topic # t BY <1>1, <1>2, <2>5
    <3> QED BY <2>5, <3>1, <3>2 DEF AskedFor
  <2>6. CASE B = {} /\ A # {}
    <3>1. PICK i \in A : pending[i].kind = "sub" /\ \A j \in A : j <= i BY <1>3, <2>6 DEF AskedFor
    <3>2. i = 1 BY <2>2, <2>6, <3>1
    <3>3. Head(pending).kind = "sub" /\ Head(pending).topic = t BY <1>1, <3>1, <3>2
    <3> QED BY <2>6, <3>3 DEF AskedFor
  <2> QED BY <2>4, <2>5, <2>6
<1> QED BY <1>1, <1>3

(* Nothing is asked for or forgotten while the link's state stands.        *)
LEMMA AskedKept ==
  ASSUME UNCHANGED <<pending, granted>>
  PROVE  \A t : AskedFor(t)' <=> AskedFor(t)
BY DEF AskedFor

-------------------------------------------------------------------------------
(* The subscription table.                                                 *)

LEMMA TableAppend ==
  ASSUME subscriptions \in Seq(Topics), Distinct(subscriptions), NEW t \in Topics, t \notin Listed,
         subscriptions' = Append(subscriptions, t)
  PROVE  /\ subscriptions' \in Seq(Topics) /\ Len(subscriptions') = Len(subscriptions) + 1
         /\ Distinct(subscriptions)' /\ Listed' = Listed \cup {t}
<1> DEFINE n == Len(subscriptions)
<1>1. /\ subscriptions' \in Seq(Topics) /\ Len(subscriptions') = n + 1
      /\ subscriptions'[n + 1] = t
      /\ \A i \in 1 .. n : subscriptions'[i] = subscriptions[i]
  BY AppendProperties
<1>2. n \in Nat /\ DOMAIN subscriptions = 1 .. n /\ DOMAIN subscriptions' = 1 .. (n + 1)
  BY <1>1, LenProperties
<1> HIDE DEF n
<1>3. Listed' = Listed \cup {t}
  <2>1. ASSUME NEW u \in Listed' PROVE u \in Listed \cup {t} BY <1>1, <1>2, <2>1 DEF Listed
  <2>2. ASSUME NEW u \in Listed \cup {t} PROVE u \in Listed' BY <1>1, <1>2, <2>2 DEF Listed
  <2> QED BY <2>1, <2>2
<1>4. \A i \in 1 .. n : subscriptions[i] # t BY <1>2 DEF Listed
<1>5. Distinct(subscriptions)' BY <1>1, <1>2, <1>4 DEF Distinct
<1> QED BY <1>1, <1>3, <1>5 DEF n

(* Compacting removes the one entry of the topic and keeps the others.     *)
LEMMA TableCompact ==
  ASSUME subscriptions \in Seq(Topics), Distinct(subscriptions), NEW t \in Listed,
         subscriptions' = Without(subscriptions, t)
  PROVE  /\ subscriptions' \in Seq(Topics) /\ Len(subscriptions') = Len(subscriptions) - 1
         /\ Distinct(subscriptions)' /\ Listed' = Listed \ {t}
<1> DEFINE n == Len(subscriptions)  a == CHOOSE i \in DOMAIN subscriptions : subscriptions[i] = t
<1>1. n \in Nat /\ DOMAIN subscriptions = 1 .. n BY LenProperties
<1>2. \A i \in 1 .. n : subscriptions[i] \in Topics BY ElementOfSeq
<1>3. a \in DOMAIN subscriptions /\ subscriptions[a] = t BY DEF Listed
<1>4. subscriptions' = [i \in 1 .. (n - 1) |-> IF i < a THEN subscriptions[i] ELSE subscriptions[i + 1]]
  BY DEF Without
<1> HIDE DEF n, a
<1>5. a \in 1 .. n /\ n \in Nat /\ n - 1 \in Nat BY <1>1, <1>3
<1>6. DOMAIN subscriptions' = 1 .. (n - 1) BY <1>4
<1>7. \A i \in 1 .. (n - 1) :
        subscriptions'[i] = IF i < a THEN subscriptions[i] ELSE subscriptions[i + 1]
  BY <1>4
<1>8. \A i \in 1 .. (n - 1) : subscriptions'[i] \in Topics BY <1>1, <1>2, <1>5, <1>7
<1>9. subscriptions' \in Seq(Topics) /\ Len(subscriptions') = n - 1
  BY <1>4, <1>5, <1>6, <1>8, IsASeq
<1>10. Distinct(subscriptions)'
  BY SMTT(30), <1>1, <1>5, <1>6, <1>7 DEF Distinct
<1>11. ASSUME NEW u \in Listed' PROVE u \in Listed \ {t}
  <2>1. PICK i \in 1 .. (n - 1) : u = subscriptions'[i] BY <1>6 DEF Listed
  <2>2. PICK j \in 1 .. n : j # a /\ u = subscriptions[j]
    <3>1. CASE i < a BY <1>5, <1>7, <2>1, <3>1
    <3>2. CASE ~(i < a)
      <4>1. i + 1 \in 1 .. n /\ i + 1 # a BY <1>5, <3>2
      <4> QED BY <1>7, <2>1, <3>2, <4>1
    <3> QED BY <3>1, <3>2
  <2> QED BY <1>1, <1>3, <2>2 DEF Listed, Distinct
<1>12. ASSUME NEW u \in Listed \ {t} PROVE u \in Listed'
  <2>1. PICK j \in 1 .. n : u = subscriptions[j] /\ j # a BY <1>1, <1>3 DEF Listed
  <2>2. CASE j < a
    <3>1. j \in 1 .. (n - 1) /\ subscriptions'[j] = u BY <1>5, <1>7, <2>1, <2>2
    <3> QED BY <1>6, <3>1 DEF Listed
  <2>3. CASE ~(j < a)
    <3>1. j - 1 \in 1 .. (n - 1) /\ ~(j - 1 < a) /\ (j - 1) + 1 = j BY <1>5, <2>1, <2>3
    <3>2. subscriptions'[j - 1] = u BY <1>7, <2>1, <3>1
    <3> QED BY <1>6, <3>1, <3>2 DEF Listed
  <2> QED BY <2>2, <2>3
<1> QED BY <1>9, <1>10, <1>11, <1>12 DEF n

-------------------------------------------------------------------------------
(* Types.                                                                  *)

Flags == active \in BOOLEAN /\ will \in BOOLEAN /\ unreported \in BOOLEAN
Lifetime ==
  /\ client \in {"none", "started"} /\ swift \in {"idle", "connected", "subscribed", "disconnected"}
  /\ net \in {"up", "down"} /\ sendFails \in SendModes
Counts ==
  /\ connect_count \in Nat /\ ack_count \in Nat /\ reconnect_baseline \in Nat /\ oversized \in Nat
  /\ connects \in 0..MaxConnects /\ calls \in 0..MaxCalls /\ frames \in 0..MaxFrames
AppType == app \in [step : AppStep, topic : Topics \cup {"none"}, prior : Nat]
HandlerType == handler \in [step : HandlerStep, acked : Nat, todo : Seq(Topics)]
TableType == subscriptions \in Seq(Topics) /\ Len(subscriptions) <= SubscriptionCapacity
QueueType == queue \in Seq(Nat) /\ Len(queue) <= EventCapacity
TopicsType ==
  /\ bits \subseteq {"up", "ready", "loopback", "overflow"}
  /\ pending \in Seq(Requests) /\ granted \subseteq Topics /\ confirmed \subseteq Topics

LEMMA TypeParts ==
  TypeOK <=> /\ Flags /\ Lifetime /\ Counts /\ AppType /\ HandlerType
             /\ TableType /\ QueueType /\ TopicsType
BY Zenon DEF TypeOK, Flags, Lifetime, Counts, AppType, HandlerType, TableType, QueueType, TopicsType, Requests

LEMMA FlagsStep ==
  ASSUME Flags, Next
  PROVE  Flags'
BY Zenon DEF Flags, Next, Call, Return, HandleEvent, vars, carrier, lifecycle, external, bounds, history,
  NetworkPrepare, NetworkCleanup, ConfigureLastWill, Connect, Disconnect, Subscribe, Unsubscribe, ReconnectWait, Poll,
  ConnectSeen, ConnectDone, ConnectTimeout, ReadPrior, ClearReady, SendSubscribe, SubscribeDone, SubscribeTimeout,
  SendUnsubscribe, Compact, ReconnectSeen, ReconnectTimeout, ReconnectDone, PollOverflow, PollLink, PollReceive,
  CountConnect, SetUp, ZeroAcks, ClearReadyAgain, Snapshot, Resubscribe, ClearUp, CountAck, CompareAcks, SetReady,
  SetOverflow, LinkUp, LinkDown, Answer, Deliver, ResetState

LEMMA LifetimeStep ==
  ASSUME Lifetime, Next
  PROVE  Lifetime'
BY DEF Lifetime, Next, Call, Return, HandleEvent, vars, carrier, lifecycle, external, bounds, history,
  NetworkPrepare, NetworkCleanup, ConfigureLastWill, Connect, Disconnect, Subscribe, Unsubscribe, ReconnectWait, Poll,
  ConnectSeen, ConnectDone, ConnectTimeout, ReadPrior, ClearReady, SendSubscribe, SubscribeDone, SubscribeTimeout,
  SendUnsubscribe, Compact, ReconnectSeen, ReconnectTimeout, ReconnectDone, PollOverflow, PollLink, PollReceive,
  CountConnect, SetUp, ZeroAcks, ClearReadyAgain, Snapshot, Resubscribe, ClearUp, CountAck, CompareAcks, SetReady,
  SetOverflow, LinkUp, LinkDown, Answer, Deliver, ResetState, LinkGone

LEMMA CountsStep ==
  ASSUME Counts, HandlerType, AppType, Next
  PROVE  Counts'
<1>1. CASE Call
  <2>1. CASE NetworkPrepare
    BY CarrierAssumption, <2>1 DEF NetworkPrepare, carrier, lifecycle, external, bounds,
      history, Counts, HandlerType, AppType, HandlerStep, AppStep
  <2>2. CASE NetworkCleanup
    BY CarrierAssumption, <2>2 DEF NetworkCleanup, ResetState, carrier, lifecycle, external,
      bounds, history, Counts, HandlerType, AppType, HandlerStep, AppStep
  <2>3. CASE ConfigureLastWill
    BY CarrierAssumption, <2>3 DEF ConfigureLastWill, carrier, lifecycle, external, bounds,
      history, Counts, HandlerType, AppType, HandlerStep, AppStep
  <2>4. CASE Connect
    BY CarrierAssumption, <2>4 DEF Connect, AppIdle, AppGoto, carrier, lifecycle, external,
      bounds, history, Counts, HandlerType, AppType, HandlerStep, AppStep
  <2>5. CASE Disconnect
    BY CarrierAssumption, <2>5 DEF Disconnect, ResetState, LinkGone, carrier, lifecycle,
      external, bounds, history, Counts, HandlerType, AppType, HandlerStep, AppStep
  <2>6. ASSUME NEW t \in Topics, Subscribe(t) PROVE Counts'
    BY SMTT(30), CarrierAssumption, <2>6 DEF Subscribe, AppIdle, carrier, lifecycle, external, bounds,
      history, Counts, HandlerType, AppType, HandlerStep, AppStep
  <2>7. ASSUME NEW t \in Topics, Unsubscribe(t) PROVE Counts'
    BY SMTT(30), CarrierAssumption, <2>7 DEF Unsubscribe, AppIdle, carrier, lifecycle, external,
      bounds, history, Counts, HandlerType, AppType, HandlerStep, AppStep
  <2>8. CASE ReconnectWait
    BY CarrierAssumption, <2>8 DEF ReconnectWait, AppIdle, carrier, lifecycle, external,
      bounds, history, Counts, HandlerType, AppType, HandlerStep, AppStep
  <2>9. CASE Poll
    BY CarrierAssumption, <2>9 DEF Poll, AppIdle, AppGoto, carrier, lifecycle, external,
      bounds, history, Counts, HandlerType, AppType, HandlerStep, AppStep
  <2> QED BY <1>1, <2>1, <2>2, <2>3, <2>4, <2>5, <2>6, <2>7, <2>8, <2>9 DEF Call
<1>2. CASE Return
  <2>1. CASE ConnectSeen
    BY CarrierAssumption, <2>1 DEF ConnectSeen, AppGoto, AppReturn, AppIdle, LinkGone, carrier, lifecycle, external,
      bounds, history, Counts, HandlerType, AppType, HandlerStep, AppStep
  <2>2. CASE ConnectDone
    BY CarrierAssumption, <2>2 DEF ConnectDone, AppGoto, AppReturn, AppIdle, LinkGone, carrier, lifecycle, external,
      bounds, history, Counts, HandlerType, AppType, HandlerStep, AppStep
  <2>3. CASE ConnectTimeout
    BY CarrierAssumption, <2>3 DEF ConnectTimeout, AppGoto, AppReturn, AppIdle, LinkGone, carrier, lifecycle, external,
      bounds, history, Counts, HandlerType, AppType, HandlerStep, AppStep
  <2>4. CASE ReadPrior
    BY CarrierAssumption, <2>4 DEF ReadPrior, AppGoto, AppReturn, AppIdle, LinkGone, carrier, lifecycle, external,
      bounds, history, Counts, HandlerType, AppType, HandlerStep, AppStep
  <2>5. CASE ClearReady
    BY CarrierAssumption, <2>5 DEF ClearReady, AppGoto, AppReturn, AppIdle, LinkGone, carrier, lifecycle, external,
      bounds, history, Counts, HandlerType, AppType, HandlerStep, AppStep
  <2>6. CASE SendSubscribe
    BY CarrierAssumption, <2>6 DEF SendSubscribe, AppGoto, AppReturn, AppIdle, LinkGone, carrier, lifecycle, external,
      bounds, history, Counts, HandlerType, AppType, HandlerStep, AppStep
  <2>7. CASE SubscribeDone
    BY CarrierAssumption, <2>7 DEF SubscribeDone, AppGoto, AppReturn, AppIdle, LinkGone, carrier, lifecycle, external,
      bounds, history, Counts, HandlerType, AppType, HandlerStep, AppStep
  <2>8. CASE SubscribeTimeout
    BY CarrierAssumption, <2>8 DEF SubscribeTimeout, AppGoto, AppReturn, AppIdle, LinkGone, carrier, lifecycle, external,
      bounds, history, Counts, HandlerType, AppType, HandlerStep, AppStep
  <2>9. CASE SendUnsubscribe
    BY CarrierAssumption, <2>9 DEF SendUnsubscribe, AppGoto, AppReturn, AppIdle, LinkGone, carrier, lifecycle, external,
      bounds, history, Counts, HandlerType, AppType, HandlerStep, AppStep
  <2>10. CASE Compact
    BY CarrierAssumption, <2>10 DEF Compact, AppGoto, AppReturn, AppIdle, LinkGone, carrier, lifecycle, external,
      bounds, history, Counts, HandlerType, AppType, HandlerStep, AppStep
  <2>11. CASE ReconnectSeen
    BY CarrierAssumption, <2>11 DEF ReconnectSeen, AppGoto, AppReturn, AppIdle, LinkGone, carrier, lifecycle, external,
      bounds, history, Counts, HandlerType, AppType, HandlerStep, AppStep
  <2>12. CASE ReconnectTimeout
    BY CarrierAssumption, <2>12 DEF ReconnectTimeout, AppGoto, AppReturn, AppIdle, LinkGone, carrier, lifecycle, external,
      bounds, history, Counts, HandlerType, AppType, HandlerStep, AppStep
  <2>13. CASE ReconnectDone
    BY CarrierAssumption, <2>13 DEF ReconnectDone, AppGoto, AppReturn, AppIdle, LinkGone, carrier, lifecycle, external,
      bounds, history, Counts, HandlerType, AppType, HandlerStep, AppStep
  <2>14. CASE PollOverflow
    BY CarrierAssumption, <2>14 DEF PollOverflow, AppGoto, AppReturn, AppIdle, LinkGone, carrier, lifecycle, external,
      bounds, history, Counts, HandlerType, AppType, HandlerStep, AppStep
  <2>15. CASE PollLink
    BY CarrierAssumption, <2>15 DEF PollLink, AppGoto, AppReturn, AppIdle, LinkGone, carrier, lifecycle, external,
      bounds, history, Counts, HandlerType, AppType, HandlerStep, AppStep
  <2>16. CASE PollReceive
    BY CarrierAssumption, <2>16 DEF PollReceive, AppGoto, AppReturn, AppIdle, LinkGone, carrier, lifecycle, external,
      bounds, history, Counts, HandlerType, AppType, HandlerStep, AppStep
  <2> QED BY <1>2, <2>1, <2>2, <2>3, <2>4, <2>5, <2>6, <2>7, <2>8, <2>9, <2>10, <2>11, <2>12, <2>13, <2>14, <2>15, <2>16 DEF Return
<1>3. CASE HandleEvent
  <2>1. CASE CountConnect
    BY SMTT(30), CarrierAssumption, <2>1 DEF CountConnect, HandlerGoto, HandlerReturn, HandlerIdle, carrier, lifecycle, external,
      bounds, history, Counts, HandlerType, AppType, HandlerStep, AppStep
  <2>2. CASE SetUp
    BY CarrierAssumption, <2>2 DEF SetUp, HandlerGoto, HandlerReturn, HandlerIdle, carrier, lifecycle, external,
      bounds, history, Counts, HandlerType, AppType, HandlerStep, AppStep
  <2>3. CASE ZeroAcks
    BY CarrierAssumption, <2>3 DEF ZeroAcks, HandlerGoto, HandlerReturn, HandlerIdle, carrier, lifecycle, external,
      bounds, history, Counts, HandlerType, AppType, HandlerStep, AppStep
  <2>4. CASE ClearReadyAgain
    BY CarrierAssumption, <2>4 DEF ClearReadyAgain, HandlerGoto, HandlerReturn, HandlerIdle, carrier, lifecycle, external,
      bounds, history, Counts, HandlerType, AppType, HandlerStep, AppStep
  <2>5. CASE Snapshot
    BY CarrierAssumption, <2>5 DEF Snapshot, HandlerGoto, HandlerReturn, HandlerIdle, carrier, lifecycle, external,
      bounds, history, Counts, HandlerType, AppType, HandlerStep, AppStep
  <2>6. CASE Resubscribe
    BY CarrierAssumption, <2>6 DEF Resubscribe, HandlerGoto, HandlerReturn, HandlerIdle, carrier, lifecycle, external,
      bounds, history, Counts, HandlerType, AppType, HandlerStep, AppStep
  <2>7. CASE ClearUp
    BY CarrierAssumption, <2>7 DEF ClearUp, HandlerGoto, HandlerReturn, HandlerIdle, carrier, lifecycle, external,
      bounds, history, Counts, HandlerType, AppType, HandlerStep, AppStep
  <2>8. CASE CountAck
    BY SMTT(30), CarrierAssumption, <2>8 DEF CountAck, HandlerGoto, HandlerReturn, HandlerIdle, carrier, lifecycle, external,
      bounds, history, Counts, HandlerType, AppType, HandlerStep, AppStep
  <2>9. CASE CompareAcks
    BY CarrierAssumption, <2>9 DEF CompareAcks, HandlerGoto, HandlerReturn, HandlerIdle, carrier, lifecycle, external,
      bounds, history, Counts, HandlerType, AppType, HandlerStep, AppStep
  <2>10. CASE SetReady
    BY CarrierAssumption, <2>10 DEF SetReady, HandlerGoto, HandlerReturn, HandlerIdle, carrier, lifecycle, external,
      bounds, history, Counts, HandlerType, AppType, HandlerStep, AppStep
  <2>11. CASE SetOverflow
    BY CarrierAssumption, <2>11 DEF SetOverflow, HandlerGoto, HandlerReturn, HandlerIdle, carrier, lifecycle, external,
      bounds, history, Counts, HandlerType, AppType, HandlerStep, AppStep
  <2> QED BY <1>3, <2>1, <2>2, <2>3, <2>4, <2>5, <2>6, <2>7, <2>8, <2>9, <2>10, <2>11 DEF HandleEvent
<1>4. CASE LinkUp \/ LinkDown \/ Answer \/ \E v \in Verdicts : Deliver(v)
  <2>1. CASE LinkUp
    BY CarrierAssumption, <2>1 DEF LinkUp, HandlerGoto, HandlerIdle, carrier, lifecycle,
      external, bounds, history, Counts, HandlerType, AppType, HandlerStep, AppStep
  <2>2. CASE LinkDown
    BY CarrierAssumption, <2>2 DEF LinkDown, HandlerGoto, HandlerIdle, LinkGone, carrier,
      lifecycle, external, bounds, history, Counts, HandlerType, AppType, HandlerStep,
      AppStep
  <2>3. CASE Answer
    BY CarrierAssumption, <2>3 DEF Answer, HandlerGoto, HandlerIdle, carrier, lifecycle,
      external, bounds, history, Counts, HandlerType, AppType, HandlerStep, AppStep
  <2>4. ASSUME NEW v \in Verdicts, Deliver(v) PROVE Counts'
    BY SMTT(30), CarrierAssumption, <2>4 DEF Deliver, HandlerGoto, HandlerIdle, carrier, lifecycle,
      external, bounds, history, Counts, HandlerType, AppType, HandlerStep, AppStep
  <2> QED BY <1>4, <2>1, <2>2, <2>3, <2>4
<1> QED BY <1>1, <1>2, <1>3, <1>4 DEF Next

LEMMA AppTypeStep ==
  ASSUME AppType, Counts, Next
  PROVE  AppType'
<1>1. CASE Call
  BY ZenonT(60), <1>1 DEF Call, NetworkPrepare, NetworkCleanup, ConfigureLastWill, Connect, Disconnect,
    Subscribe, Unsubscribe, ReconnectWait, Poll, ResetState, AppIdle, AppGoto, LinkGone,
    carrier, lifecycle, external, bounds, history, AppType, AppStep, Counts
<1>2. CASE Return
  <2>1. CASE ConnectSeen
    BY <2>1 DEF ConnectSeen, AppGoto, carrier, lifecycle, external, bounds, history,
      AppType, AppStep, Counts
  <2>2. CASE ConnectDone
    BY <2>2 DEF ConnectDone, AppReturn, AppIdle, carrier, lifecycle, external, bounds,
      history, AppType, AppStep, Counts
  <2>3. CASE ConnectTimeout
    BY <2>3 DEF ConnectTimeout, LinkGone, AppReturn, AppIdle, carrier, lifecycle, external,
      bounds, history, AppType, AppStep, Counts
  <2>4. CASE ReadPrior
    BY <2>4 DEF ReadPrior, carrier, lifecycle, external, bounds, history, AppType, AppStep,
      Counts
  <2>5. CASE ClearReady
    BY <2>5 DEF ClearReady, AppGoto, carrier, lifecycle, external, bounds, history, AppType,
      AppStep, Counts
  <2>6. CASE SendSubscribe
    BY <2>6 DEF SendSubscribe, AppGoto, AppReturn, AppIdle, carrier, lifecycle, external,
      bounds, history, AppType, AppStep, Counts
  <2>7. CASE SubscribeDone
    BY <2>7 DEF SubscribeDone, AppReturn, AppIdle, carrier, lifecycle, external, bounds,
      history, AppType, AppStep, Counts
  <2>8. CASE SubscribeTimeout
    BY <2>8 DEF SubscribeTimeout, AppReturn, AppIdle, carrier, lifecycle, external, bounds,
      history, AppType, AppStep, Counts
  <2>9. CASE SendUnsubscribe
    BY <2>9 DEF SendUnsubscribe, AppGoto, AppReturn, AppIdle, carrier, lifecycle, external,
      bounds, history, AppType, AppStep, Counts
  <2>10. CASE Compact
    BY <2>10 DEF Compact, AppReturn, AppIdle, carrier, lifecycle, external, bounds, history,
      AppType, AppStep, Counts
  <2>11. CASE ReconnectSeen
    BY <2>11 DEF ReconnectSeen, AppGoto, carrier, lifecycle, external, bounds, history,
      AppType, AppStep, Counts
  <2>12. CASE ReconnectTimeout
    BY <2>12 DEF ReconnectTimeout, AppReturn, AppIdle, carrier, lifecycle, external, bounds,
      history, AppType, AppStep, Counts
  <2>13. CASE ReconnectDone
    BY <2>13 DEF ReconnectDone, AppReturn, AppIdle, carrier, lifecycle, external, bounds,
      history, AppType, AppStep, Counts
  <2>14. CASE PollOverflow
    BY <2>14 DEF PollOverflow, AppReturn, AppIdle, carrier, lifecycle, external, bounds,
      history, AppType, AppStep, Counts
  <2>15. CASE PollLink
    BY <2>15 DEF PollLink, AppGoto, AppReturn, AppIdle, carrier, lifecycle, external,
      bounds, history, AppType, AppStep, Counts
  <2>16. CASE PollReceive
    BY <2>16 DEF PollReceive, AppReturn, AppIdle, carrier, lifecycle, external, bounds,
      history, AppType, AppStep, Counts
  <2> QED BY <1>2, <2>1, <2>2, <2>3, <2>4, <2>5, <2>6, <2>7, <2>8, <2>9, <2>10, <2>11, <2>12, <2>13, <2>14, <2>15, <2>16 DEF Return
<1>3. CASE HandleEvent
  BY <1>3 DEF HandleEvent, CountConnect, SetUp, ZeroAcks, ClearReadyAgain, Snapshot,
    Resubscribe, ClearUp, CountAck, CompareAcks, SetReady, SetOverflow, HandlerGoto,
    HandlerReturn, HandlerIdle, carrier, lifecycle, external, bounds, history, AppType,
    AppStep, Counts
<1>4. CASE LinkUp \/ LinkDown \/ Answer \/ \E v \in Verdicts : Deliver(v)
  <2>1. CASE LinkUp
    BY <2>1 DEF LinkUp, HandlerGoto, HandlerIdle, carrier, lifecycle, external, bounds,
      history, AppType, AppStep, Counts
  <2>2. CASE LinkDown
    BY <2>2 DEF LinkDown, HandlerGoto, HandlerIdle, LinkGone, carrier, lifecycle, external,
      bounds, history, AppType, AppStep, Counts
  <2>3. CASE Answer
    BY <2>3 DEF Answer, HandlerGoto, HandlerIdle, carrier, lifecycle, external, bounds,
      history, AppType, AppStep, Counts
  <2>4. ASSUME NEW v \in Verdicts, Deliver(v) PROVE AppType'
    BY <2>4 DEF Deliver, HandlerGoto, HandlerIdle, carrier, lifecycle, external, bounds,
      history, AppType, AppStep, Counts
  <2> QED BY <1>4, <2>1, <2>2, <2>3, <2>4
<1> QED BY <1>1, <1>2, <1>3, <1>4 DEF Next

LEMMA OverflowStep ==
  ASSUME Lifecycle, OverflowReported, Next
  PROVE  OverflowReported'
<1>1. CASE Call
  BY <1>1 DEF Call, NetworkPrepare, NetworkCleanup, ConfigureLastWill, Connect, Disconnect,
    Subscribe, Unsubscribe, ReconnectWait, Poll, ResetState, AppIdle, AppGoto, LinkGone,
    carrier, lifecycle, external, bounds, history, OverflowReported, Lifecycle
<1>2. CASE Return
  BY <1>2 DEF Return, ConnectSeen, ConnectDone, ConnectTimeout, ReadPrior, ClearReady,
    SendSubscribe, SubscribeDone, SubscribeTimeout, SendUnsubscribe, Compact, ReconnectSeen,
    ReconnectTimeout, ReconnectDone, PollOverflow, PollLink, PollReceive, AppGoto,
    AppReturn, AppIdle, LinkGone, carrier, lifecycle, external, bounds, history,
    OverflowReported, Lifecycle
<1>3. CASE HandleEvent
  BY <1>3 DEF HandleEvent, CountConnect, SetUp, ZeroAcks, ClearReadyAgain, Snapshot,
    Resubscribe, ClearUp, CountAck, CompareAcks, SetReady, SetOverflow, HandlerGoto,
    HandlerReturn, HandlerIdle, carrier, lifecycle, external, bounds, history,
    OverflowReported, Lifecycle
<1>4. CASE LinkUp \/ LinkDown \/ Answer \/ \E v \in Verdicts : Deliver(v)
  <2>1. CASE LinkUp
    BY <2>1 DEF LinkUp, HandlerGoto, HandlerIdle, carrier, lifecycle, external, bounds,
      history, OverflowReported, Lifecycle
  <2>2. CASE LinkDown
    BY <2>2 DEF LinkDown, HandlerGoto, HandlerIdle, LinkGone, carrier, lifecycle, external,
      bounds, history, OverflowReported, Lifecycle
  <2>3. CASE Answer
    BY <2>3 DEF Answer, HandlerGoto, HandlerIdle, carrier, lifecycle, external, bounds,
      history, OverflowReported, Lifecycle
  <2>4. ASSUME NEW v \in Verdicts, Deliver(v) PROVE OverflowReported'
    BY <2>4 DEF Deliver, HandlerGoto, HandlerIdle, carrier, lifecycle, external, bounds,
      history, OverflowReported, Lifecycle
  <2> QED BY <1>4, <2>1, <2>2, <2>3, <2>4
<1> QED BY <1>1, <1>2, <1>3, <1>4 DEF Next

LEMMA LifecycleStep ==
  ASSUME Lifetime, AppType, Lifecycle, Connection, Next
  PROVE  Lifecycle'
<1>1. CASE Call
  <2>1. CASE NetworkPrepare
    BY <2>1 DEF NetworkPrepare, carrier, lifecycle, external, bounds, history, Lifecycle,
      Lifetime, AppType, AppStep, Connecting, Polling, Connection
  <2>2. CASE NetworkCleanup
    BY <2>2 DEF NetworkCleanup, ResetState, carrier, lifecycle, external, bounds, history,
      Lifecycle, Lifetime, AppType, AppStep, Connecting, Polling, Connection
  <2>3. CASE ConfigureLastWill
    BY <2>3 DEF ConfigureLastWill, carrier, lifecycle, external, bounds, history, Lifecycle,
      Lifetime, AppType, AppStep, Connecting, Polling, Connection
  <2>4. CASE Connect
    BY <2>4 DEF Connect, AppIdle, AppGoto, carrier, lifecycle, external, bounds, history,
      Lifecycle, Lifetime, AppType, AppStep, Connecting, Polling, Connection
  <2>5. CASE Disconnect
    <3>1. client' = "none" /\ app' = app /\ app = AppIdle /\ confirmed' = {}
      BY <2>5 DEF Disconnect, Lifecycle, Lifetime
    <3>2. net' = "down" /\ handler' = HandlerIdle
      BY <2>5 DEF Disconnect, LinkGone, Lifecycle, external
    <3>3. app'.step = "idle" BY <3>1 DEF AppIdle
    <3> QED BY <3>1, <3>2, <3>3 DEF Lifecycle, Connecting, Polling
  <2>6. ASSUME NEW t \in Topics, Subscribe(t) PROVE Lifecycle'
    BY <2>6 DEF Subscribe, AppIdle, carrier, lifecycle, external, bounds, history,
      Lifecycle, Lifetime, AppType, AppStep, Connecting, Polling, Connection
  <2>7. ASSUME NEW t \in Topics, Unsubscribe(t) PROVE Lifecycle'
    BY <2>7 DEF Unsubscribe, AppIdle, carrier, lifecycle, external, bounds, history,
      Lifecycle, Lifetime, AppType, AppStep, Connecting, Polling, Connection
  <2>8. CASE ReconnectWait
    BY <2>8 DEF ReconnectWait, AppIdle, carrier, lifecycle, external, bounds, history,
      Lifecycle, Lifetime, AppType, AppStep, Connecting, Polling, Connection
  <2>9. CASE Poll
    BY <2>9 DEF Poll, AppIdle, AppGoto, carrier, lifecycle, external, bounds, history,
      Lifecycle, Lifetime, AppType, AppStep, Connecting, Polling, Connection
  <2> QED BY <1>1, <2>1, <2>2, <2>3, <2>4, <2>5, <2>6, <2>7, <2>8, <2>9 DEF Call
<1>2. CASE Return
  <2>1. CASE ConnectSeen
    BY <2>1 DEF ConnectSeen, AppGoto, carrier, lifecycle, external, bounds, history,
      Lifecycle, Lifetime, AppType, AppStep, Connecting, Polling, Connection
  <2>2. CASE ConnectDone
    BY <2>2 DEF ConnectDone, AppReturn, AppIdle, carrier, lifecycle, external, bounds,
      history, Lifecycle, Lifetime, AppType, AppStep, Connecting, Polling, Connection
  <2>3. CASE ConnectTimeout
    BY <2>3 DEF ConnectTimeout, LinkGone, AppReturn, AppIdle, carrier, lifecycle, external,
      bounds, history, Lifecycle, Lifetime, AppType, AppStep, Connecting, Polling,
      Connection
  <2>4. CASE ReadPrior
    BY <2>4 DEF ReadPrior, carrier, lifecycle, external, bounds, history, Lifecycle,
      Lifetime, AppType, AppStep, Connecting, Polling, Connection
  <2>5. CASE ClearReady
    BY <2>5 DEF ClearReady, AppGoto, carrier, lifecycle, external, bounds, history,
      Lifecycle, Lifetime, AppType, AppStep, Connecting, Polling, Connection
  <2>6. CASE SendSubscribe
    BY <2>6 DEF SendSubscribe, AppGoto, AppReturn, AppIdle, carrier, lifecycle, external,
      bounds, history, Lifecycle, Lifetime, AppType, AppStep, Connecting, Polling,
      Connection
  <2>7. CASE SubscribeDone
    BY <2>7 DEF SubscribeDone, AppReturn, AppIdle, carrier, lifecycle, external, bounds,
      history, Lifecycle, Lifetime, AppType, AppStep, Connecting, Polling, Connection
  <2>8. CASE SubscribeTimeout
    BY <2>8 DEF SubscribeTimeout, AppReturn, AppIdle, carrier, lifecycle, external, bounds,
      history, Lifecycle, Lifetime, AppType, AppStep, Connecting, Polling, Connection
  <2>9. CASE SendUnsubscribe
    BY <2>9 DEF SendUnsubscribe, AppGoto, AppReturn, AppIdle, carrier, lifecycle, external,
      bounds, history, Lifecycle, Lifetime, AppType, AppStep, Connecting, Polling,
      Connection
  <2>10. CASE Compact
    BY <2>10 DEF Compact, AppReturn, AppIdle, carrier, lifecycle, external, bounds, history,
      Lifecycle, Lifetime, AppType, AppStep, Connecting, Polling, Connection
  <2>11. CASE ReconnectSeen
    BY <2>11 DEF ReconnectSeen, AppGoto, carrier, lifecycle, external, bounds, history,
      Lifecycle, Lifetime, AppType, AppStep, Connecting, Polling, Connection
  <2>12. CASE ReconnectTimeout
    BY <2>12 DEF ReconnectTimeout, AppReturn, AppIdle, carrier, lifecycle, external, bounds,
      history, Lifecycle, Lifetime, AppType, AppStep, Connecting, Polling, Connection
  <2>13. CASE ReconnectDone
    BY <2>13 DEF ReconnectDone, AppReturn, AppIdle, carrier, lifecycle, external, bounds,
      history, Lifecycle, Lifetime, AppType, AppStep, Connecting, Polling, Connection
  <2>14. CASE PollOverflow
    BY <2>14 DEF PollOverflow, AppReturn, AppIdle, carrier, lifecycle, external, bounds,
      history, Lifecycle, Lifetime, AppType, AppStep, Connecting, Polling, Connection
  <2>15. CASE PollLink
    BY <2>15 DEF PollLink, AppGoto, AppReturn, AppIdle, carrier, lifecycle, external,
      bounds, history, Lifecycle, Lifetime, AppType, AppStep, Connecting, Polling,
      Connection
  <2>16. CASE PollReceive
    BY <2>16 DEF PollReceive, AppReturn, AppIdle, carrier, lifecycle, external, bounds,
      history, Lifecycle, Lifetime, AppType, AppStep, Connecting, Polling, Connection
  <2> QED BY <1>2, <2>1, <2>2, <2>3, <2>4, <2>5, <2>6, <2>7, <2>8, <2>9, <2>10, <2>11, <2>12, <2>13, <2>14, <2>15, <2>16 DEF Return
<1>3. CASE HandleEvent
  BY <1>3 DEF HandleEvent, CountConnect, SetUp, ZeroAcks, ClearReadyAgain, Snapshot,
    Resubscribe, ClearUp, CountAck, CompareAcks, SetReady, SetOverflow, HandlerGoto,
    HandlerReturn, HandlerIdle, carrier, lifecycle, external, bounds, history, Lifecycle,
    Lifetime, AppType, AppStep, Connecting, Polling, Connection
<1>4. CASE LinkUp \/ LinkDown \/ Answer \/ \E v \in Verdicts : Deliver(v)
  BY <1>4 DEF LinkUp, LinkDown, Answer, Deliver, HandlerGoto, HandlerIdle, LinkGone,
    carrier, lifecycle, external, bounds, history, Lifecycle, Lifetime, AppType, AppStep,
    Connecting, Polling, Connection
<1> QED BY <1>1, <1>2, <1>3, <1>4 DEF Next

LEMMA ConnectionStep ==
  ASSUME Lifetime, Counts, AppType, HandlerType, Lifecycle, Connection, Next
  PROVE  Connection'
<1>1. CASE Call
  <2>1. CASE NetworkPrepare
    BY <2>1 DEF NetworkPrepare, carrier, lifecycle, external, bounds, history, Connection,
      Lifecycle, Lifetime, Counts, AppType, AppStep, HandlerType, HandlerStep, Connecting,
      Polling, Restoring
  <2>2. CASE NetworkCleanup
    BY <2>2 DEF NetworkCleanup, ResetState, carrier, lifecycle, external, bounds, history,
      Connection, Lifecycle, Lifetime, Counts, AppType, AppStep, HandlerType, HandlerStep,
      Connecting, Polling, Restoring
  <2>3. CASE ConfigureLastWill
    BY <2>3 DEF ConfigureLastWill, carrier, lifecycle, external, bounds, history,
      Connection, Lifecycle, Lifetime, Counts, AppType, AppStep, HandlerType, HandlerStep,
      Connecting, Polling, Restoring
  <2>4. CASE Connect
    <3>1. app.step = "idle" /\ client = "none" BY <2>4 DEF Connect, Lifecycle, AppIdle
    <3>2. handler = HandlerIdle /\ net = "down" BY <3>1 DEF Lifecycle
    <3>3. handler' = HandlerIdle /\ net' = "down" /\ bits' = {} BY <3>2, <2>4 DEF Connect, external
    <3>4. client' = "started" => app'.step = "connecting"
      BY <2>4 DEF Connect, AppGoto, AppIdle
    <3>5. handler'.step = "idle" /\ handler'.todo = <<>> BY <3>3 DEF HandlerIdle
    <3> QED BY <3>3, <3>4, <3>5 DEF Connection, Restoring
  <2>5. CASE Disconnect
    BY <2>5 DEF Disconnect, ResetState, LinkGone, carrier, lifecycle, external, bounds,
      history, Connection, Lifecycle, Lifetime, Counts, AppType, AppStep, HandlerType,
      HandlerStep, Connecting, Polling, Restoring
  <2>6. ASSUME NEW t \in Topics, Subscribe(t) PROVE Connection'
    BY <2>6 DEF Subscribe, AppIdle, carrier, lifecycle, external, bounds, history,
      Connection, Lifecycle, Lifetime, Counts, AppType, AppStep, HandlerType, HandlerStep,
      Connecting, Polling, Restoring
  <2>7. ASSUME NEW t \in Topics, Unsubscribe(t) PROVE Connection'
    BY <2>7 DEF Unsubscribe, AppIdle, carrier, lifecycle, external, bounds, history,
      Connection, Lifecycle, Lifetime, Counts, AppType, AppStep, HandlerType, HandlerStep,
      Connecting, Polling, Restoring
  <2>8. CASE ReconnectWait
    BY <2>8 DEF ReconnectWait, AppIdle, carrier, lifecycle, external, bounds, history,
      Connection, Lifecycle, Lifetime, Counts, AppType, AppStep, HandlerType, HandlerStep,
      Connecting, Polling, Restoring
  <2>9. CASE Poll
    BY <2>9 DEF Poll, AppIdle, AppGoto, carrier, lifecycle, external, bounds, history,
      Connection, Lifecycle, Lifetime, Counts, AppType, AppStep, HandlerType, HandlerStep,
      Connecting, Polling, Restoring
  <2> QED BY <1>1, <2>1, <2>2, <2>3, <2>4, <2>5, <2>6, <2>7, <2>8, <2>9 DEF Call
<1>2. CASE Return
  <2>1. CASE ConnectSeen
    BY <2>1 DEF ConnectSeen, AppGoto, carrier, lifecycle, external, bounds, history,
      Connection, Lifecycle, Lifetime, Counts, AppType, AppStep, HandlerType, HandlerStep,
      Connecting, Polling, Restoring
  <2>2. CASE ConnectDone
    BY <2>2 DEF ConnectDone, AppReturn, AppIdle, carrier, lifecycle, external, bounds,
      history, Connection, Lifecycle, Lifetime, Counts, AppType, AppStep, HandlerType,
      HandlerStep, Connecting, Polling, Restoring
  <2>3. CASE ConnectTimeout
    BY <2>3 DEF ConnectTimeout, LinkGone, AppReturn, AppIdle, carrier, lifecycle, external,
      bounds, history, Connection, Lifecycle, Lifetime, Counts, AppType, AppStep,
      HandlerType, HandlerStep, Connecting, Polling, Restoring
  <2>4. CASE ReadPrior
    BY <2>4 DEF ReadPrior, carrier, lifecycle, external, bounds, history, Connection,
      Lifecycle, Lifetime, Counts, AppType, AppStep, HandlerType, HandlerStep, Connecting,
      Polling, Restoring
  <2>5. CASE ClearReady
    BY <2>5 DEF ClearReady, AppGoto, carrier, lifecycle, external, bounds, history,
      Connection, Lifecycle, Lifetime, Counts, AppType, AppStep, HandlerType, HandlerStep,
      Connecting, Polling, Restoring
  <2>6. CASE SendSubscribe
    BY <2>6 DEF SendSubscribe, AppGoto, AppReturn, AppIdle, carrier, lifecycle, external,
      bounds, history, Connection, Lifecycle, Lifetime, Counts, AppType, AppStep,
      HandlerType, HandlerStep, Connecting, Polling, Restoring
  <2>7. CASE SubscribeDone
    BY <2>7 DEF SubscribeDone, AppReturn, AppIdle, carrier, lifecycle, external, bounds,
      history, Connection, Lifecycle, Lifetime, Counts, AppType, AppStep, HandlerType,
      HandlerStep, Connecting, Polling, Restoring
  <2>8. CASE SubscribeTimeout
    BY <2>8 DEF SubscribeTimeout, AppReturn, AppIdle, carrier, lifecycle, external, bounds,
      history, Connection, Lifecycle, Lifetime, Counts, AppType, AppStep, HandlerType,
      HandlerStep, Connecting, Polling, Restoring
  <2>9. CASE SendUnsubscribe
    BY <2>9 DEF SendUnsubscribe, AppGoto, AppReturn, AppIdle, carrier, lifecycle, external,
      bounds, history, Connection, Lifecycle, Lifetime, Counts, AppType, AppStep,
      HandlerType, HandlerStep, Connecting, Polling, Restoring
  <2>10. CASE Compact
    BY <2>10 DEF Compact, AppReturn, AppIdle, carrier, lifecycle, external, bounds, history,
      Connection, Lifecycle, Lifetime, Counts, AppType, AppStep, HandlerType, HandlerStep,
      Connecting, Polling, Restoring
  <2>11. CASE ReconnectSeen
    BY <2>11 DEF ReconnectSeen, AppGoto, carrier, lifecycle, external, bounds, history,
      Connection, Lifecycle, Lifetime, Counts, AppType, AppStep, HandlerType, HandlerStep,
      Connecting, Polling, Restoring
  <2>12. CASE ReconnectTimeout
    BY <2>12 DEF ReconnectTimeout, AppReturn, AppIdle, carrier, lifecycle, external, bounds,
      history, Connection, Lifecycle, Lifetime, Counts, AppType, AppStep, HandlerType,
      HandlerStep, Connecting, Polling, Restoring
  <2>13. CASE ReconnectDone
    BY <2>13 DEF ReconnectDone, AppReturn, AppIdle, carrier, lifecycle, external, bounds,
      history, Connection, Lifecycle, Lifetime, Counts, AppType, AppStep, HandlerType,
      HandlerStep, Connecting, Polling, Restoring
  <2>14. CASE PollOverflow
    BY <2>14 DEF PollOverflow, AppReturn, AppIdle, carrier, lifecycle, external, bounds,
      history, Connection, Lifecycle, Lifetime, Counts, AppType, AppStep, HandlerType,
      HandlerStep, Connecting, Polling, Restoring
  <2>15. CASE PollLink
    BY <2>15 DEF PollLink, AppGoto, AppReturn, AppIdle, carrier, lifecycle, external,
      bounds, history, Connection, Lifecycle, Lifetime, Counts, AppType, AppStep,
      HandlerType, HandlerStep, Connecting, Polling, Restoring
  <2>16. CASE PollReceive
    BY <2>16 DEF PollReceive, AppReturn, AppIdle, carrier, lifecycle, external, bounds,
      history, Connection, Lifecycle, Lifetime, Counts, AppType, AppStep, HandlerType,
      HandlerStep, Connecting, Polling, Restoring
  <2> QED BY <1>2, <2>1, <2>2, <2>3, <2>4, <2>5, <2>6, <2>7, <2>8, <2>9, <2>10, <2>11, <2>12, <2>13, <2>14, <2>15, <2>16 DEF Return
<1>3. CASE HandleEvent
  <2>1. CASE CountConnect
    BY <2>1 DEF CountConnect, HandlerGoto, carrier, lifecycle, external, bounds, history,
      Connection, Lifecycle, Lifetime, Counts, AppType, AppStep, HandlerType, HandlerStep,
      Connecting, Polling, Restoring
  <2>2. CASE SetUp
    <3>1. client = "started" /\ net = "up"
      BY <2>2 DEF SetUp, Connection, Lifecycle, Lifetime, HandlerIdle
    <3>2. /\ client' = "started" /\ net' = "up" /\ connect_count' = connect_count /\ app' = app
          /\ bits' = bits \cup {"up"}
      BY <3>1, <2>2 DEF SetUp, lifecycle, external
    <3>3. "ready" \notin bits' /\ handler.todo = <<>>
      BY <3>1, <3>2, <2>2 DEF SetUp, Connection, Restoring
    <3>4. CASE handler.step = "upAgain"
      <4>1. handler' = [handler EXCEPT !.step = "zeroAcks"] BY <3>4, <2>2 DEF SetUp, HandlerGoto
      <4>2. handler'.step = "zeroAcks" /\ handler'.todo = <<>> BY <3>3, <4>1 DEF HandlerType
      <4>3. connect_count # 0 BY <3>1, <3>4 DEF Connection
      <4> QED BY <3>2, <3>3, <4>2, <4>3 DEF Connection
    <3>5. CASE handler.step = "upFirst"
      <4>1. handler' = HandlerIdle BY <3>5, <2>2 DEF SetUp, HandlerReturn
      <4>2. handler'.step = "idle" /\ handler'.todo = <<>> BY <4>1 DEF HandlerIdle
      <4>3. connect_count # 0 BY <3>1, <3>5 DEF Connection
      <4> QED BY <3>2, <4>1, <4>2, <4>3 DEF Connection, Restoring
    <3> QED BY <3>4, <3>5, <2>2 DEF SetUp
  <2>3. CASE ZeroAcks
    BY <2>3 DEF ZeroAcks, HandlerGoto, carrier, lifecycle, external, bounds, history,
      Connection, Lifecycle, Lifetime, Counts, AppType, AppStep, HandlerType, HandlerStep,
      Connecting, Polling, Restoring
  <2>4. CASE ClearReadyAgain
    BY <2>4 DEF ClearReadyAgain, HandlerGoto, carrier, lifecycle, external, bounds, history,
      Connection, Lifecycle, Lifetime, Counts, AppType, AppStep, HandlerType, HandlerStep,
      Connecting, Polling, Restoring
  <2>5. CASE Snapshot
    BY <2>5 DEF Snapshot, carrier, lifecycle, external, bounds, history, Connection,
      Lifecycle, Lifetime, Counts, AppType, AppStep, HandlerType, HandlerStep, Connecting,
      Polling, Restoring
  <2>6. CASE Resubscribe
    BY <2>6 DEF Resubscribe, HandlerReturn, HandlerIdle, carrier, lifecycle, external,
      bounds, history, Connection, Lifecycle, Lifetime, Counts, AppType, AppStep,
      HandlerType, HandlerStep, Connecting, Polling, Restoring
  <2>7. CASE ClearUp
    BY <2>7 DEF ClearUp, HandlerReturn, HandlerIdle, carrier, lifecycle, external, bounds,
      history, Connection, Lifecycle, Lifetime, Counts, AppType, AppStep, HandlerType,
      HandlerStep, Connecting, Polling, Restoring
  <2>8. CASE CountAck
    BY <2>8 DEF CountAck, carrier, lifecycle, external, bounds, history, Connection,
      Lifecycle, Lifetime, Counts, AppType, AppStep, HandlerType, HandlerStep, Connecting,
      Polling, Restoring
  <2>9. CASE CompareAcks
    BY <2>9 DEF CompareAcks, HandlerGoto, HandlerReturn, HandlerIdle, carrier, lifecycle,
      external, bounds, history, Connection, Lifecycle, Lifetime, Counts, AppType, AppStep,
      HandlerType, HandlerStep, Connecting, Polling, Restoring
  <2>10. CASE SetReady
    BY <2>10 DEF SetReady, HandlerReturn, HandlerIdle, carrier, lifecycle, external, bounds,
      history, Connection, Lifecycle, Lifetime, Counts, AppType, AppStep, HandlerType,
      HandlerStep, Connecting, Polling, Restoring
  <2>11. CASE SetOverflow
    BY <2>11 DEF SetOverflow, HandlerReturn, HandlerIdle, carrier, lifecycle, external,
      bounds, history, Connection, Lifecycle, Lifetime, Counts, AppType, AppStep,
      HandlerType, HandlerStep, Connecting, Polling, Restoring
  <2> QED BY <1>3, <2>1, <2>2, <2>3, <2>4, <2>5, <2>6, <2>7, <2>8, <2>9, <2>10, <2>11 DEF HandleEvent
<1>4. CASE LinkUp \/ LinkDown \/ Answer \/ \E v \in Verdicts : Deliver(v)
  <2>1. CASE LinkUp
    BY <2>1 DEF LinkUp, HandlerGoto, HandlerIdle, carrier, lifecycle, external, bounds,
      history, Connection, Lifecycle, Lifetime, Counts, AppType, AppStep, HandlerType,
      HandlerStep, Connecting, Polling, Restoring
  <2>2. CASE LinkDown
    BY <2>2 DEF LinkDown, HandlerGoto, HandlerIdle, LinkGone, carrier, lifecycle, external,
      bounds, history, Connection, Lifecycle, Lifetime, Counts, AppType, AppStep,
      HandlerType, HandlerStep, Connecting, Polling, Restoring
  <2>3. CASE Answer
    BY <2>3 DEF Answer, HandlerGoto, HandlerIdle, carrier, lifecycle, external, bounds,
      history, Connection, Lifecycle, Lifetime, Counts, AppType, AppStep, HandlerType,
      HandlerStep, Connecting, Polling, Restoring
  <2>4. ASSUME NEW v \in Verdicts, Deliver(v) PROVE Connection'
    BY <2>4 DEF Deliver, HandlerGoto, HandlerIdle, carrier, lifecycle, external, bounds,
      history, Connection, Lifecycle, Lifetime, Counts, AppType, AppStep, HandlerType,
      HandlerStep, Connecting, Polling, Restoring
  <2> QED BY <1>4, <2>1, <2>2, <2>3, <2>4
<1> QED BY <1>1, <1>2, <1>3, <1>4 DEF Next

LEMMA EmptyTable ==
  ASSUME subscriptions' = <<>>
  PROVE  Distinct(subscriptions)'
BY DEF Distinct

LEMMA TableStep ==
  ASSUME TableType, TopicsType, AppType, Lifetime, Lifecycle, Table, Next
  PROVE  Table'
<1>1. CASE Call
  <2>1. CASE NetworkPrepare
    <3>1. subscriptions' = <<>> /\ app' = app /\ app.step = "idle" /\ confirmed' = {}
      BY <2>1 DEF NetworkPrepare, Lifecycle, AppIdle, history
    <3> QED BY <3>1, EmptyTable DEF Table, OnTopic
  <2>2. CASE NetworkCleanup
    <3>1. subscriptions' = <<>> /\ app' = app /\ app.step = "idle" /\ confirmed' = {}
      BY <2>2 DEF NetworkCleanup, ResetState, Lifecycle, AppIdle, history
    <3> QED BY <3>1, EmptyTable DEF Table, OnTopic
  <2>3. CASE ConfigureLastWill
    BY <2>3 DEF ConfigureLastWill, carrier, lifecycle, external, bounds, history, Table,
      Lifecycle, OnTopic, Listed, TopicsType, TableType, AppType
  <2>4. CASE Connect
    BY <2>4 DEF Connect, AppIdle, AppGoto, carrier, lifecycle, external, bounds, history,
      Table, Lifecycle, OnTopic, Listed, TopicsType, TableType, AppType
  <2>5. CASE Disconnect
    <3>1. app' = app /\ app.step = "idle" BY <2>5 DEF Disconnect, AppIdle
    <3>2. CASE client = "none"
      <4>1. subscriptions' = subscriptions /\ confirmed' = confirmed
        BY <3>2, <2>5 DEF Disconnect, carrier
      <4> QED BY <3>1, <4>1 DEF Table, Distinct, Listed, OnTopic
    <3>3. CASE client = "started"
      <4>1. subscriptions' = <<>> /\ confirmed' = {} BY <3>3, <2>5 DEF Disconnect, ResetState
      <4> QED BY <3>1, <4>1, EmptyTable DEF Table, OnTopic
    <3> QED BY <3>2, <3>3, <2>5 DEF Disconnect
  <2>6. ASSUME NEW t \in Topics, Subscribe(t) PROVE Table'
    <3>1. /\ confirmed' = confirmed /\ app' = [AppIdle EXCEPT !.step = "prior", !.topic = t]
          /\ (t \in Listed /\ subscriptions' = subscriptions)
               \/ (t \notin Listed /\ subscriptions' = Append(subscriptions, t))
      BY <2>6 DEF Subscribe, history
    <3>2. app'.step = "prior" /\ app'.topic = t BY <3>1 DEF AppIdle
    <3>3. CASE t \in Listed /\ subscriptions' = subscriptions
      BY <3>1, <3>2, <3>3 DEF Table, Distinct, Listed
    <3>4. CASE t \notin Listed /\ subscriptions' = Append(subscriptions, t)
      <4>1. Distinct(subscriptions)' /\ Listed' = Listed \cup {t}
        BY <3>4, TableAppend DEF Table, TableType
      <4> QED BY <3>1, <3>2, <4>1 DEF Table
    <3> QED BY <3>1, <3>3, <3>4
  <2>7. ASSUME NEW t \in Topics, Unsubscribe(t) PROVE Table'
    BY <2>7 DEF Unsubscribe, AppIdle, carrier, lifecycle, external, bounds, history, Table,
      Lifecycle, OnTopic, Listed, TopicsType, TableType, AppType
  <2>8. CASE ReconnectWait
    BY <2>8 DEF ReconnectWait, AppIdle, carrier, lifecycle, external, bounds, history,
      Table, Lifecycle, OnTopic, Listed, TopicsType, TableType, AppType
  <2>9. CASE Poll
    BY <2>9 DEF Poll, AppIdle, AppGoto, carrier, lifecycle, external, bounds, history,
      Table, Lifecycle, OnTopic, Listed, TopicsType, TableType, AppType
  <2> QED BY <1>1, <2>1, <2>2, <2>3, <2>4, <2>5, <2>6, <2>7, <2>8, <2>9 DEF Call
<1>2. CASE Return
  <2>1. CASE ConnectSeen
    BY <2>1 DEF ConnectSeen, AppGoto, carrier, lifecycle, external, bounds, history, Table,
      Lifecycle, OnTopic, Listed, TopicsType, TableType, AppType
  <2>2. CASE ConnectDone
    BY <2>2 DEF ConnectDone, AppReturn, AppIdle, carrier, lifecycle, external, bounds,
      history, Table, Lifecycle, OnTopic, Listed, TopicsType, TableType, AppType
  <2>3. CASE ConnectTimeout
    BY <2>3 DEF ConnectTimeout, LinkGone, AppReturn, AppIdle, carrier, lifecycle, external,
      bounds, history, Table, Lifecycle, OnTopic, Listed, TopicsType, TableType, AppType
  <2>4. CASE ReadPrior
    BY <2>4 DEF ReadPrior, carrier, lifecycle, external, bounds, history, Table, Lifecycle,
      OnTopic, Listed, TopicsType, TableType, AppType
  <2>5. CASE ClearReady
    BY <2>5 DEF ClearReady, AppGoto, carrier, lifecycle, external, bounds, history, Table,
      Lifecycle, OnTopic, Listed, TopicsType, TableType, AppType
  <2>6. CASE SendSubscribe
    BY <2>6 DEF SendSubscribe, AppGoto, AppReturn, AppIdle, carrier, lifecycle, external,
      bounds, history, Table, Lifecycle, OnTopic, Listed, TopicsType, TableType, AppType
  <2>7. CASE SubscribeDone
    BY <2>7 DEF SubscribeDone, AppReturn, AppIdle, carrier, lifecycle, external, bounds,
      history, Table, Lifecycle, OnTopic, Listed, TopicsType, TableType, AppType
  <2>8. CASE SubscribeTimeout
    BY <2>8 DEF SubscribeTimeout, AppReturn, AppIdle, carrier, lifecycle, external, bounds,
      history, Table, Lifecycle, OnTopic, Listed, TopicsType, TableType, AppType
  <2>9. CASE SendUnsubscribe
    BY <2>9 DEF SendUnsubscribe, AppGoto, AppReturn, AppIdle, carrier, lifecycle, external,
      bounds, history, Table, Lifecycle, OnTopic, Listed, TopicsType, TableType, AppType
  <2>10. CASE Compact
    <3>1. /\ app.topic \in Listed /\ app.topic \notin confirmed /\ confirmed' = confirmed
          /\ subscriptions' = Without(subscriptions, app.topic) /\ app' = AppIdle
      BY <2>10 DEF Compact, AppReturn, Table, OnTopic, history
    <3>2. Distinct(subscriptions)' /\ Listed' = Listed \ {app.topic}
      BY <3>1, TableCompact DEF Table, TableType
    <3> QED BY <3>1, <3>2 DEF Table, AppIdle, OnTopic
  <2>11. CASE ReconnectSeen
    BY <2>11 DEF ReconnectSeen, AppGoto, carrier, lifecycle, external, bounds, history,
      Table, Lifecycle, OnTopic, Listed, TopicsType, TableType, AppType
  <2>12. CASE ReconnectTimeout
    BY <2>12 DEF ReconnectTimeout, AppReturn, AppIdle, carrier, lifecycle, external, bounds,
      history, Table, Lifecycle, OnTopic, Listed, TopicsType, TableType, AppType
  <2>13. CASE ReconnectDone
    BY <2>13 DEF ReconnectDone, AppReturn, AppIdle, carrier, lifecycle, external, bounds,
      history, Table, Lifecycle, OnTopic, Listed, TopicsType, TableType, AppType
  <2>14. CASE PollOverflow
    BY <2>14 DEF PollOverflow, AppReturn, AppIdle, carrier, lifecycle, external, bounds,
      history, Table, Lifecycle, OnTopic, Listed, TopicsType, TableType, AppType
  <2>15. CASE PollLink
    BY <2>15 DEF PollLink, AppGoto, AppReturn, AppIdle, carrier, lifecycle, external,
      bounds, history, Table, Lifecycle, OnTopic, Listed, TopicsType, TableType, AppType
  <2>16. CASE PollReceive
    BY <2>16 DEF PollReceive, AppReturn, AppIdle, carrier, lifecycle, external, bounds,
      history, Table, Lifecycle, OnTopic, Listed, TopicsType, TableType, AppType
  <2> QED BY <1>2, <2>1, <2>2, <2>3, <2>4, <2>5, <2>6, <2>7, <2>8, <2>9, <2>10, <2>11, <2>12, <2>13, <2>14, <2>15, <2>16 DEF Return
<1>3. CASE HandleEvent
  BY <1>3 DEF HandleEvent, CountConnect, SetUp, ZeroAcks, ClearReadyAgain, Snapshot,
    Resubscribe, ClearUp, CountAck, CompareAcks, SetReady, SetOverflow, HandlerGoto,
    HandlerReturn, HandlerIdle, carrier, lifecycle, external, bounds, history, Table,
    Lifecycle, OnTopic, Listed, TopicsType, TableType, AppType
<1>4. CASE LinkUp \/ LinkDown \/ Answer \/ \E v \in Verdicts : Deliver(v)
  BY <1>4 DEF LinkUp, LinkDown, Answer, Deliver, HandlerGoto, HandlerIdle, LinkGone,
    carrier, lifecycle, external, bounds, history, Table, Lifecycle, OnTopic, Listed,
    TopicsType, TableType, AppType
<1> QED BY <1>1, <1>2, <1>3, <1>4 DEF Next

LEMMA TopicListed ==
  ASSUME TableType, NEW t \in Listed
  PROVE  t \in Topics
<1>1. PICK i \in DOMAIN subscriptions : t = subscriptions[i] BY DEF Listed
<1> QED BY <1>1, LenProperties, ElementOfSeq DEF TableType

LEMMA TableTypeStep ==
  ASSUME TableType, AppType, Table, Next
  PROVE  TableType'
<1>1. CASE Call
  <2>1. CASE NetworkPrepare
    BY CarrierAssumption, EmptySeq, <2>1 DEF NetworkPrepare, carrier, lifecycle, external,
      bounds, history, TableType
  <2>2. CASE NetworkCleanup
    BY CarrierAssumption, EmptySeq, <2>2 DEF NetworkCleanup, ResetState, carrier, lifecycle,
      external, bounds, history, TableType
  <2>3. CASE ConfigureLastWill
    BY <2>3 DEF ConfigureLastWill, carrier, lifecycle, external, bounds, history, TableType
  <2>4. CASE Connect
    BY <2>4 DEF Connect, AppIdle, AppGoto, carrier, lifecycle, external, bounds, history,
      TableType
  <2>5. CASE Disconnect
    <3>1. subscriptions' = subscriptions \/ subscriptions' = <<>> BY <2>5 DEF Disconnect, ResetState, carrier
    <3>2. <<>> \in Seq(Topics) /\ Len(<<>>) = 0 BY EmptySeq
    <3>3. CASE subscriptions' = subscriptions BY <3>3 DEF TableType
    <3>4. CASE subscriptions' = <<>> BY <3>2, <3>4, CarrierAssumption DEF TableType
    <3> QED BY <3>1, <3>3, <3>4
  <2>6. ASSUME NEW t \in Topics, Subscribe(t) PROVE TableType'
    <3>1. CASE t \in Listed BY <3>1, <2>6 DEF Subscribe, TableType
    <3>2. CASE t \notin Listed
      <4>1. Len(subscriptions) < SubscriptionCapacity /\ subscriptions' = Append(subscriptions, t)
        BY <3>2, <2>6 DEF Subscribe, HasRoom
      <4>2. subscriptions' \in Seq(Topics) /\ Len(subscriptions') = Len(subscriptions) + 1
        BY <4>1, AppendProperties DEF TableType
      <4>3. Len(subscriptions) \in Nat BY LenProperties DEF TableType
      <4> QED BY <4>1, <4>2, <4>3, CarrierAssumption DEF TableType
    <3> QED BY <3>1, <3>2
  <2>7. ASSUME NEW t \in Topics, Unsubscribe(t) PROVE TableType'
    BY <2>7 DEF Unsubscribe, AppIdle, carrier, lifecycle, external, bounds, history,
      TableType
  <2>8. CASE ReconnectWait
    BY <2>8 DEF ReconnectWait, AppIdle, carrier, lifecycle, external, bounds, history,
      TableType
  <2>9. CASE Poll
    BY <2>9 DEF Poll, AppIdle, AppGoto, carrier, lifecycle, external, bounds, history,
      TableType
  <2> QED BY <1>1, <2>1, <2>2, <2>3, <2>4, <2>5, <2>6, <2>7, <2>8, <2>9 DEF Call
<1>2. CASE Return
  <2>1. CASE ConnectSeen
    BY <2>1 DEF ConnectSeen, AppGoto, carrier, lifecycle, external, bounds, history,
      TableType
  <2>2. CASE ConnectDone
    BY <2>2 DEF ConnectDone, AppReturn, AppIdle, carrier, lifecycle, external, bounds,
      history, TableType
  <2>3. CASE ConnectTimeout
    BY <2>3 DEF ConnectTimeout, LinkGone, AppReturn, AppIdle, carrier, lifecycle, external,
      bounds, history, TableType
  <2>4. CASE ReadPrior
    BY <2>4 DEF ReadPrior, carrier, lifecycle, external, bounds, history, TableType
  <2>5. CASE ClearReady
    BY <2>5 DEF ClearReady, AppGoto, carrier, lifecycle, external, bounds, history,
      TableType
  <2>6. CASE SendSubscribe
    BY <2>6 DEF SendSubscribe, AppGoto, AppReturn, AppIdle, carrier, lifecycle, external,
      bounds, history, TableType
  <2>7. CASE SubscribeDone
    BY <2>7 DEF SubscribeDone, AppReturn, AppIdle, carrier, lifecycle, external, bounds,
      history, TableType
  <2>8. CASE SubscribeTimeout
    BY <2>8 DEF SubscribeTimeout, AppReturn, AppIdle, carrier, lifecycle, external, bounds,
      history, TableType
  <2>9. CASE SendUnsubscribe
    BY <2>9 DEF SendUnsubscribe, AppGoto, AppReturn, AppIdle, carrier, lifecycle, external,
      bounds, history, TableType
  <2>10. CASE Compact
    <3>1. app.topic \in Listed /\ subscriptions' = Without(subscriptions, app.topic)
      BY <2>10 DEF Compact, Table, OnTopic
    <3>2. subscriptions' \in Seq(Topics) /\ Len(subscriptions') = Len(subscriptions) - 1
      BY <3>1, TableCompact DEF Table, TableType
    <3>3. Len(subscriptions) \in Nat BY LenProperties DEF TableType
    <3> QED BY <3>2, <3>3, CarrierAssumption DEF TableType
  <2>11. CASE ReconnectSeen
    BY <2>11 DEF ReconnectSeen, AppGoto, carrier, lifecycle, external, bounds, history,
      TableType
  <2>12. CASE ReconnectTimeout
    BY <2>12 DEF ReconnectTimeout, AppReturn, AppIdle, carrier, lifecycle, external, bounds,
      history, TableType
  <2>13. CASE ReconnectDone
    BY <2>13 DEF ReconnectDone, AppReturn, AppIdle, carrier, lifecycle, external, bounds,
      history, TableType
  <2>14. CASE PollOverflow
    BY <2>14 DEF PollOverflow, AppReturn, AppIdle, carrier, lifecycle, external, bounds,
      history, TableType
  <2>15. CASE PollLink
    BY <2>15 DEF PollLink, AppGoto, AppReturn, AppIdle, carrier, lifecycle, external,
      bounds, history, TableType
  <2>16. CASE PollReceive
    BY <2>16 DEF PollReceive, AppReturn, AppIdle, carrier, lifecycle, external, bounds,
      history, TableType
  <2> QED BY <1>2, <2>1, <2>2, <2>3, <2>4, <2>5, <2>6, <2>7, <2>8, <2>9, <2>10, <2>11, <2>12, <2>13, <2>14, <2>15, <2>16 DEF Return
<1>3. CASE HandleEvent
  BY <1>3 DEF HandleEvent, CountConnect, SetUp, ZeroAcks, ClearReadyAgain, Snapshot,
    Resubscribe, ClearUp, CountAck, CompareAcks, SetReady, SetOverflow, HandlerGoto,
    HandlerReturn, HandlerIdle, carrier, lifecycle, external, bounds, history, TableType
<1>4. CASE LinkUp \/ LinkDown \/ Answer \/ \E v \in Verdicts : Deliver(v)
  BY <1>4 DEF LinkUp, LinkDown, Answer, Deliver, HandlerGoto, HandlerIdle, LinkGone,
    carrier, lifecycle, external, bounds, history, TableType
<1> QED BY <1>1, <1>2, <1>3, <1>4 DEF Next

LEMMA QueueTypeStep ==
  ASSUME QueueType, Counts, HandlerType, Next
  PROVE  QueueType'
<1>1. CASE Call
  <2>1. CASE NetworkPrepare
    BY CarrierAssumption, EmptySeq, <2>1 DEF NetworkPrepare, carrier, lifecycle, external,
      bounds, history, QueueType, Counts
  <2>2. CASE NetworkCleanup
    BY CarrierAssumption, EmptySeq, <2>2 DEF NetworkCleanup, ResetState, carrier, lifecycle,
      external, bounds, history, QueueType, Counts
  <2>3. CASE ConfigureLastWill
    BY <2>3 DEF ConfigureLastWill, carrier, lifecycle, external, bounds, history, QueueType,
      Counts
  <2>4. CASE Connect
    BY CarrierAssumption, EmptySeq, <2>4 DEF Connect, AppIdle, AppGoto, carrier, lifecycle,
      external, bounds, history, QueueType, Counts
  <2>5. CASE Disconnect
    <3>1. queue' = queue \/ queue' = <<>> BY <2>5 DEF Disconnect, ResetState, carrier
    <3>2. <<>> \in Seq(Nat) /\ Len(<<>>) = 0 BY EmptySeq
    <3>3. CASE queue' = queue BY <3>3 DEF QueueType
    <3>4. CASE queue' = <<>> BY <3>2, <3>4, CarrierAssumption DEF QueueType
    <3> QED BY <3>1, <3>3, <3>4
  <2>6. ASSUME NEW t \in Topics, Subscribe(t) PROVE QueueType'
    BY <2>6 DEF Subscribe, AppIdle, carrier, lifecycle, external, bounds, history,
      QueueType, Counts
  <2>7. ASSUME NEW t \in Topics, Unsubscribe(t) PROVE QueueType'
    BY <2>7 DEF Unsubscribe, AppIdle, carrier, lifecycle, external, bounds, history,
      QueueType, Counts
  <2>8. CASE ReconnectWait
    BY <2>8 DEF ReconnectWait, AppIdle, carrier, lifecycle, external, bounds, history,
      QueueType, Counts
  <2>9. CASE Poll
    BY <2>9 DEF Poll, AppIdle, AppGoto, carrier, lifecycle, external, bounds, history,
      QueueType, Counts
  <2> QED BY <1>1, <2>1, <2>2, <2>3, <2>4, <2>5, <2>6, <2>7, <2>8, <2>9 DEF Call
<1>2. CASE Return
  <2>1. CASE ConnectSeen
    BY <2>1 DEF ConnectSeen, AppGoto, carrier, lifecycle, external, bounds, history,
      QueueType, Counts
  <2>2. CASE ConnectDone
    BY <2>2 DEF ConnectDone, AppReturn, AppIdle, carrier, lifecycle, external, bounds,
      history, QueueType, Counts
  <2>3. CASE ConnectTimeout
    BY <2>3 DEF ConnectTimeout, LinkGone, AppReturn, AppIdle, carrier, lifecycle, external,
      bounds, history, QueueType, Counts
  <2>4. CASE ReadPrior
    BY <2>4 DEF ReadPrior, carrier, lifecycle, external, bounds, history, QueueType, Counts
  <2>5. CASE ClearReady
    BY <2>5 DEF ClearReady, AppGoto, carrier, lifecycle, external, bounds, history,
      QueueType, Counts
  <2>6. CASE SendSubscribe
    BY <2>6 DEF SendSubscribe, AppGoto, AppReturn, AppIdle, carrier, lifecycle, external,
      bounds, history, QueueType, Counts
  <2>7. CASE SubscribeDone
    BY <2>7 DEF SubscribeDone, AppReturn, AppIdle, carrier, lifecycle, external, bounds,
      history, QueueType, Counts
  <2>8. CASE SubscribeTimeout
    BY <2>8 DEF SubscribeTimeout, AppReturn, AppIdle, carrier, lifecycle, external, bounds,
      history, QueueType, Counts
  <2>9. CASE SendUnsubscribe
    BY <2>9 DEF SendUnsubscribe, AppGoto, AppReturn, AppIdle, carrier, lifecycle, external,
      bounds, history, QueueType, Counts
  <2>10. CASE Compact
    BY <2>10 DEF Compact, AppReturn, AppIdle, carrier, lifecycle, external, bounds, history,
      QueueType, Counts
  <2>11. CASE ReconnectSeen
    BY <2>11 DEF ReconnectSeen, AppGoto, carrier, lifecycle, external, bounds, history,
      QueueType, Counts
  <2>12. CASE ReconnectTimeout
    BY <2>12 DEF ReconnectTimeout, AppReturn, AppIdle, carrier, lifecycle, external, bounds,
      history, QueueType, Counts
  <2>13. CASE ReconnectDone
    BY <2>13 DEF ReconnectDone, AppReturn, AppIdle, carrier, lifecycle, external, bounds,
      history, QueueType, Counts
  <2>14. CASE PollOverflow
    BY <2>14 DEF PollOverflow, AppReturn, AppIdle, carrier, lifecycle, external, bounds,
      history, QueueType, Counts
  <2>15. CASE PollLink
    BY <2>15 DEF PollLink, AppGoto, AppReturn, AppIdle, carrier, lifecycle, external,
      bounds, history, QueueType, Counts
  <2>16. CASE PollReceive
    <3>1. CASE queue = <<>> BY <3>1, <2>16 DEF PollReceive, QueueType
    <3>2. CASE queue # <<>>
      <4>1. queue' = Tail(queue) BY <3>2, <2>16 DEF PollReceive
      <4>2. queue' \in Seq(Nat) /\ Len(queue') = Len(queue) - 1
        BY <3>2, <4>1, HeadTailProperties DEF QueueType
      <4>3. Len(queue) \in Nat BY LenProperties DEF QueueType
      <4> QED BY <4>2, <4>3, CarrierAssumption DEF QueueType
    <3> QED BY <3>1, <3>2
  <2> QED BY <1>2, <2>1, <2>2, <2>3, <2>4, <2>5, <2>6, <2>7, <2>8, <2>9, <2>10, <2>11, <2>12, <2>13, <2>14, <2>15, <2>16 DEF Return
<1>3. CASE HandleEvent
  BY <1>3 DEF HandleEvent, CountConnect, SetUp, ZeroAcks, ClearReadyAgain, Snapshot,
    Resubscribe, ClearUp, CountAck, CompareAcks, SetReady, SetOverflow, HandlerGoto,
    HandlerReturn, HandlerIdle, carrier, lifecycle, external, bounds, history, QueueType,
    Counts
<1>4. CASE LinkUp \/ LinkDown \/ Answer \/ \E v \in Verdicts : Deliver(v)
  <2>1. CASE LinkUp
    BY <2>1 DEF LinkUp, HandlerGoto, HandlerIdle, carrier, lifecycle, external, bounds,
      history, QueueType, Counts
  <2>2. CASE LinkDown
    BY <2>2 DEF LinkDown, HandlerGoto, HandlerIdle, LinkGone, carrier, lifecycle, external,
      bounds, history, QueueType, Counts
  <2>3. CASE Answer
    BY <2>3 DEF Answer, HandlerGoto, HandlerIdle, carrier, lifecycle, external, bounds,
      history, QueueType, Counts
  <2>4. ASSUME NEW v \in Verdicts, Deliver(v) PROVE QueueType'
    <3>1. frames' \in Nat BY <2>4 DEF Deliver, Counts
    <3>2. queue' = queue \/ (Len(queue) < EventCapacity /\ queue' = Append(queue, frames'))
      BY <2>4 DEF Deliver
    <3>3. CASE queue' = queue BY <3>3 DEF QueueType
    <3>4. CASE Len(queue) < EventCapacity /\ queue' = Append(queue, frames')
      <4>1. queue' \in Seq(Nat) /\ Len(queue') = Len(queue) + 1
        BY <3>1, <3>4, AppendProperties DEF QueueType
      <4>2. Len(queue) \in Nat BY LenProperties DEF QueueType
      <4> QED BY <3>4, <4>1, <4>2, CarrierAssumption DEF QueueType
    <3> QED BY <3>2, <3>3, <3>4
  <2> QED BY <1>4, <2>1, <2>2, <2>3, <2>4
<1> QED BY <1>1, <1>2, <1>3, <1>4 DEF Next

LEMMA TopicsTypeStep ==
  ASSUME Lifetime, TopicsType, TableType, AppType, HandlerType, Table, Next
  PROVE  TopicsType'
<1>1. CASE Call
  <2>1. CASE NetworkPrepare
    BY <2>1 DEF NetworkPrepare, carrier, lifecycle, external, bounds, history, TopicsType
  <2>2. CASE NetworkCleanup
    BY <2>2 DEF NetworkCleanup, ResetState, carrier, lifecycle, external, bounds, history,
      TopicsType
  <2>3. CASE ConfigureLastWill
    BY <2>3 DEF ConfigureLastWill, carrier, lifecycle, external, bounds, history, TopicsType
  <2>4. CASE Connect
    BY <2>4 DEF Connect, AppIdle, AppGoto, carrier, lifecycle, external, bounds, history,
      TopicsType
  <2>5. CASE Disconnect
    <3>1. bits' = bits BY <2>5 DEF Disconnect, ResetState, carrier
    <3>2. \/ pending' = pending /\ granted' = granted /\ confirmed' = confirmed
          \/ pending' = <<>> /\ granted' = {} /\ confirmed' = {}
      BY <2>5 DEF Disconnect, LinkGone, external
    <3> QED BY <3>1, <3>2, EmptySeq DEF TopicsType
  <2>6. ASSUME NEW t \in Topics, Subscribe(t) PROVE TopicsType'
    BY <2>6 DEF Subscribe, AppIdle, carrier, lifecycle, external, bounds, history,
      TopicsType
  <2>7. ASSUME NEW t \in Topics, Unsubscribe(t) PROVE TopicsType'
    BY <2>7 DEF Unsubscribe, AppIdle, carrier, lifecycle, external, bounds, history,
      TopicsType
  <2>8. CASE ReconnectWait
    BY <2>8 DEF ReconnectWait, AppIdle, carrier, lifecycle, external, bounds, history,
      TopicsType
  <2>9. CASE Poll
    BY <2>9 DEF Poll, AppIdle, AppGoto, carrier, lifecycle, external, bounds, history,
      TopicsType
  <2> QED BY <1>1, <2>1, <2>2, <2>3, <2>4, <2>5, <2>6, <2>7, <2>8, <2>9 DEF Call
<1>2. CASE Return
  <2>1. CASE ConnectSeen
    BY <2>1 DEF ConnectSeen, AppGoto, carrier, lifecycle, external, bounds, history,
      TopicsType
  <2>2. CASE ConnectDone
    BY <2>2 DEF ConnectDone, AppReturn, AppIdle, carrier, lifecycle, external, bounds,
      history, TopicsType
  <2>3. CASE ConnectTimeout
    BY <2>3 DEF ConnectTimeout, LinkGone, AppReturn, AppIdle, carrier, lifecycle, external,
      bounds, history, TopicsType
  <2>4. CASE ReadPrior
    BY <2>4 DEF ReadPrior, carrier, lifecycle, external, bounds, history, TopicsType
  <2>5. CASE ClearReady
    BY <2>5 DEF ClearReady, AppGoto, carrier, lifecycle, external, bounds, history,
      TopicsType
  <2>6. CASE SendSubscribe
    <3>1. app.topic \in Topics BY TopicListed, <2>6 DEF SendSubscribe, Table, OnTopic
    <3>2. /\ bits' = bits /\ granted' = granted /\ confirmed' = confirmed
          /\ pending' = pending \/ Request("sub", app.topic)
      BY <2>6 DEF SendSubscribe, carrier, history
    <3> QED BY <3>1, <3>2, AskedAfterRequest DEF TopicsType
  <2>7. CASE SubscribeDone
    <3>1. app.topic \in Topics BY TopicListed, <2>7 DEF SubscribeDone, Table, OnTopic
    <3> QED BY <3>1, <2>7 DEF SubscribeDone, TopicsType, carrier, external
  <2>8. CASE SubscribeTimeout
    BY <2>8 DEF SubscribeTimeout, AppReturn, AppIdle, carrier, lifecycle, external, bounds,
      history, TopicsType
  <2>9. CASE SendUnsubscribe
    <3>1. app.topic \in Topics BY TopicListed, <2>9 DEF SendUnsubscribe, Table, OnTopic
    <3>2. /\ bits' = bits /\ granted' = granted /\ confirmed' \subseteq confirmed
          /\ pending' = pending \/ Request("unsub", app.topic)
      BY <2>9 DEF SendUnsubscribe, carrier, history
    <3> QED BY <3>1, <3>2, AskedAfterRequest DEF TopicsType
  <2>10. CASE Compact
    BY <2>10 DEF Compact, AppReturn, AppIdle, carrier, lifecycle, external, bounds, history,
      TopicsType
  <2>11. CASE ReconnectSeen
    BY <2>11 DEF ReconnectSeen, AppGoto, carrier, lifecycle, external, bounds, history,
      TopicsType
  <2>12. CASE ReconnectTimeout
    BY <2>12 DEF ReconnectTimeout, AppReturn, AppIdle, carrier, lifecycle, external, bounds,
      history, TopicsType
  <2>13. CASE ReconnectDone
    BY <2>13 DEF ReconnectDone, AppReturn, AppIdle, carrier, lifecycle, external, bounds,
      history, TopicsType
  <2>14. CASE PollOverflow
    BY <2>14 DEF PollOverflow, AppReturn, AppIdle, carrier, lifecycle, external, bounds,
      history, TopicsType
  <2>15. CASE PollLink
    BY <2>15 DEF PollLink, AppGoto, AppReturn, AppIdle, carrier, lifecycle, external,
      bounds, history, TopicsType
  <2>16. CASE PollReceive
    BY <2>16 DEF PollReceive, AppReturn, AppIdle, carrier, lifecycle, external, bounds,
      history, TopicsType
  <2> QED BY <1>2, <2>1, <2>2, <2>3, <2>4, <2>5, <2>6, <2>7, <2>8, <2>9, <2>10, <2>11, <2>12, <2>13, <2>14, <2>15, <2>16 DEF Return
<1>3. CASE HandleEvent
  <2>1. CASE CountConnect
    BY <2>1 DEF CountConnect, HandlerGoto, carrier, lifecycle, external, bounds, history,
      TopicsType
  <2>2. CASE SetUp
    BY <2>2 DEF SetUp, HandlerGoto, HandlerReturn, HandlerIdle, carrier, lifecycle,
      external, bounds, history, TopicsType
  <2>3. CASE ZeroAcks
    BY <2>3 DEF ZeroAcks, HandlerGoto, carrier, lifecycle, external, bounds, history,
      TopicsType
  <2>4. CASE ClearReadyAgain
    BY <2>4 DEF ClearReadyAgain, HandlerGoto, carrier, lifecycle, external, bounds, history,
      TopicsType
  <2>5. CASE Snapshot
    BY <2>5 DEF Snapshot, carrier, lifecycle, external, bounds, history, TopicsType
  <2>6. CASE Resubscribe
    <3>1. bits' = bits /\ granted' = granted /\ confirmed' = confirmed
      BY <2>6 DEF Resubscribe, carrier, history
    <3>2. CASE handler.todo = <<>> BY <3>1, <3>2, <2>6 DEF Resubscribe, TopicsType
    <3>3. CASE handler.todo # <<>>
      <4>1. Head(handler.todo) \in Topics BY <3>3, HeadTailProperties DEF HandlerType
      <4>2. pending' = pending \/ Request("sub", Head(handler.todo)) BY <3>3, <2>6 DEF Resubscribe
      <4> QED BY <3>1, <4>1, <4>2, AskedAfterRequest DEF TopicsType
    <3> QED BY <3>2, <3>3
  <2>7. CASE ClearUp
    BY <2>7 DEF ClearUp, HandlerReturn, HandlerIdle, carrier, lifecycle, external, bounds,
      history, TopicsType
  <2>8. CASE CountAck
    BY <2>8 DEF CountAck, carrier, lifecycle, external, bounds, history, TopicsType
  <2>9. CASE CompareAcks
    BY <2>9 DEF CompareAcks, HandlerGoto, HandlerReturn, HandlerIdle, carrier, lifecycle,
      external, bounds, history, TopicsType
  <2>10. CASE SetReady
    BY <2>10 DEF SetReady, HandlerReturn, HandlerIdle, carrier, lifecycle, external, bounds,
      history, TopicsType
  <2>11. CASE SetOverflow
    BY <2>11 DEF SetOverflow, HandlerReturn, HandlerIdle, carrier, lifecycle, external,
      bounds, history, TopicsType
  <2> QED BY <1>3, <2>1, <2>2, <2>3, <2>4, <2>5, <2>6, <2>7, <2>8, <2>9, <2>10, <2>11 DEF HandleEvent
<1>4. CASE LinkUp \/ LinkDown \/ Answer \/ \E v \in Verdicts : Deliver(v)
  <2>1. CASE LinkUp
    BY <2>1 DEF LinkUp, HandlerGoto, HandlerIdle, carrier, lifecycle, external, bounds,
      history, TopicsType
  <2>2. CASE LinkDown
    BY <2>2 DEF LinkDown, HandlerGoto, HandlerIdle, LinkGone, carrier, lifecycle, external,
      bounds, history, TopicsType
  <2>3. CASE Answer
    <3>1. /\ bits' = bits /\ confirmed' = confirmed /\ pending # <<>> /\ pending' = Tail(pending)
          /\ granted' = IF Head(pending).kind = "sub" THEN granted \cup {Head(pending).topic}
                                                      ELSE granted \ {Head(pending).topic}
      BY <2>3 DEF Answer, carrier, history
    <3>2. pending' \in Seq(Requests) /\ Head(pending) \in Requests
      BY <3>1, AskedAfterAnswer DEF TopicsType
    <3> QED BY <3>1, <3>2 DEF TopicsType, Requests
  <2>4. ASSUME NEW v \in Verdicts, Deliver(v) PROVE TopicsType'
    BY <2>4 DEF Deliver, HandlerGoto, HandlerIdle, carrier, lifecycle, external, bounds,
      history, TopicsType
  <2> QED BY <1>4, <2>1, <2>2, <2>3, <2>4
<1> QED BY <1>1, <1>2, <1>3, <1>4 DEF Next

LEMMA HandlerTypeStep ==
  ASSUME HandlerType, Counts, TableType, Next
  PROVE  HandlerType'
<1>1. CASE Call
  BY <1>1 DEF Call, NetworkPrepare, NetworkCleanup, ConfigureLastWill, Connect, Disconnect,
    Subscribe, Unsubscribe, ReconnectWait, Poll, ResetState, AppIdle, AppGoto, LinkGone,
    carrier, lifecycle, external, bounds, history, HandlerType, HandlerStep, Counts,
    TableType
<1>2. CASE Return
  BY <1>2 DEF Return, ConnectSeen, ConnectDone, ConnectTimeout, ReadPrior, ClearReady,
    SendSubscribe, SubscribeDone, SubscribeTimeout, SendUnsubscribe, Compact, ReconnectSeen,
    ReconnectTimeout, ReconnectDone, PollOverflow, PollLink, PollReceive, AppGoto,
    AppReturn, AppIdle, LinkGone, carrier, lifecycle, external, bounds, history,
    HandlerType, HandlerStep, Counts, TableType
<1>3. CASE HandleEvent
  <2>1. CASE CountConnect
    BY <2>1 DEF CountConnect, HandlerGoto, carrier, lifecycle, external, bounds, history,
      HandlerType, HandlerStep, Counts, TableType
  <2>2. CASE SetUp
    <3>1. CASE handler.step = "upAgain"
      BY <3>1, <2>2 DEF SetUp, HandlerGoto, HandlerType, HandlerStep
    <3>2. CASE ~(handler.step = "upAgain")
      <4>1. handler' = HandlerIdle BY <3>2, <2>2 DEF SetUp, HandlerReturn
      <4> QED BY <4>1, EmptySeq DEF HandlerIdle, HandlerType, HandlerStep
    <3> QED BY <3>1, <3>2
  <2>3. CASE ZeroAcks
    BY <2>3 DEF ZeroAcks, HandlerGoto, carrier, lifecycle, external, bounds, history,
      HandlerType, HandlerStep, Counts, TableType
  <2>4. CASE ClearReadyAgain
    BY <2>4 DEF ClearReadyAgain, HandlerGoto, carrier, lifecycle, external, bounds, history,
      HandlerType, HandlerStep, Counts, TableType
  <2>5. CASE Snapshot
    BY <2>5 DEF Snapshot, carrier, lifecycle, external, bounds, history, HandlerType,
      HandlerStep, Counts, TableType
  <2>6. CASE Resubscribe
    <3>1. CASE handler.todo = <<>>
      <4>1. handler' = HandlerIdle BY <3>1, <2>6 DEF Resubscribe, HandlerReturn
      <4> QED BY <4>1, EmptySeq DEF HandlerIdle, HandlerType, HandlerStep
    <3>2. CASE handler.todo # <<>>
      <4>1. Tail(handler.todo) \in Seq(Topics) BY <3>2, HeadTailProperties DEF HandlerType
      <4>2. handler' = [handler EXCEPT !.todo = Tail(handler.todo)] BY <3>2, <2>6 DEF Resubscribe
      <4> QED BY <4>1, <4>2 DEF HandlerType
    <3> QED BY <3>1, <3>2
  <2>7. CASE ClearUp
    BY <2>7 DEF ClearUp, HandlerReturn, HandlerIdle, carrier, lifecycle, external, bounds,
      history, HandlerType, HandlerStep, Counts, TableType
  <2>8. CASE CountAck
    <3>1. ack_count + 1 \in Nat BY DEF Counts
    <3>2. handler' = [handler EXCEPT !.step = "compare", !.acked = ack_count + 1] BY <2>8 DEF CountAck
    <3> QED BY <3>1, <3>2 DEF HandlerType, HandlerStep
  <2>9. CASE CompareAcks
    <3>1. CASE Len(subscriptions) > 0 /\ handler.acked >= Len(subscriptions)
      BY <3>1, <2>9 DEF CompareAcks, HandlerGoto, HandlerType, HandlerStep
    <3>2. CASE ~(Len(subscriptions) > 0 /\ handler.acked >= Len(subscriptions))
      <4>1. handler' = HandlerIdle BY <3>2, <2>9 DEF CompareAcks, HandlerReturn
      <4> QED BY <4>1, EmptySeq DEF HandlerIdle, HandlerType, HandlerStep
    <3> QED BY <3>1, <3>2
  <2>10. CASE SetReady
    BY <2>10 DEF SetReady, HandlerReturn, HandlerIdle, carrier, lifecycle, external, bounds,
      history, HandlerType, HandlerStep, Counts, TableType
  <2>11. CASE SetOverflow
    BY <2>11 DEF SetOverflow, HandlerReturn, HandlerIdle, carrier, lifecycle, external,
      bounds, history, HandlerType, HandlerStep, Counts, TableType
  <2> QED BY <1>3, <2>1, <2>2, <2>3, <2>4, <2>5, <2>6, <2>7, <2>8, <2>9, <2>10, <2>11 DEF HandleEvent
<1>4. CASE LinkUp \/ LinkDown \/ Answer \/ \E v \in Verdicts : Deliver(v)
  <2>1. CASE LinkUp
    BY <2>1 DEF LinkUp, HandlerGoto, HandlerIdle, carrier, lifecycle, external, bounds,
      history, HandlerType, HandlerStep, Counts, TableType
  <2>2. CASE LinkDown
    BY <2>2 DEF LinkDown, HandlerGoto, HandlerIdle, LinkGone, carrier, lifecycle, external,
      bounds, history, HandlerType, HandlerStep, Counts, TableType
  <2>3. CASE Answer
    BY <2>3 DEF Answer, HandlerGoto, HandlerIdle, carrier, lifecycle, external, bounds,
      history, HandlerType, HandlerStep, Counts, TableType
  <2>4. ASSUME NEW v \in Verdicts, Deliver(v) PROVE HandlerType'
    BY <2>4 DEF Deliver, HandlerGoto, HandlerIdle, carrier, lifecycle, external, bounds,
      history, HandlerType, HandlerStep, Counts, TableType
  <2> QED BY <1>4, <2>1, <2>2, <2>3, <2>4
<1> QED BY <1>1, <1>2, <1>3, <1>4 DEF Next

-------------------------------------------------------------------------------
(* Coverage.                                                               *)

(* A step that leaves the connection alone, owes no new topic and forgets  *)
(* none of the handler's work.                                             *)
LEMMA CoveredKept ==
  ASSUME Covered, UNCHANGED <<net, pending, granted, sendFails>>,
         \A t \in Topics : Owed(t)' => Owed(t),
         Reconnecting => Reconnecting', Left(handler) \subseteq Left(handler)'
  PROVE  Covered'
BY AskedKept DEF Covered

LEMMA CoveredStep ==
  ASSUME Lifetime, AppType, HandlerType, TableType, TopicsType, Lifecycle, Connection, Table, Covered, Next
  PROVE  Covered'
<1>1. CASE Call
  <2>1. CASE NetworkPrepare
    BY CoveredKept, <2>1 DEF NetworkPrepare, carrier, lifecycle, external, bounds, history,
      Owed, Reconnecting, Left
  <2>2. CASE NetworkCleanup
    BY CoveredKept, <2>2 DEF NetworkCleanup, ResetState, carrier, lifecycle, external,
      bounds, history, Owed, Reconnecting, Left
  <2>3. CASE ConfigureLastWill
    BY CoveredKept, <2>3 DEF ConfigureLastWill, carrier, lifecycle, external, bounds,
      history, Owed, Reconnecting, Left
  <2>4. CASE Connect
    BY CoveredKept, <2>4 DEF Connect, AppIdle, AppGoto, carrier, lifecycle, external,
      bounds, history, Owed, Reconnecting, Left
  <2>5. CASE Disconnect
    <3>1. CASE client = "none"
      BY <3>1, <2>5, CoveredKept DEF Disconnect, Owed, Reconnecting, Left, external, bounds
    <3>2. CASE client = "started"
      <4>1. net' = "down" BY <3>2, <2>5 DEF Disconnect, LinkGone
      <4> QED BY <4>1 DEF Covered
    <3> QED BY <3>1, <3>2, <2>5 DEF Disconnect
  <2>6. ASSUME NEW t \in Topics, Subscribe(t) PROVE Covered'
    BY CoveredKept, <2>6 DEF Subscribe, AppIdle, carrier, lifecycle, external, bounds,
      history, Owed, Reconnecting, Left
  <2>7. ASSUME NEW t \in Topics, Unsubscribe(t) PROVE Covered'
    BY CoveredKept, <2>7 DEF Unsubscribe, AppIdle, carrier, lifecycle, external, bounds,
      history, Owed, Reconnecting, Left
  <2>8. CASE ReconnectWait
    BY CoveredKept, <2>8 DEF ReconnectWait, AppIdle, carrier, lifecycle, external, bounds,
      history, Owed, Reconnecting, Left
  <2>9. CASE Poll
    BY CoveredKept, <2>9 DEF Poll, AppIdle, AppGoto, carrier, lifecycle, external, bounds,
      history, Owed, Reconnecting, Left
  <2> QED BY <1>1, <2>1, <2>2, <2>3, <2>4, <2>5, <2>6, <2>7, <2>8, <2>9 DEF Call
<1>2. CASE Return
  <2>1. CASE ConnectSeen
    BY CoveredKept, <2>1 DEF ConnectSeen, AppGoto, carrier, lifecycle, external, bounds,
      history, Owed, Reconnecting, Left
  <2>2. CASE ConnectDone
    BY CoveredKept, <2>2 DEF ConnectDone, AppReturn, AppIdle, carrier, lifecycle, external,
      bounds, history, Owed, Reconnecting, Left
  <2>3. CASE ConnectTimeout
    <3>1. net' = "down" BY <2>3 DEF ConnectTimeout, LinkGone
    <3> QED BY <3>1 DEF Covered
  <2>4. CASE ReadPrior
    BY CoveredKept, <2>4 DEF ReadPrior, carrier, lifecycle, external, bounds, history, Owed,
      Reconnecting, Left
  <2>5. CASE ClearReady
    BY CoveredKept, <2>5 DEF ClearReady, AppGoto, carrier, lifecycle, external, bounds,
      history, Owed, Reconnecting, Left
  <2>6. CASE SendSubscribe
    <3>1. app.topic \in Topics BY TopicListed, <2>6 DEF SendSubscribe, Table, OnTopic
    <3>2. CASE Request("sub", app.topic) /\ AppGoto("await")
      <4>1. /\ granted' = granted /\ net' = net /\ sendFails' = sendFails /\ confirmed' = confirmed
            /\ handler' = handler /\ app'.topic = app.topic
        BY <3>2, <2>6 DEF SendSubscribe, AppGoto, AppType, bounds, history
      <4>2. /\ AskedFor(app.topic)'
            /\ \A u \in Topics : u # app.topic /\ AskedFor(u) => AskedFor(u)'
        BY <3>1, <3>2, <4>1, AskedAfterRequest DEF TopicsType
      <4>3. (Reconnecting <=> Reconnecting') /\ Left(handler)' = Left(handler)
        BY <4>1 DEF Reconnecting, Left
      <4>4. \A t \in Topics : Owed(t)' => t = app.topic \/ Owed(t) BY <4>1 DEF Owed
      <4> QED BY <4>1, <4>2, <4>3, <4>4 DEF Covered
    <3>3. CASE AppReturn /\ UNCHANGED pending
      BY <3>3, <2>6, CoveredKept
      DEF SendSubscribe, AppReturn, AppIdle, Owed, Reconnecting, Left, bounds, history
    <3> QED BY <3>2, <3>3, <2>6 DEF SendSubscribe
  <2>7. CASE SubscribeDone
    BY CoveredKept, <2>7 DEF SubscribeDone, AppReturn, AppIdle, carrier, lifecycle,
      external, bounds, history, Owed, Reconnecting, Left
  <2>8. CASE SubscribeTimeout
    BY CoveredKept, <2>8 DEF SubscribeTimeout, AppReturn, AppIdle, carrier, lifecycle,
      external, bounds, history, Owed, Reconnecting, Left
  <2>9. CASE SendUnsubscribe
    <3>1. app.topic \in Topics BY TopicListed, <2>9 DEF SendUnsubscribe, Table, OnTopic
    <3>2. CASE Request("unsub", app.topic) /\ AppGoto("compact") /\ confirmed' = confirmed \ {app.topic}
      <4>1. /\ granted' = granted /\ net' = net /\ sendFails' = sendFails
            /\ handler' = handler /\ app'.step = "compact"
        BY <3>2, <2>9 DEF SendUnsubscribe, AppGoto, AppType, bounds
      <4>2. \A u \in Topics : u # app.topic /\ AskedFor(u) => AskedFor(u)'
        BY <3>1, <3>2, <4>1, AskedAfterRequest DEF TopicsType
      <4>3. (Reconnecting <=> Reconnecting') /\ Left(handler)' = Left(handler)
        BY <4>1 DEF Reconnecting, Left
      <4>4. \A t \in Topics : Owed(t)' => t # app.topic /\ Owed(t) BY <3>2, <4>1 DEF Owed
      <4> QED BY <4>1, <4>2, <4>3, <4>4 DEF Covered
    <3>3. CASE AppReturn /\ UNCHANGED <<pending, confirmed>>
      BY <3>3, <2>9, CoveredKept
      DEF SendUnsubscribe, AppReturn, AppIdle, Owed, Reconnecting, Left, bounds
    <3> QED BY <3>2, <3>3, <2>9 DEF SendUnsubscribe
  <2>10. CASE Compact
    BY CoveredKept, <2>10 DEF Compact, AppReturn, AppIdle, carrier, lifecycle, external,
      bounds, history, Owed, Reconnecting, Left
  <2>11. CASE ReconnectSeen
    BY CoveredKept, <2>11 DEF ReconnectSeen, AppGoto, carrier, lifecycle, external, bounds,
      history, Owed, Reconnecting, Left
  <2>12. CASE ReconnectTimeout
    BY CoveredKept, <2>12 DEF ReconnectTimeout, AppReturn, AppIdle, carrier, lifecycle,
      external, bounds, history, Owed, Reconnecting, Left
  <2>13. CASE ReconnectDone
    BY CoveredKept, <2>13 DEF ReconnectDone, AppReturn, AppIdle, carrier, lifecycle,
      external, bounds, history, Owed, Reconnecting, Left
  <2>14. CASE PollOverflow
    BY CoveredKept, <2>14 DEF PollOverflow, AppReturn, AppIdle, carrier, lifecycle,
      external, bounds, history, Owed, Reconnecting, Left
  <2>15. CASE PollLink
    <3>1. app' = AppIdle \/ app' = [app EXCEPT !.step = "receive"]
      BY <2>15 DEF PollLink, AppGoto, AppReturn
    <3>2. app'.step # "await" BY <3>1 DEF AppType, AppIdle
    <3> QED BY <3>2, <2>15, CoveredKept
      DEF PollLink, external, bounds, history, Owed, Reconnecting, Left
  <2>16. CASE PollReceive
    BY CoveredKept, <2>16 DEF PollReceive, AppReturn, AppIdle, carrier, lifecycle, external,
      bounds, history, Owed, Reconnecting, Left
  <2> QED BY <1>2, <2>1, <2>2, <2>3, <2>4, <2>5, <2>6, <2>7, <2>8, <2>9, <2>10, <2>11, <2>12, <2>13, <2>14, <2>15, <2>16 DEF Return
<1>3. CASE HandleEvent
  <2>1. CASE CountConnect
    <3>1. Reconnecting' BY <2>1 DEF CountConnect, HandlerGoto, Reconnecting, HandlerType
    <3> QED BY <3>1 DEF Covered
  <2>2. CASE SetUp
    <3>1. CASE handler.step = "upAgain"
      <4>1. Reconnecting' BY <3>1, <2>2 DEF SetUp, HandlerGoto, Reconnecting, HandlerType
      <4> QED BY <4>1 DEF Covered
    <3>2. CASE handler.step = "upFirst"
      <4>1. client = "started" BY <3>2 DEF Lifecycle, Lifetime, HandlerIdle
      <4>2. app.step = "connecting" /\ confirmed = {}
        BY <3>2, <4>1 DEF Connection, Lifecycle, Connecting
      <4>3. \A t : ~Owed(t)' BY <4>2, <2>2 DEF SetUp, Owed, history
      <4> QED BY <4>3 DEF Covered
    <3> QED BY <3>1, <3>2, <2>2 DEF SetUp
  <2>3. CASE ZeroAcks
    <3>1. Reconnecting' BY <2>3 DEF ZeroAcks, HandlerGoto, Reconnecting, HandlerType
    <3> QED BY <3>1 DEF Covered
  <2>4. CASE ClearReadyAgain
    <3>1. Reconnecting' BY <2>4 DEF ClearReadyAgain, HandlerGoto, Reconnecting, HandlerType
    <3> QED BY <3>1 DEF Covered
  <2>5. CASE Snapshot
    <3>1. handler' = [handler EXCEPT !.step = "resubscribe", !.todo = subscriptions]
      BY <2>5 DEF Snapshot
    <3>2. Left(handler)' = Listed BY <3>1 DEF Left, Listed, HandlerType
    <3>3. \A t : Owed(t)' => t \in Listed
      BY <2>5 DEF Snapshot, Owed, Table, OnTopic, history
    <3> QED BY <3>2, <3>3 DEF Covered
  <2>6. CASE Resubscribe
    <3>1. /\ granted' = granted /\ net' = net /\ sendFails' = sendFails /\ app' = app
          /\ confirmed' = confirmed
      BY <2>6 DEF Resubscribe, bounds, history
    <3>2. ~Reconnecting BY <2>6 DEF Resubscribe, Reconnecting
    <3>3. \A t : Owed(t)' <=> Owed(t) BY <3>1 DEF Owed
    <3>4. CASE handler.todo = <<>>
      <4>1. Left(handler) = {} /\ pending' = pending BY <3>4, <2>6 DEF Left, Resubscribe
      <4> QED BY <3>1, <3>2, <3>3, <4>1, AskedKept DEF Covered
    <3>5. CASE handler.todo # <<>> /\ sendFails BY <3>1, <3>5 DEF Covered
    <3>6. CASE handler.todo # <<>> /\ ~sendFails
      <4>1. /\ Request("sub", Head(handler.todo)) /\ Head(handler.todo) \in Topics
            /\ handler' = [handler EXCEPT !.todo = Tail(handler.todo)]
        BY <3>6, <2>6, HeadTailProperties DEF Resubscribe, HandlerType
      <4>a. PICK h \in Topics : h = Head(handler.todo) BY <4>1
      <4>2. AskedFor(h)' /\ \A u \in Topics : u # h /\ AskedFor(u) => AskedFor(u)'
        BY <3>1, <4>1, <4>a, AskedAfterRequest DEF TopicsType
      <4>3. \A t \in Left(handler) : t = Head(handler.todo) \/ t \in Left(handler)'
        <5> DEFINE todo == handler.todo
        <5>1. todo \in Seq(Topics) /\ todo # <<>> BY <3>6 DEF HandlerType
        <5>2. handler'.todo = Tail(todo) BY <4>1 DEF HandlerType
        <5> HIDE DEF todo
        <5>3. /\ Tail(todo) \in Seq(Topics) /\ Len(Tail(todo)) = Len(todo) - 1
              /\ \A i \in 1 .. (Len(todo) - 1) : Tail(todo)[i] = todo[i + 1]
              /\ Head(todo) = todo[1]
          BY <5>1, HeadTailProperties
        <5>4. Len(todo) \in Nat /\ DOMAIN todo = 1 .. Len(todo)
              /\ DOMAIN Tail(todo) = 1 .. (Len(todo) - 1)
          BY <5>1, <5>3, LenProperties
        <5>5. ASSUME NEW i \in DOMAIN todo, i # 1
              PROVE  i - 1 \in DOMAIN Tail(todo) /\ Tail(todo)[i - 1] = todo[i]
          BY <5>3, <5>4, <5>5
        <5>6. ASSUME NEW t \in Left(handler), t # Head(todo) PROVE t \in Left(handler)'
          <6>1. PICK i \in DOMAIN todo : t = todo[i] BY DEF Left, todo
          <6>2. i # 1 BY <5>3, <5>6, <6>1
          <6>3. i - 1 \in DOMAIN handler'.todo /\ handler'.todo[i - 1] = t
            BY <5>2, <5>5, <6>1, <6>2
          <6> QED BY <6>3 DEF Left
        <5> QED BY <5>6 DEF todo
      <4> QED BY <3>1, <3>2, <3>3, <4>a, <4>2, <4>3 DEF Covered
    <3> QED BY <3>4, <3>5, <3>6
  <2>7. CASE ClearUp
    <3>1. client = "started" BY <2>7 DEF ClearUp, Lifecycle, Lifetime, HandlerIdle
    <3>2. net' = "down" BY <3>1, <2>7 DEF ClearUp, Connection, Lifetime, external
    <3> QED BY <3>2 DEF Covered
  <2>8. CASE CountAck
    <3>1. ~Reconnecting /\ Left(handler) = {} BY <2>8 DEF CountAck, Reconnecting, Left, Connection
    <3> QED BY <3>1, <2>8, CoveredKept DEF CountAck, Owed, carrier, external, bounds, history
  <2>9. CASE CompareAcks
    <3>1. ~Reconnecting /\ Left(handler) = {} BY <2>9 DEF CompareAcks, Reconnecting, Left, Connection
    <3> QED BY <3>1, <2>9, CoveredKept DEF CompareAcks, Owed, carrier, external, bounds, history
  <2>10. CASE SetReady
    <3>1. ~Reconnecting /\ Left(handler) = {} BY <2>10 DEF SetReady, Reconnecting, Left, Connection
    <3> QED BY <3>1, <2>10, CoveredKept DEF SetReady, Owed, carrier, external, bounds, history
  <2>11. CASE SetOverflow
    <3>1. ~Reconnecting /\ Left(handler) = {} BY <2>11 DEF SetOverflow, Reconnecting, Left, Connection
    <3> QED BY <3>1, <2>11, CoveredKept DEF SetOverflow, Owed, carrier, external, bounds, history
  <2> QED BY <1>3, <2>1, <2>2, <2>3, <2>4, <2>5, <2>6, <2>7, <2>8, <2>9, <2>10, <2>11 DEF HandleEvent
<1>4. CASE LinkUp \/ LinkDown \/ Answer \/ \E v \in Verdicts : Deliver(v)
  <2>1. CASE LinkUp
    <3>1. Reconnecting' BY <2>1 DEF LinkUp, HandlerGoto, Reconnecting, HandlerType
    <3> QED BY <3>1 DEF Covered
  <2>2. CASE LinkDown
    <3>1. net' = "down" BY <2>2 DEF LinkDown, LinkGone
    <3> QED BY <3>1 DEF Covered
  <2>3. CASE Answer
    <3>1. /\ pending # <<>> /\ pending' = Tail(pending)
          /\ granted' = IF Head(pending).kind = "sub" THEN granted \cup {Head(pending).topic}
                                                      ELSE granted \ {Head(pending).topic}
          /\ net' = net /\ sendFails' = sendFails /\ app' = app /\ confirmed' = confirmed
          /\ handler = HandlerIdle
      BY <2>3 DEF Answer, bounds, history
    <3>2. \A t \in Topics : AskedFor(t) => AskedFor(t)' BY <3>1, AskedAfterAnswer DEF TopicsType
    <3>3. \A t : Owed(t)' <=> Owed(t) BY <3>1 DEF Owed
    <3>4. ~Reconnecting /\ Left(handler) = {} BY <3>1 DEF Reconnecting, Left, HandlerIdle
    <3> QED BY <3>1, <3>2, <3>3, <3>4 DEF Covered
  <2>4. ASSUME NEW v \in Verdicts, Deliver(v) PROVE Covered'
    <3>1. handler = HandlerIdle BY <2>4 DEF Deliver
    <3>2. ~Reconnecting /\ Left(handler) = {} BY <3>1 DEF Reconnecting, Left, HandlerIdle
    <3> QED BY <3>2, <2>4, CoveredKept DEF Deliver, Owed, external
  <2> QED BY <1>4, <2>1, <2>2, <2>3, <2>4
<1> QED BY <1>1, <1>2, <1>3, <1>4 DEF Next

-------------------------------------------------------------------------------
(* The theorems.                                                           *)

LEMMA InitCarrierInv == Init => CarrierInv
<1> SUFFICES ASSUME Init PROVE CarrierInv OBVIOUS
<1>1. Flags BY Zenon DEF Init, Flags
<1>2. Lifetime /\ Counts BY CarrierAssumption DEF Init, Lifetime, Counts
<1>3. AppType /\ HandlerType
  BY EmptySeq DEF Init, AppType, AppIdle, AppStep, HandlerType, HandlerIdle, HandlerStep
<1>4. <<>> \in Seq(Topics) /\ <<>> \in Seq(Nat) /\ <<>> \in Seq(Requests) /\ Len(<<>>) = 0
  BY EmptySeq
<1>5. TableType /\ QueueType /\ TopicsType
  BY <1>4, CarrierAssumption DEF Init, TableType, QueueType, TopicsType
<1>6. Lifecycle /\ Connection
  BY DEF Init, Lifecycle, Connection, AppIdle, HandlerIdle, Connecting, Polling, Restoring
<1>7. Table BY DEF Init, Table, Distinct, AppIdle, OnTopic
<1>8. Covered /\ OverflowReported BY DEF Init, Covered, OverflowReported
<1> QED BY <1>1, <1>2, <1>3, <1>5, <1>6, <1>7, <1>8, TypeParts DEF CarrierInv

LEMMA StepCarrierInv == CarrierInv /\ [Next]_vars => CarrierInv'
<1> SUFFICES ASSUME CarrierInv, [Next]_vars PROVE CarrierInv' OBVIOUS
<1>1. CASE Next
  <2>1. /\ Flags /\ Lifetime /\ Counts /\ AppType /\ HandlerType
        /\ TableType /\ QueueType /\ TopicsType
    BY TypeParts DEF CarrierInv
  <2>2. TypeOK'
    <3>1. Flags' /\ Lifetime' /\ Counts' /\ AppType' /\ HandlerType'
      BY <1>1, <2>1, FlagsStep, LifetimeStep, CountsStep, AppTypeStep, HandlerTypeStep
    <3>2. TableType' /\ QueueType' /\ TopicsType'
      BY <1>1, <2>1, TableTypeStep, QueueTypeStep, TopicsTypeStep DEF CarrierInv
    <3>3. (TypeOK <=> /\ Flags /\ Lifetime /\ Counts /\ AppType /\ HandlerType
                      /\ TableType /\ QueueType /\ TopicsType)'
      BY TypeParts, PTL
    <3> QED BY <3>1, <3>2, <3>3
  <2> QED BY <1>1, <2>1, <2>2, LifecycleStep, ConnectionStep, TableStep, CoveredStep, OverflowStep
          DEF CarrierInv
<1>2. CASE UNCHANGED vars
  <2>1. TypeOK' /\ OverflowReported'
    BY <1>2 DEF CarrierInv, TypeOK, OverflowReported, vars, carrier, lifecycle, external, bounds, history
  <2>2. Lifecycle' /\ Connection'
    BY <1>2 DEF CarrierInv, Lifecycle, Connection, vars, carrier, lifecycle, external, history
  <2>3. Table' BY <1>2 DEF CarrierInv, Table, Distinct, Listed, vars, carrier, history
  <2>4. Covered'
    BY <1>2, CoveredKept
    DEF CarrierInv, Owed, Reconnecting, Left, vars, external, bounds, history
  <2> QED BY <2>1, <2>2, <2>3, <2>4 DEF CarrierInv
<1> QED BY <1>1, <1>2

(* The five parts hold together in every state the carrier reaches.        *)
THEOREM CarrierInvariant == Spec => []CarrierInv
BY InitCarrierInv, StepCarrierInv, PTL DEF Spec

(* Every variable keeps its type, and the subscription table and the event *)
(* queue their capacities, whichever of the two tasks steps.               *)
THEOREM TypeCorrect == Spec => []TypeOK
<1>1. CarrierInv => TypeOK BY DEF CarrierInv
<1> QED BY CarrierInvariant, <1>1, PTL

(* An event network_mqtt_event drops for lack of room is reported by a     *)
(* later poll, whichever bits the two tasks set and clear in between.      *)
THEOREM OverflowReportedHolds == Spec => []OverflowReported
<1>1. CarrierInv => OverflowReported BY DEF CarrierInv
<1> QED BY CarrierInvariant, <1>1, PTL

(* A topic whose subscribe call returned success stays in the table once,  *)
(* and is asked for on every connection the library makes, as long as the  *)
(* library takes requests on a live connection.                            *)
THEOREM ConfirmedCoveredHolds == Spec => [](~sendFails => ConfirmedCovered)
<1>1. CarrierInv => (~sendFails => ConfirmedCovered)
  <2>1. ASSUME CarrierInv, ~sendFails PROVE ConfirmedCovered
    <3>1. confirmed \subseteq Topics BY <2>1 DEF CarrierInv, TypeOK
    <3>2. \A t \in confirmed : t \in Listed BY <2>1 DEF CarrierInv, Table
    <3>3. \A t \in confirmed : net = "up" => AskedFor(t) \/ Reconnecting \/ t \in Left(handler)
      BY <2>1, <3>1 DEF CarrierInv, Covered, Owed
    <3>4. \A i, j \in DOMAIN subscriptions : subscriptions[i] = subscriptions[j] => i = j
      BY <2>1 DEF CarrierInv, Table, Distinct
    <3> QED BY <3>2, <3>3, <3>4 DEF ConfirmedCovered
  <2> QED BY <2>1
<1> QED BY CarrierInvariant, <1>1, PTL

(* axoloty_mqtt_reconnect_wait's condition, connected and ready together,  *)
(* means that every confirmed topic was requested on this very connection: *)
(* a ready bit of an earlier connection is never taken for it.             *)
THEOREM ReadyMeansRestoredHolds == Spec => [](~sendFails => ReadyMeansRestored)
<1>1. CarrierInv => (~sendFails => ReadyMeansRestored)
  <2>1. ASSUME CarrierInv, ~sendFails, {"up", "ready"} \subseteq bits, net = "up",
               NEW t \in confirmed
        PROVE  AskedFor(t)
    <3>1. client = "started" BY <2>1 DEF CarrierInv, Lifecycle, TypeOK
    <3>2. handler.step \notin Restoring BY <2>1, <3>1 DEF CarrierInv, Connection
    <3>3. ~Reconnecting /\ Left(handler) = {}
      BY <2>1, <3>2 DEF CarrierInv, Connection, Reconnecting, Restoring, Left
    <3>4. t \in Topics /\ Owed(t) BY <2>1 DEF CarrierInv, TypeOK, Owed
    <3> QED BY <2>1, <3>3, <3>4 DEF CarrierInv, Covered
  <2> QED BY <2>1 DEF ReadyMeansRestored
<1> QED BY CarrierInvariant, <1>1, PTL
================================================================================
