------------------------- MODULE NetworkBootstrapProofs --------------------------
(***************************************************************************)
(* What NetworkBootstrap guarantees for every retry budget and any number  *)
(* of sessions, link losses and forced reconnects.                         *)
(***************************************************************************)
EXTENDS NetworkBootstrap, SequenceTheorems, TLAPS

(* x is somewhere in the sequence s. *)
In(x, s) == \E i \in 1 .. Len(s) : s[i] = x

(* x is nowhere in s but at its end. *)
LastOnly(x, s) == \A i \in 1 .. Len(s) : s[i] = x => i = Len(s)

Events == {"start", "gotip", "disconnected", "stop"}
DriverRequests == {"start", "connect", "disconnect", "stop"}

Serving == {"waitUp", "up", "force", "waitDown", "delay", "waitAgain"}
Cleaning == {"leave", "waitLeft", "stop", "waitStopped", "unregister", "deinit", "release"}

AllNames == BuiltUpTo(Len(Stages))
Handlers == {"wifiHandler", "ipHandler"}

(* What exists is noted, but for a left-over driver, and what is noted
   exists until the cleanup takes it down. *)
Noted ==
  /\ built \subseteq known \cup {"wifi"}
  /\ step \notin {"deinit", "release"} => known \ {"started"} \subseteq built
  /\ "wifi" \in built /\ "wifi" \notin known => leaked
  /\ "started" \in known => "wifi" \in known
  /\ step \in Serving => known = AllNames
  /\ step = "failed" => known = {} \/ known = AllNames
  /\ step = "down" => known = {}

(* What only runs, and only holds something, while what it needs exists. *)
Layout ==
  /\ Noted
  /\ step = "down" => ~transport /\ ~forced
  /\ step \in {"deinit", "release"} => built \cap Handlers = {}
  /\ handler # "none" => built \cap Handlers # {}
  /\ cleaning => step \in Cleaning
  /\ "loop" \notin built => queue = <<>>
  /\ "events" \notin built => bits = {}
  /\ ~leaked /\ ~Started => radio = "off" /\ requests = <<>>
  /\ ~leaked /\ step = "release" => radio = "off" /\ requests = <<>> /\ "wifi" \notin built
  /\ HandlerNeedsGroup

(* The driver's stop is the last request of a session, and once it is
   reported the driver has stopped and stays so; but for a left-over driver. *)
StopIsLast ==
  /\ LastOnly("stop", requests)
  /\ In("stop", requests) => step \in {"waitStopped", "unregister", "deinit"}
  /\ In("stop", queue) \/ handler = "stopped" \/ "stopped" \in bits =>
        /\ step \in {"waitStopped", "unregister", "deinit", "release"}
        /\ radio = "off" /\ requests = <<>>

(* A cleanup that is still complete past its waits left a stopped driver. *)
Verdict ==
  /\ ~leaked /\ step \in {"unregister", "deinit"} /\ complete => radio = "off" /\ requests = <<>>
  /\ step \notin Cleaning \ {"release"} /\ busy => ~complete

(* An idle driver is about to be asked to connect, or the failure is about
   to be reported. *)
Repairing ==
  step \in {"waitUp", "up", "waitAgain"} /\ radio = "idle" /\ ~leaked /\ ~refused =>
    \/ "fail" \in bits \/ handler \in {"connect", "fail"}
    \/ In("connect", requests) \/ In("start", queue) \/ In("disconnected", queue)

NetInv == TypeOK /\ Layout /\ (~leaked => StopIsLast) /\ Verdict /\ Repairing

-------------------------------------------------------------------------------
(* Facts about the queues.                                                 *)

\* The stages and the resources they build, written out.
LEMMA StageNames ==
  /\ Len(Stages) = 7 /\ DOMAIN Stages = 1 .. 7
  /\ Stages[1] = "loop" /\ Stages[2] = "events" /\ Stages[3] = "netif" /\ Stages[4] = "wifi"
  /\ Stages[5] = "wifiHandler" /\ Stages[6] = "ipHandler" /\ Stages[7] = "started"
  BY DEF Stages

LEMMA ResourceNames ==
  /\ Resources = {"loop", "events", "netif", "wifi", "wifiHandler", "ipHandler"}
  /\ AllNames = Resources \cup {"started"}
<1>1. \A r : r \in Resources <=> \E i \in 1 .. 6 : r = Stages[i] BY DEF Resources, BuiltUpTo
<1>2. \A r : r \in AllNames <=> \E i \in 1 .. 7 : r = Stages[i] BY StageNames DEF AllNames, BuiltUpTo
<1>3. Resources = {"loop", "events", "netif", "wifi", "wifiHandler", "ipHandler"}
  BY <1>1, StageNames
<1>4. AllNames = {"loop", "events", "netif", "wifi", "wifiHandler", "ipHandler", "started"}
  BY <1>2, StageNames
<1> QED BY <1>3, <1>4

\* A partial bring-up registers handlers only on top of what they use.
LEMMA BuiltPrefix ==
  ASSUME NEW n \in DOMAIN Stages
  PROVE  /\ BuiltUpTo(n) \subseteq AllNames /\ "loop" \in BuiltUpTo(n)
         /\ BuiltUpTo(n) \cap Handlers # {} => {"loop", "events", "wifi"} \subseteq BuiltUpTo(n)
         /\ n = Len(Stages) => BuiltUpTo(n) = AllNames
         /\ n # Len(Stages) => "started" \notin BuiltUpTo(n)
<1>1. n \in 1 .. 7 BY StageNames
<1>2. \A r : r \in BuiltUpTo(n) <=> \E i \in 1 .. n : r = Stages[i] BY DEF BuiltUpTo
<1>3. BuiltUpTo(n) \subseteq AllNames BY <1>1, StageNames DEF AllNames, BuiltUpTo
<1>4. "loop" \in BuiltUpTo(n) BY <1>1, <1>2, StageNames
<1>5. ASSUME BuiltUpTo(n) \cap Handlers # {} PROVE n >= 5
  BY <1>1, <1>2, <1>5, StageNames DEF Handlers
<1>6. n >= 5 => {"loop", "events", "wifi"} \subseteq BuiltUpTo(n) BY <1>1, <1>2, StageNames
<1>7. n = 7 => BuiltUpTo(n) = AllNames BY StageNames DEF AllNames
<1>8. n # 7 => "started" \notin BuiltUpTo(n) BY <1>1, <1>2, StageNames
<1> QED BY <1>3, <1>4, <1>5, <1>6, <1>7, <1>8, StageNames

\* Membership in a queue that grows at its end and shrinks at its head.
LEMMA InEmpty == \A x : ~In(x, <<>>) BY DEF In

LEMMA InAppend ==
  ASSUME NEW S, NEW s \in Seq(S), NEW e \in S, NEW x
  PROVE  In(x, Append(s, e)) <=> In(x, s) \/ x = e
<1>1. Append(s, e) \in Seq(S) /\ Len(Append(s, e)) = Len(s) + 1 /\ Append(s, e)[Len(s) + 1] = e
      /\ \A i \in 1 .. Len(s) : Append(s, e)[i] = s[i]
  BY AppendProperties
<1>2. Len(s) \in Nat OBVIOUS
<1> QED BY <1>1, <1>2 DEF In

LEMMA InTail ==
  ASSUME NEW S, NEW s \in Seq(S), s # <<>>, NEW x
  PROVE  In(x, s) <=> In(x, Tail(s)) \/ x = Head(s)
<1>1. /\ Tail(s) \in Seq(S) /\ Len(Tail(s)) = Len(s) - 1
      /\ \A i \in 1 .. Len(Tail(s)) : Tail(s)[i] = s[i + 1]
  BY HeadTailProperties
<1>2. Head(s) = s[1] /\ Len(s) \in Nat /\ Len(s) >= 1 OBVIOUS
<1>3. ASSUME In(x, s) PROVE In(x, Tail(s)) \/ x = Head(s)
  <2>1. PICK i \in 1 .. Len(s) : s[i] = x BY <1>3 DEF In
  <2>2. CASE i = 1 BY <1>2, <2>1, <2>2
  <2>3. CASE i # 1
    <3>1. i - 1 \in 1 .. Len(Tail(s)) /\ (i - 1) + 1 = i BY <1>1, <1>2, <2>1, <2>3
    <3>2. Tail(s)[i - 1] = x BY <1>1, <2>1, <3>1
    <3> QED BY <3>1, <3>2 DEF In
  <2> QED BY <2>2, <2>3
<1>4. ASSUME In(x, Tail(s)) PROVE In(x, s)
  <2>1. PICK i \in 1 .. Len(Tail(s)) : Tail(s)[i] = x BY <1>4 DEF In
  <2>2. i + 1 \in 1 .. Len(s) /\ s[i + 1] = x BY <1>1, <1>2, <2>1
  <2> QED BY <2>2 DEF In
<1>5. x = Head(s) => In(x, s) BY <1>2 DEF In
<1> QED BY <1>3, <1>4, <1>5

\* The events the driver posts are one or two at a time.
LEMMA InConcat ==
  ASSUME NEW S, NEW s \in Seq(S), NEW t \in Seq(S), NEW x
  PROVE  In(x, s \o t) <=> In(x, s) \/ In(x, t)
<1>1. s \o t \in Seq(S) /\ Len(s \o t) = Len(s) + Len(t)
      /\ \A i \in 1 .. Len(s) + Len(t) :
           (s \o t)[i] = IF i <= Len(s) THEN s[i] ELSE t[i - Len(s)]
  BY ConcatProperties
<1>2. Len(s) \in Nat /\ Len(t) \in Nat OBVIOUS
<1>3. ASSUME In(x, s \o t) PROVE In(x, s) \/ In(x, t)
  <2>1. PICK i \in 1 .. Len(s) + Len(t) : (s \o t)[i] = x BY <1>1, <1>3 DEF In
  <2>2. CASE i <= Len(s) BY <1>1, <1>2, <2>1, <2>2 DEF In
  <2>3. CASE i > Len(s)
    <3>1. i - Len(s) \in 1 .. Len(t) /\ t[i - Len(s)] = x BY <1>1, <1>2, <2>1, <2>3
    <3> QED BY <3>1 DEF In
  <2> QED BY <1>2, <2>2, <2>3
<1>4. ASSUME In(x, s) PROVE In(x, s \o t)
  <2>1. PICK i \in 1 .. Len(s) : s[i] = x BY <1>4 DEF In
  <2>2. i \in 1 .. Len(s \o t) /\ (s \o t)[i] = x BY <1>1, <1>2, <2>1
  <2> QED BY <2>2 DEF In
<1>5. ASSUME In(x, t) PROVE In(x, s \o t)
  <2>1. PICK i \in 1 .. Len(t) : t[i] = x BY <1>5 DEF In
  <2>2. i + Len(s) \in 1 .. Len(s) + Len(t) /\ ~(i + Len(s) <= Len(s)) /\ (i + Len(s)) - Len(s) = i
    BY <1>2, <2>1
  <2>3. (s \o t)[i + Len(s)] = x BY <1>1, <2>1, <2>2
  <2> QED BY <1>1, <2>2, <2>3 DEF In
<1> QED BY <1>3, <1>4, <1>5

\* A request behind which nothing is put stays the last one.
LEMMA LastOnlyAppend ==
  ASSUME NEW S, NEW s \in Seq(S), NEW e \in S, NEW x, ~In(x, s)
  PROVE  LastOnly(x, Append(s, e))
<1>1. Len(Append(s, e)) = Len(s) + 1 /\ \A i \in 1 .. Len(s) : Append(s, e)[i] = s[i]
  BY AppendProperties
<1>2. Len(s) \in Nat OBVIOUS
<1> QED BY <1>1, <1>2 DEF In, LastOnly

LEMMA LastOnlyTail ==
  ASSUME NEW S, NEW s \in Seq(S), s # <<>>, NEW x, LastOnly(x, s)
  PROVE  LastOnly(x, Tail(s)) /\ (Head(s) = x => Tail(s) = <<>>)
<1>1. /\ Tail(s) \in Seq(S) /\ Len(Tail(s)) = Len(s) - 1
      /\ \A i \in 1 .. Len(Tail(s)) : Tail(s)[i] = s[i + 1]
  BY HeadTailProperties
<1>2. Head(s) = s[1] /\ Len(s) \in Nat /\ Len(s) >= 1 OBVIOUS
<1>0. \A i \in 1 .. Len(s) : s[i] = x => i = Len(s) BY DEF LastOnly
<1>3. LastOnly(x, Tail(s))
  <2> SUFFICES ASSUME NEW i \in 1 .. Len(Tail(s)), Tail(s)[i] = x PROVE i = Len(Tail(s))
    BY DEF LastOnly
  <2>1. i + 1 \in 1 .. Len(s) /\ s[i + 1] = x BY <1>1, <1>2
  <2>2. i + 1 = Len(s) BY <1>0, <2>1
  <2> DEFINE m == Len(s)  k == Len(Tail(s))
  <2>5. i \in Int /\ i + 1 = m BY <2>2
  <2>3. k = m - 1 /\ m \in Nat BY <1>1, <1>2
  <2> HIDE DEF m, k
  <2>4. i = k BY <2>3, <2>5
  <2> QED BY <2>4 DEF k
<1>4. ASSUME Head(s) = x PROVE Len(Tail(s)) = 0
  <2>1. 1 \in 1 .. Len(s) /\ s[1] = x BY <1>2, <1>4
  <2>2. 1 = Len(s) BY <1>0, <2>1
  <2> DEFINE m == Len(s)  k == Len(Tail(s))
  <2>3. k = m - 1 /\ m = 1 BY <1>1, <2>2
  <2> HIDE DEF m, k
  <2>4. k = 0 BY <2>3
  <2> QED BY <2>4 DEF k
<1> QED BY <1>1, <1>3, <1>4, EmptySeq

LEMMA InSingle == \A x, a : In(x, <<a>>) <=> x = a
  BY DEF In

\* Posted events end up in the loop's queue when there is a loop.
LEMMA PostEffect ==
  ASSUME queue \in Seq(Events), NEW es \in Seq(Events), Post(es)
  PROVE  /\ queue' \in Seq(Events)
         /\ "loop" \notin built => queue' = queue
         /\ "loop" \in built => \A x : In(x, queue') <=> In(x, queue) \/ In(x, es)
         /\ \A x : In(x, queue') => In(x, queue) \/ In(x, es)
  BY ConcatProperties, InConcat DEF Post

-------------------------------------------------------------------------------
(* Types.                                                                  *)

(* The flags apart from the rest: the provers treat them differently. *)
FlagsType ==
  /\ transport \in BOOLEAN /\ forced \in BOOLEAN /\ cleaning \in BOOLEAN
  /\ complete \in BOOLEAN /\ timely \in BOOLEAN /\ busy \in BOOLEAN
  /\ leaked \in BOOLEAN /\ refused \in BOOLEAN

Steps ==
  {"down", "waitUp", "up", "failed", "force", "waitDown", "delay", "waitAgain", "teardown",
   "leave", "waitLeft", "stop", "waitStopped", "unregister", "deinit", "release"}

DataType ==
  /\ step \in Steps /\ back \in {"down", "failed"}
  /\ built \subseteq Resources /\ known \subseteq AllNames
  /\ retry \in 0..MaxRetries /\ bits \subseteq {"ip", "fail", "stopped"}
  /\ queue \in Seq(Events)
  /\ handler \in {"none", "connect", "fail", "ip", "stopped"}
  /\ radio \in {"off", "idle", "joining", "joined"}
  /\ requests \in Seq(DriverRequests)
  /\ sessions \in 0..MaxSessions /\ losses \in 0..MaxLosses /\ forcings \in 0..MaxForced

LEMMA TypeParts == TypeOK <=> FlagsType /\ DataType
  BY Zenon DEF TypeOK, FlagsType, DataType, Events, DriverRequests, Steps, AllNames

LEMMA FlagsStep == FlagsType /\ [Next]_vars => FlagsType'
<1> SUFFICES ASSUME FlagsType, [Next]_vars PROVE FlagsType' OBVIOUS
<1> USE DEF FlagsType, shared, bounds, history
<1>1. CASE Bringup
  BY <1>1, Zenon DEF Bringup, PrepareRefused, Prepare, PrepareDone, PrepareGivesUp, Reset
<1>2. CASE Reconnect
  BY <1>2, Zenon DEF Reconnect, ReconnectStart, ReconnectForce, ReconnectDown, ReconnectAgain,
               ReconnectDone, ReconnectFails
<1>3. CASE CleanupCall \/ CleanupStart \/ CleanupUnregister
  BY <1>3, Zenon DEF CleanupCall, CleanupStart, CleanupUnregister
<1>4. CASE CleanupDisconnect \/ CleanupStop
  BY <1>4, Zenon DEF CleanupDisconnect, CleanupStop
<1>5. CASE CleanupLeft \/ CleanupStopped
  BY <1>5, Zenon DEF CleanupLeft, CleanupStopped, Report
<1>6. CASE CleanupDeinit BY <1>6, Zenon DEF CleanupDeinit
<1>7. CASE CleanupRelease BY <1>7, Zenon DEF CleanupRelease, Reset
<1>8. CASE EventTask BY <1>8, Zenon DEF EventTask, Dispatch, HandlerActs
<1>9. CASE Driver BY <1>9, Zenon DEF Driver, DriverTakes, Join, LinkLost
<1>10. CASE UNCHANGED vars BY <1>10, Zenon DEF vars
<1> QED BY <1>1, <1>2, <1>3, <1>4, <1>5, <1>6, <1>7, <1>8, <1>9, <1>10 DEF Next, Cleanup

LEMMA InitType == Init => TypeOK
<1> SUFFICES ASSUME Init PROVE TypeOK OBVIOUS
<1>1. FlagsType BY Zenon DEF Init, FlagsType
<1>2. DataType BY NetworkBootstrapAssumption DEF Init, DataType, Steps
<1> QED BY <1>1, <1>2, TypeParts

LEMMA DataStep == DataType /\ [Next]_vars => DataType'
<1> SUFFICES ASSUME DataType, [Next]_vars PROVE DataType' OBVIOUS
<1> USE NetworkBootstrapAssumption DEF Steps, made
<1>0. ASSUME NEW r \in DriverRequests, Request(r) PROVE requests' \in Seq(DriverRequests)
  BY <1>0 DEF Request, DataType, DriverRequests
<1>1. CASE PrepareRefused BY <1>1 DEF PrepareRefused, Reset, DataType, driver
<1>2. ASSUME NEW n \in DOMAIN Stages, Prepare(n) PROVE DataType'
  <2>1. built' \subseteq Resources /\ known' \subseteq AllNames
    BY <1>2, BuiltPrefix DEF Prepare, Known, DataType
  <2>2. requests' \in Seq(DriverRequests)
    BY <1>0, <1>2 DEF Prepare, DataType, DriverRequests
  <2>3. /\ step' \in {"waitUp", "teardown"} /\ back' \in {"down", "failed"}
        /\ bits' = {} /\ queue' = <<>> /\ sessions' \in 0 .. MaxSessions /\ retry' = 0
    BY <1>2 DEF Prepare, Reset, DataType
  <2> QED BY <1>2, <2>1, <2>2, <2>3 DEF Prepare, DataType, DriverRequests
<1>3. CASE PrepareDone \/ PrepareGivesUp \/ ReconnectDone \/ CleanupCall
  BY <1>3 DEF PrepareDone, PrepareGivesUp, ReconnectDone, CleanupCall, DataType, shared, driver, bounds
<1>4. CASE ReconnectStart \/ ReconnectFails \/ ReconnectDown
  <2>1. forcings' \in 0 .. MaxForced
    BY <1>4 DEF ReconnectStart, ReconnectFails, ReconnectDown, DataType, bounds
  <2>2. bits' \subseteq bits /\ step' \in {"force", "failed", "delay"}
    BY <1>4 DEF ReconnectStart, ReconnectFails, ReconnectDown
  <2> QED BY <1>4, <2>1, <2>2
          DEF ReconnectStart, ReconnectFails, ReconnectDown, DataType, driver, bounds
<1>5. CASE ReconnectForce \/ ReconnectAgain
  <2>1. requests' \in Seq(DriverRequests)
    BY <1>0, <1>5 DEF ReconnectForce, ReconnectAgain, DriverRequests
  <2> QED BY <1>5, <2>1 DEF ReconnectForce, ReconnectAgain, DataType, DriverRequests, shared, bounds
<1>6. CASE CleanupStart
  BY <1>6 DEF CleanupStart, KeptHandlers, DataType, driver, bounds
<1>7. CASE CleanupDisconnect \/ CleanupStop
  <2>1. requests' \in Seq(DriverRequests)
    BY <1>0, <1>7 DEF CleanupDisconnect, CleanupStop, DriverRequests, DataType
  <2>3. step' \in {"waitLeft", "stop", "waitStopped", "unregister"}
    BY <1>7 DEF CleanupDisconnect, CleanupStop
  <2> QED BY <1>7, <2>1, <2>3
          DEF CleanupDisconnect, CleanupStop, DataType, DriverRequests, shared, bounds
<1>8. CASE CleanupLeft \/ CleanupStopped
  BY <1>8 DEF CleanupLeft, CleanupStopped, Report, DataType, shared, driver, bounds
<1>9. CASE CleanupUnregister
  BY <1>9 DEF CleanupUnregister, DataType, shared, driver, bounds
<1>10. CASE CleanupDeinit
  <2>1. built' \subseteq built /\ known' = known /\ step' = "release"
    BY <1>10, Zenon DEF CleanupDeinit, made
  <2>2. UNCHANGED driver \/ (radio' = "off" /\ requests' = <<>>)
    BY <1>10, Zenon DEF CleanupDeinit
  <2>3. radio' \in {"off", "idle", "joining", "joined"} /\ requests' \in Seq(DriverRequests)
    <3>1. CASE UNCHANGED driver BY <3>1 DEF DataType, driver
    <3>2. CASE radio' = "off" /\ requests' = <<>> BY <3>2
    <3> QED BY <2>2, <3>1, <3>2
  <2>4. UNCHANGED <<back, retry, bits, queue, handler, sessions, losses, forcings>>
    BY <1>10 DEF CleanupDeinit, shared, bounds
  <2> QED BY <2>1, <2>3, <2>4 DEF DataType
<1>11. CASE CleanupRelease
  <2>1. /\ built' \subseteq built /\ known' = {} /\ step' = back /\ retry' = 0
        /\ bits' \subseteq bits /\ (queue' = queue \/ queue' = <<>>)
    BY <1>11 DEF CleanupRelease, Reset
  <2>2. UNCHANGED <<back, handler, radio, requests, sessions, losses, forcings>>
    BY <1>11 DEF CleanupRelease, driver, bounds
  <2>3. queue' \in Seq(Events)
    <3>1. queue \in Seq(Events) /\ <<>> \in Seq(Events) BY DEF DataType
    <3> QED BY <2>1, <3>1
  <2>4. /\ step' \in Steps /\ built' \subseteq Resources /\ known' \subseteq AllNames
        /\ retry' \in 0..MaxRetries /\ bits' \subseteq {"ip", "fail", "stopped"}
    BY <2>1 DEF DataType
  <2> QED BY <2>2, <2>3, <2>4 DEF DataType
<1>12. CASE Dispatch
  <2>1. queue' \in Seq(Events) BY <1>12, HeadTailProperties DEF Dispatch, DataType, Events
  <2>2. handler' \in {"none", "connect", "fail", "ip", "stopped"}
    BY <1>12 DEF Dispatch, OnIp, OnWifi, OnDisconnected, DataType
  <2>3. retry' \in 0 .. MaxRetries
    BY <1>12 DEF Dispatch, OnIp, OnWifi, OnDisconnected, DataType
  <2> QED BY <1>12, <2>1, <2>2, <2>3 DEF Dispatch, DataType, Events, driver, bounds
<1>13. CASE HandlerActs
  <2>1. requests' \in Seq(DriverRequests)
    BY <1>0, <1>13 DEF HandlerActs, DriverRequests, DataType
  <2>2. bits' \subseteq {"ip", "fail", "stopped"} BY <1>13 DEF HandlerActs, DataType
  <2> QED BY <1>13, <2>1, <2>2 DEF HandlerActs, DataType, DriverRequests, bounds
<1>14. CASE DriverTakes
  <2>1. requests' \in Seq(DriverRequests)
    BY <1>14, HeadTailProperties DEF DriverTakes, DataType, DriverRequests
  <2>2. radio' \in {"off", "idle", "joining", "joined"} BY <1>14 DEF DriverTakes, DataType
  <2>3. /\ <<"start">> \in Seq(Events) /\ <<"disconnected">> \in Seq(Events)
        /\ <<"disconnected", "stop">> \in Seq(Events) /\ <<"stop">> \in Seq(Events)
        /\ queue \in Seq(Events)
    BY DEF Events, DataType
  <2>4. queue' \in Seq(Events) BY <1>14, <2>3, PostEffect DEF DriverTakes
  <2> QED BY <1>14, <2>1, <2>2, <2>4 DEF DriverTakes, DataType, DriverRequests, Events, shared, bounds
<1>15. CASE Join \/ LinkLost
  <2>1. <<"gotip">> \in Seq(Events) /\ <<"disconnected">> \in Seq(Events) /\ queue \in Seq(Events)
    BY DEF Events, DataType
  <2>2. queue' \in Seq(Events) BY <1>15, <2>1, PostEffect DEF Join, LinkLost
  <2>3. losses' \in 0 .. MaxLosses BY <1>15 DEF Join, LinkLost, DataType, bounds
  <2> QED BY <1>15, <2>2, <2>3 DEF Join, LinkLost, DataType, Events, shared, bounds
<1>16. CASE UNCHANGED vars
  BY <1>16 DEF vars, DataType, shared, driver, bounds
<1> QED BY <1>1, <1>2, <1>3, <1>4, <1>5, <1>6, <1>7, <1>8, <1>9, <1>10, <1>11, <1>12, <1>13,
           <1>14, <1>15, <1>16 DEF Next, Bringup, Reconnect, Cleanup, EventTask, Driver

LEMMA StepType == TypeOK /\ [Next]_vars => TypeOK'
<1>1. (TypeOK <=> FlagsType /\ DataType)' BY TypeParts, PTL
<1> QED BY <1>1, TypeParts, FlagsStep, DataStep

(* Every variable keeps its type: the retry count within its budget, and   *)
(* only known events and requests in the queues.                           *)
THEOREM TypeCorrect == Spec => []TypeOK
  BY InitType, StepType, PTL DEF Spec

-------------------------------------------------------------------------------
(* The layout of a session.                                                *)

LEMMA InitLayout == Init => Layout
  BY DEF Init, Noted, Layout, Started, HandlerNeedsGroup, Serving, Cleaning, Handlers

LEMMA NotedStep == FlagsType /\ DataType /\ Layout /\ [Next]_vars => Noted'
<1> SUFFICES ASSUME FlagsType, DataType, Layout, [Next]_vars PROVE Noted' OBVIOUS
<1> USE DEF Layout, Noted, Serving, made, history
<1>1. CASE PrepareRefused BY <1>1 DEF PrepareRefused
<1>2. ASSUME NEW n \in DOMAIN Stages, Prepare(n) PROVE Noted'
  <2>1. /\ known' = BuiltUpTo(n) /\ built' = built \cup (BuiltUpTo(n) \cap Resources)
        /\ built \subseteq {"wifi"} /\ ("wifi" \in built => leaked) /\ leaked' = leaked
    BY <1>2 DEF Prepare, Known
  <2>2. BuiltUpTo(n) \ {"started"} \subseteq Resources BY BuiltPrefix, ResourceNames
  <2>3. "wifi" \in Resources BY ResourceNames
  <2>4. "started" \in known' => "wifi" \in known' BY <2>1, BuiltPrefix, ResourceNames
  <2>7. built' \subseteq known' \cup {"wifi"} /\ known' \ {"started"} \subseteq built' BY <2>1, <2>2
  <2>8. "wifi" \in built' /\ "wifi" \notin known' => leaked' BY <2>1
  <2>5. CASE n = Len(Stages)
    <3>1. step' = "waitUp" BY <1>2, <2>5 DEF Prepare
    <3>2. known' = AllNames BY <2>1, <2>5 DEF AllNames
    <3> QED BY <2>4, <2>7, <2>8, <3>1, <3>2
  <2>6. CASE n # Len(Stages)
    <3>1. step' = "teardown" BY <1>2, <2>6 DEF Prepare
    <3> QED BY <2>4, <2>7, <2>8, <3>1
  <2> QED BY <2>5, <2>6
<1>3. CASE PrepareDone \/ PrepareGivesUp \/ Reconnect \/ CleanupCall
  BY <1>3 DEF PrepareDone, PrepareGivesUp, Reconnect, ReconnectStart, ReconnectForce, ReconnectDown,
              ReconnectAgain, ReconnectDone, ReconnectFails, CleanupCall
<1>4. CASE CleanupStart BY <1>4 DEF CleanupStart, KeptHandlers
<1>5. CASE CleanupDisconnect \/ CleanupStop \/ CleanupLeft \/ CleanupStopped
  BY <1>5 DEF CleanupDisconnect, CleanupStop, CleanupLeft, CleanupStopped
<1>6. CASE CleanupUnregister BY <1>6 DEF CleanupUnregister
<1>7. CASE CleanupDeinit BY <1>7 DEF CleanupDeinit
<1>8. CASE CleanupRelease
  <2>1. /\ built' \subseteq {"wifi"} \cup Handlers /\ built' \subseteq built
        /\ known' = {} /\ leaked' = leaked /\ step' \in {"down", "failed"}
    BY <1>8, ResourceNames DEF CleanupRelease, DataType, Handlers
  <2>2. built' \subseteq {"wifi"} /\ ("wifi" \in built' => leaked)
    BY <1>8, <2>1 DEF CleanupRelease
  <2> QED BY <2>1, <2>2
<1>9. CASE EventTask BY <1>9 DEF EventTask, Dispatch, HandlerActs
<1>10. CASE Driver BY <1>10 DEF Driver, DriverTakes, Join, LinkLost
<1>11. CASE UNCHANGED vars BY <1>11 DEF vars
<1> QED BY <1>1, <1>2, <1>3, <1>4, <1>5, <1>6, <1>7, <1>8, <1>9, <1>10, <1>11
        DEF Next, Bringup, Cleanup

LEMMA LayoutStep == FlagsType /\ DataType /\ Layout /\ [Next]_vars => Layout'
<1> SUFFICES ASSUME FlagsType, DataType, Layout, [Next]_vars PROVE Layout' OBVIOUS
<1>0. Noted' BY NotedStep
<1> USE <1>0 DEF Layout, Started, HandlerNeedsGroup, Cleaning, made, history
<1>1. CASE PrepareRefused BY <1>1 DEF PrepareRefused, Reset, driver, Noted
<1>2. ASSUME NEW n \in DOMAIN Stages, Prepare(n) PROVE Layout'
  <2>1. /\ built \subseteq {"wifi"} /\ built' = built \cup (BuiltUpTo(n) \cap Resources)
        /\ known' = BuiltUpTo(n) /\ "started" \notin known /\ leaked' = leaked
        /\ handler' = "none" /\ ~cleaning' /\ bits' = {} /\ queue' = <<>>
    BY <1>2 DEF Prepare, Reset, Noted, Known, Handlers
  <2>2. "loop" \in built' BY <2>1, BuiltPrefix, ResourceNames
  <2>3. built' \cap Handlers # {} => {"loop", "events", "wifi"} \subseteq built'
    BY <2>1, BuiltPrefix, ResourceNames DEF Handlers
  <2>4. "wifiHandler" \in built' \/ "ipHandler" \in built' => {"loop", "events", "wifi"} \subseteq built'
    BY <2>3 DEF Handlers
  <2>5. step' \in {"waitUp", "teardown"} BY <1>2 DEF Prepare
  <2>6. ~leaked' /\ "started" \notin known' => radio' = "off" /\ requests' = <<>>
    BY <1>2, <2>1, BuiltPrefix, ResourceNames DEF Prepare
  <2> QED BY <2>1, <2>2, <2>4, <2>5, <2>6
<1>3. CASE PrepareDone \/ PrepareGivesUp \/ ReconnectDone \/ CleanupCall
  BY <1>3 DEF PrepareDone, PrepareGivesUp, ReconnectDone, CleanupCall, shared, driver, bounds
<1>4. CASE ReconnectStart \/ ReconnectFails \/ ReconnectDown
  BY <1>4 DEF ReconnectStart, ReconnectFails, ReconnectDown, driver, bounds
<1>5. CASE ReconnectForce \/ ReconnectAgain
  <2>1. "started" \in known
    BY <1>5, ResourceNames DEF ReconnectForce, ReconnectAgain, Noted, Serving
  <2> QED BY <1>5, <2>1 DEF ReconnectForce, ReconnectAgain, shared, bounds
<1>6. CASE CleanupStart BY <1>6 DEF CleanupStart, KeptHandlers, driver, bounds
<1>7. CASE CleanupDisconnect \/ CleanupStop
  BY <1>7 DEF CleanupDisconnect, CleanupStop, shared, bounds
<1>8. CASE CleanupLeft \/ CleanupStopped
  BY <1>8 DEF CleanupLeft, CleanupStopped, Report, shared, driver, bounds
<1>9. CASE CleanupUnregister BY <1>9 DEF CleanupUnregister, shared, driver, bounds, Noted, Handlers
<1>10. CASE CleanupDeinit BY <1>10 DEF CleanupDeinit, shared, driver, bounds, Noted, Handlers
<1>11. CASE CleanupRelease
  <2>1. /\ step' \in {"down", "failed"} /\ ~transport' /\ ~forced' /\ ~cleaning'
        /\ handler' = "none" /\ leaked' = leaked /\ built' \cap Handlers = {}
    BY <1>11 DEF CleanupRelease, Reset, DataType, Handlers
  <2>2. ("loop" \notin built' => queue' = <<>>) /\ ("events" \notin built' => bits' = {})
    BY <1>11 DEF CleanupRelease, Noted
  <2>3. ~leaked' => radio' = "off" /\ requests' = <<>> BY <1>11 DEF CleanupRelease, driver
  <2> QED BY <2>1, <2>2, <2>3 DEF Handlers
<1>12. CASE Dispatch
  <2>1. handler' # "none" => built \cap Handlers # {}
    BY <1>12 DEF Dispatch, Handlers
  <2>2. "loop" \in built BY <1>12 DEF Dispatch
  <2> QED BY <1>12, <2>1, <2>2 DEF Dispatch, driver, bounds
<1>13. CASE HandlerActs
  <2>1. radio = "off" => requests' = requests BY <1>13 DEF HandlerActs, Stopping
  <2>2. "events" \in built BY <1>13 DEF HandlerActs, Handlers
  <2> QED BY <1>13, <2>1, <2>2 DEF HandlerActs, bounds
<1>14. CASE DriverTakes \/ Join \/ LinkLost
  <2>1. leaked \/ ("started" \in known /\ step # "release")
    BY <1>14 DEF DriverTakes, Join, LinkLost, Linked
  <2>2. "loop" \notin built => queue' = queue BY <1>14 DEF DriverTakes, Join, LinkLost, Post
  <2> QED BY <1>14, <2>1, <2>2 DEF DriverTakes, Join, LinkLost, shared, bounds
<1>15. CASE UNCHANGED vars BY <1>15 DEF vars, shared, driver, bounds
<1> QED BY <1>1, <1>2, <1>3, <1>4, <1>5, <1>6, <1>7, <1>8, <1>9, <1>10, <1>11, <1>12, <1>13,
           <1>14, <1>15 DEF Next, Bringup, Reconnect, Cleanup, EventTask, Driver

\* Nothing is left when the application is down.
LEMMA LayoutClean == DataType /\ Layout => DownIsClean
<1> SUFFICES ASSUME DataType, Layout, step = "down" PROVE DownIsClean BY DEF DownIsClean
<1>1. /\ built \subseteq {"wifi"} /\ known = {} /\ ("wifi" \in built => leaked)
      /\ "loop" \notin built /\ "events" \notin built /\ built \cap Handlers = {}
  BY DEF Layout, Noted, Handlers
<1>2. ~transport /\ ~forced /\ ~cleaning /\ handler = "none" /\ queue = <<>> /\ bits = {}
  BY <1>1 DEF Layout, Cleaning
<1>3. ~leaked => built = {} /\ radio = "off" /\ requests = <<>> BY <1>1 DEF Layout, Started
<1> QED BY <1>1, <1>2, <1>3 DEF DownIsClean

-------------------------------------------------------------------------------
(* The stop request and its report.                                        *)

LEMMA InitStop == Init => StopIsLast
  BY DEF Init, StopIsLast, LastOnly, In

\* A request put behind a queue without a stop.
LEMMA RequestEffect ==
  ASSUME DataType, NEW r \in DriverRequests, Request(r)
  PROVE  /\ \A x : In(x, requests') <=> In(x, requests) \/ x = r
         /\ ~In("stop", requests) => LastOnly("stop", requests')
         /\ requests' # <<>>
  BY InAppend, LastOnlyAppend, AppendProperties DEF Request, DataType

\* A request taken off the head.
LEMMA TakeEffect ==
  ASSUME DataType, requests # <<>>, requests' = Tail(requests)
  PROVE  /\ \A x : In(x, requests) <=> In(x, requests') \/ x = Head(requests)
         /\ LastOnly("stop", requests) => LastOnly("stop", requests')
         /\ LastOnly("stop", requests) /\ Head(requests) = "stop" => requests' = <<>>
         /\ Head(requests) \in DriverRequests
  BY InTail, LastOnlyTail, HeadTailProperties DEF DataType

\* An event taken off the head.
LEMMA DispatchEffect ==
  ASSUME DataType, queue # <<>>, queue' = Tail(queue)
  PROVE  /\ \A x : In(x, queue) <=> In(x, queue') \/ x = Head(queue)
         /\ Head(queue) \in Events
  BY InTail, HeadTailProperties DEF DataType

LEMMA NoStopPosted ==
  ~In("stop", <<"start">>) /\ ~In("stop", <<"disconnected">>) /\ ~In("stop", <<"gotip">>)
  BY DEF In

\* Only the driver's deinitialization leaves a driver over or gets rid of it.
LEMMA LeakedStays == [Next]_vars => CleanupDeinit \/ leaked' = leaked
<1> SUFFICES ASSUME [Next]_vars, ~CleanupDeinit PROVE leaked' = leaked OBVIOUS
<1> USE DEF history
<1>1. CASE Bringup BY <1>1 DEF Bringup, PrepareRefused, Prepare, PrepareDone, PrepareGivesUp
<1>2. CASE Reconnect \/ CleanupCall
  BY <1>2 DEF Reconnect, ReconnectStart, ReconnectForce, ReconnectDown, ReconnectAgain,
              ReconnectDone, ReconnectFails, CleanupCall
<1>3. CASE Cleanup
  BY <1>3 DEF Cleanup, CleanupStart, CleanupDisconnect, CleanupLeft, CleanupStop, CleanupStopped,
              CleanupUnregister, CleanupRelease
<1>4. CASE EventTask BY <1>4 DEF EventTask, Dispatch, HandlerActs
<1>5. CASE Driver BY <1>5 DEF Driver, DriverTakes, Join, LinkLost
<1>6. CASE UNCHANGED vars BY <1>6 DEF vars
<1> QED BY <1>1, <1>2, <1>3, <1>4, <1>5, <1>6 DEF Next

LEMMA StopDeinit ==
  DataType /\ Layout /\ (~leaked => StopIsLast) /\ CleanupDeinit => (~leaked' => StopIsLast')
<1> SUFFICES ASSUME DataType, Layout, ~leaked => StopIsLast, CleanupDeinit, ~leaked' PROVE StopIsLast'
  OBVIOUS
<1>1. radio' = "off" /\ requests' = <<>>
  <2>1. CASE "wifi" \notin known
    <3>3. UNCHANGED <<built, driver, complete, leaked>> BY <2>1, Zenon DEF CleanupDeinit
    <3>1. ~leaked /\ UNCHANGED driver BY <3>3
    <3>2. "started" \notin known BY <2>1 DEF Layout, Noted
    <3> QED BY <3>1, <3>2 DEF Layout, Started, driver
  <2>2. CASE "wifi" \in known BY <2>2, Zenon DEF CleanupDeinit
  <2> QED BY <2>1, <2>2
<1>2. step' = "release" BY Zenon DEF CleanupDeinit
<1> QED BY <1>1, <1>2, InEmpty DEF StopIsLast, LastOnly

LEMMA StopStep ==
  DataType /\ Layout /\ (~leaked => StopIsLast) /\ [Next]_vars => (~leaked' => StopIsLast')
<1> SUFFICES ASSUME DataType, Layout, ~leaked, StopIsLast, [Next]_vars, ~CleanupDeinit
             PROVE  StopIsLast'
  BY StopDeinit, LeakedStays
<1> USE DEF StopIsLast, made, history
<1>1. CASE PrepareRefused BY <1>1 DEF PrepareRefused, driver
<1>2. ASSUME NEW n \in DOMAIN Stages, Prepare(n) PROVE StopIsLast'
  <2>1. ~In("stop", requests) /\ handler' # "stopped" /\ bits' = {} /\ queue' = <<>>
    BY <1>2 DEF Prepare, Layout, Handlers, Noted
  <2>2. CASE n = Len(Stages)
    BY <1>2, <2>1, <2>2, RequestEffect, InEmpty DEF Prepare, DriverRequests
  <2>3. CASE n # Len(Stages) BY <1>2, <2>1, <2>3, InEmpty DEF Prepare
  <2> QED BY <2>2, <2>3
<1>3. CASE PrepareDone \/ PrepareGivesUp \/ ReconnectDone \/ CleanupCall
  BY <1>3 DEF PrepareDone, PrepareGivesUp, ReconnectDone, CleanupCall, shared, driver
<1>4. CASE ReconnectStart \/ ReconnectFails \/ ReconnectDown
  BY <1>4 DEF ReconnectStart, ReconnectFails, ReconnectDown, driver
<1>5. CASE ReconnectForce \/ ReconnectAgain
  <2>1. ~In("stop", requests) BY <1>5 DEF ReconnectForce, ReconnectAgain
  <2> QED BY <1>5, <2>1, RequestEffect DEF ReconnectForce, ReconnectAgain, shared, DriverRequests
<1>6. CASE CleanupStart BY <1>6 DEF CleanupStart, driver
<1>7. CASE CleanupDisconnect
  <2>1. ~In("stop", requests) BY <1>7 DEF CleanupDisconnect
  <2> QED BY <1>7, <2>1, RequestEffect DEF CleanupDisconnect, shared, DriverRequests
<1>8. CASE CleanupStop
  <2>1. ~In("stop", requests) BY <1>8 DEF CleanupStop
  <2> QED BY <1>8, <2>1, RequestEffect DEF CleanupStop, shared, DriverRequests
<1>9. CASE CleanupLeft \/ CleanupStopped
  BY <1>9 DEF CleanupLeft, CleanupStopped, shared, driver
<1>10. CASE CleanupUnregister BY <1>10 DEF CleanupUnregister, shared, driver
<1>12. CASE CleanupRelease
  <2>1. handler' = "none" /\ requests' = <<>>
    BY <1>12 DEF CleanupRelease, Layout, driver
  <2>2. queue' = <<>> /\ bits' = {}
    <3>1. "loop" \notin known => queue = <<>> BY DEF Layout, Noted
    <3>2. "events" \notin known => bits = {} BY DEF Layout, Noted
    <3> QED BY <1>12, <3>1, <3>2 DEF CleanupRelease
  <2> QED BY <2>1, <2>2, InEmpty DEF LastOnly
<1>13. CASE Dispatch
  <2>1. /\ \A x : In(x, queue') => In(x, queue)
        /\ handler' = "stopped" => In("stop", queue)
    BY <1>13, DispatchEffect DEF Dispatch, OnIp, OnWifi, OnDisconnected
  <2> QED BY <1>13, <2>1 DEF Dispatch, driver
<1>14. CASE HandlerActs
  <2>1. "stopped" \in bits' => "stopped" \in bits \/ handler = "stopped" BY <1>14 DEF HandlerActs
  <2>2. CASE UNCHANGED requests BY <1>14, <2>1, <2>2 DEF HandlerActs
  <2>3. CASE handler = "connect" /\ ~Stopping /\ Request("connect")
    <3>1. radio # "off" /\ ~In("stop", requests) BY <2>3 DEF Stopping, In, DataType
    <3>2. ~("stopped" \in bits') /\ ~(handler' = "stopped") BY <1>14, <2>1, <2>3, <3>1 DEF HandlerActs
    <3> QED BY <1>14, <2>3, <3>1, <3>2, RequestEffect DEF HandlerActs, DriverRequests
  <2> QED BY <1>14, <2>2, <2>3 DEF HandlerActs
<1>15. CASE DriverTakes
  <2>1. /\ requests # <<>> /\ requests' = Tail(requests)
        /\ UNCHANGED <<step, handler, bits>>
    BY <1>15 DEF DriverTakes, shared
  <2>2. ~In("stop", queue) /\ handler # "stopped" /\ "stopped" \notin bits BY <2>1
  <2>3. CASE Head(requests) = "stop"
    <3>1. radio' = "off" /\ requests' = <<>> BY <1>15, <2>1, <2>3, TakeEffect DEF DriverTakes
    <3>2. step \in {"waitStopped", "unregister", "deinit"} BY <2>1, <2>3, TakeEffect
    <3> QED BY <2>1, <3>1, <3>2, TakeEffect
  <2>4. CASE Head(requests) # "stop"
    <3>1. queue \in Seq(Events) /\ <<"start">> \in Seq(Events) /\ <<"disconnected">> \in Seq(Events)
      BY DEF DataType, Events
    <3>2. ~In("stop", queue')
      <4>1. UNCHANGED queue \/ Post(<<"start">>) \/ Post(<<"disconnected">>)
        BY <1>15, <2>4 DEF DriverTakes
      <4>2. CASE UNCHANGED queue BY <2>2, <4>2
      <4>3. CASE Post(<<"start">>) BY <2>2, <3>1, <4>3, PostEffect, NoStopPosted
      <4>4. CASE Post(<<"disconnected">>) BY <2>2, <3>1, <4>4, PostEffect, NoStopPosted
      <4> QED BY <4>1, <4>2, <4>3, <4>4
    <3> QED BY <2>1, <2>2, <3>2, TakeEffect
  <2> QED BY <2>3, <2>4
<1>16. CASE Join \/ LinkLost
  <2>1. queue \in Seq(Events) /\ <<"gotip">> \in Seq(Events) /\ <<"disconnected">> \in Seq(Events)
    BY DEF DataType, Events
  <2>2. radio # "off" BY <1>16 DEF Join, LinkLost, Linked
  <2>3. ~In("stop", queue')
    <3>1. CASE Post(<<"gotip">>) BY <2>1, <2>2, <3>1, PostEffect, NoStopPosted
    <3>2. CASE Post(<<"disconnected">>) BY <2>1, <2>2, <3>2, PostEffect, NoStopPosted
    <3> QED BY <1>16, <3>1, <3>2 DEF Join, LinkLost
  <2> QED BY <1>16, <2>2, <2>3 DEF Join, LinkLost, shared
<1>17. CASE UNCHANGED vars BY <1>17 DEF vars, shared, driver
<1> QED BY <1>1, <1>2, <1>3, <1>4, <1>5, <1>6, <1>7, <1>8, <1>9, <1>10, <1>12, <1>13,
           <1>14, <1>15, <1>16, <1>17 DEF Next, Bringup, Reconnect, Cleanup, EventTask, Driver

-------------------------------------------------------------------------------
(* The verdict of a cleanup.                                               *)

LEMMA InitVerdict == Init => Verdict
  BY DEF Init, Verdict

LEMMA VerdictStep ==
  FlagsType /\ DataType /\ Layout /\ (~leaked => StopIsLast) /\ Verdict /\ [Next]_vars => Verdict'
<1> SUFFICES ASSUME FlagsType, DataType, Layout, ~leaked => StopIsLast, Verdict, [Next]_vars
             PROVE  Verdict'
  OBVIOUS
<1> USE DEF Verdict, Cleaning, made, history
<1>1. CASE Bringup
  BY <1>1 DEF Bringup, PrepareRefused, Prepare, PrepareDone, PrepareGivesUp, shared, driver
<1>2. CASE Reconnect
  BY <1>2 DEF Reconnect, ReconnectStart, ReconnectForce, ReconnectDown, ReconnectAgain,
              ReconnectDone, ReconnectFails
<1>3. CASE CleanupCall \/ CleanupStart BY <1>3 DEF CleanupCall, CleanupStart
<1>4. CASE CleanupDisconnect \/ CleanupLeft BY <1>4 DEF CleanupDisconnect, CleanupLeft
<1>5. CASE CleanupStop BY <1>5 DEF CleanupStop, Layout
<1>6. CASE CleanupStopped BY <1>6 DEF CleanupStopped, Report, StopIsLast, driver
<1>7. CASE CleanupUnregister BY <1>7 DEF CleanupUnregister, driver
<1>8. CASE CleanupDeinit
  <2>1. step' = "release" /\ (busy' => UNCHANGED complete) BY <1>8, Zenon DEF CleanupDeinit
  <2>2. busy' => ~leaked /\ (radio # "off" \/ requests # <<>>) BY <1>8, Zenon DEF CleanupDeinit
  <2>3. step = "deinit" BY <1>8, Zenon DEF CleanupDeinit
  <2>4. step \in {"unregister", "deinit"} /\ step' \notin {"unregister", "deinit"} BY <2>1, <2>3
  <2>5. busy' => ~complete'
    <3>1. ~leaked /\ complete => radio = "off" /\ requests = <<>> BY <2>4, Zenon
    <3> QED BY <2>1, <2>2, <3>1, Zenon
  <2> QED BY <2>4, <2>5, Zenon
<1>9. CASE CleanupRelease BY <1>9 DEF CleanupRelease, DataType
<1>10. CASE Dispatch BY <1>10 DEF Dispatch, driver
<1>11. CASE HandlerActs BY <1>11 DEF HandlerActs, Stopping
<1>12. CASE DriverTakes BY <1>12 DEF DriverTakes
<1>13. CASE Join \/ LinkLost BY <1>13 DEF Join, LinkLost, Linked
<1>14. CASE UNCHANGED vars BY <1>14 DEF vars, driver
<1> QED BY <1>1, <1>2, <1>3, <1>4, <1>5, <1>6, <1>7, <1>8, <1>9, <1>10, <1>11, <1>12, <1>13,
           <1>14 DEF Next, Cleanup, EventTask, Driver

-------------------------------------------------------------------------------
(* The repair of a lost link.                                              *)

LEMMA InitRepairing == Init => Repairing
  BY DEF Init, Repairing

LEMMA RepairStep ==
  DataType /\ Layout /\ Repairing /\ [Next]_vars => Repairing'
<1> SUFFICES ASSUME DataType, Layout, Repairing, [Next]_vars PROVE Repairing' OBVIOUS
<1> USE DEF Repairing, made, history
<1>1. CASE Bringup
  <2>1. CASE \E n \in DOMAIN Stages : Prepare(n)
    <3>1. leaked' = leaked BY <2>1 DEF Prepare
    <3>2. ~leaked => radio' = "off" BY <2>1 DEF Prepare, Layout, Noted, Started
    <3> QED BY <3>1, <3>2
  <2>2. CASE PrepareDone BY <2>2 DEF PrepareDone, shared, driver
  <2>3. CASE PrepareRefused \/ PrepareGivesUp BY <2>3 DEF PrepareRefused, PrepareGivesUp
  <2> QED BY <1>1, <2>1, <2>2, <2>3 DEF Bringup
<1>2. CASE ReconnectStart \/ ReconnectForce \/ ReconnectDown \/ ReconnectFails
  BY <1>2 DEF ReconnectStart, ReconnectForce, ReconnectDown, ReconnectFails
<1>3. CASE ReconnectAgain BY <1>3, RequestEffect DEF ReconnectAgain, DriverRequests
<1>4. CASE ReconnectDone BY <1>4 DEF ReconnectDone, shared, driver
<1>5. CASE CleanupCall \/ Cleanup
  <2>1. step' \notin {"waitUp", "up", "waitAgain"}
    BY <1>5 DEF CleanupCall, Cleanup, CleanupStart, CleanupDisconnect, CleanupLeft, CleanupStop,
                CleanupStopped, CleanupUnregister, CleanupDeinit, CleanupRelease, DataType
  <2> QED BY <2>1
<1>6. ASSUME step \in {"waitUp", "up", "waitAgain"}
      PROVE  "loop" \in built /\ "wifiHandler" \in built /\ ~cleaning
  <2>1. known \ {"started"} \subseteq built /\ known = AllNames /\ ~cleaning
    BY <1>6 DEF Layout, Noted, Serving, Cleaning
  <2> QED BY <2>1, ResourceNames
<1>7. CASE Dispatch
  <2> SUFFICES ASSUME step \in {"waitUp", "up", "waitAgain"}, radio = "idle" PROVE Repairing'
    BY <1>7 DEF Dispatch, driver
  <2>1. /\ queue # <<>> /\ queue' = Tail(queue) /\ handler = "none"
        /\ UNCHANGED <<requests, bits>>
    BY <1>7 DEF Dispatch, driver
  <2>2. Head(queue) \in {"start", "disconnected"} => handler' \in {"connect", "fail"}
    BY <1>6, <1>7 DEF Dispatch, OnWifi, OnDisconnected
  <2>3. Head(queue) \notin {"start", "disconnected"} =>
          /\ In("start", queue) <=> In("start", queue')
          /\ In("disconnected", queue) <=> In("disconnected", queue')
    BY <2>1, DispatchEffect
  <2> QED BY <1>7, <2>1, <2>2, <2>3 DEF Dispatch
<1>8. CASE HandlerActs
  <2> SUFFICES ASSUME step \in {"waitUp", "up", "waitAgain"}, radio = "idle" PROVE Repairing'
    BY <1>8 DEF HandlerActs
  <2>2. CASE handler = "connect"
    <3>1. refused' \/ Request("connect") BY <1>8, <2>2 DEF HandlerActs
    <3>2. Request("connect") => In("connect", requests') BY RequestEffect DEF DriverRequests
    <3> QED BY <3>1, <3>2
  <2>3. CASE handler # "connect" BY <1>8, <2>3 DEF HandlerActs
  <2> QED BY <2>2, <2>3
<1>9. CASE DriverTakes
  <2> SUFFICES ASSUME step \in {"waitUp", "up", "waitAgain"}, radio' = "idle" PROVE Repairing'
    BY <1>9 DEF DriverTakes
  <2>1. requests # <<>> /\ requests' = Tail(requests) /\ UNCHANGED <<bits, handler>>
    BY <1>9 DEF DriverTakes, shared
  <2>2. queue \in Seq(Events) /\ <<"start">> \in Seq(Events) /\ <<"disconnected">> \in Seq(Events)
    BY DEF DataType, Events
  <2>3. CASE Post(<<"start">>)
    <3>1. In("start", queue') BY <1>6, <2>2, <2>3, PostEffect, InSingle
    <3> QED BY <3>1
  <2>4. CASE Post(<<"disconnected">>)
    <3>1. In("disconnected", queue') BY <1>6, <2>2, <2>4, PostEffect, InSingle
    <3> QED BY <3>1
  <2>5. CASE Head(requests) \in {"connect", "disconnect"} /\ UNCHANGED <<radio, queue>>
    <3>1. Head(requests) # "connect" BY <1>9, <2>5 DEF DriverTakes
    <3>2. In("connect", requests) => In("connect", requests') BY <2>1, <3>1, TakeEffect
    <3> QED BY <1>9, <2>1, <2>5, <3>2 DEF DriverTakes
  <2>6. CASE Head(requests) = "start" /\ UNCHANGED <<radio, queue>>
    <3>1. In("connect", requests) => In("connect", requests') BY <2>1, <2>6, TakeEffect
    <3> QED BY <1>9, <2>1, <2>6, <3>1 DEF DriverTakes
  <2>7. Head(requests) = "connect" => radio' # "idle" BY <1>9 DEF DriverTakes
  <2> QED BY <1>9, <2>3, <2>4, <2>5, <2>6, <2>7 DEF DriverTakes
<1>10. CASE Join BY <1>10 DEF Join
<1>11. CASE LinkLost
  <2> SUFFICES ASSUME step \in {"waitUp", "up", "waitAgain"} PROVE Repairing'
    BY <1>11 DEF LinkLost
  <2>1. queue \in Seq(Events) /\ <<"disconnected">> \in Seq(Events) BY DEF DataType, Events
  <2>2. In("disconnected", queue') BY <1>6, <1>11, <2>1, PostEffect, InSingle DEF LinkLost
  <2> QED BY <2>2
<1>12. CASE UNCHANGED vars BY <1>12 DEF vars, shared, driver
<1> QED BY <1>1, <1>2, <1>3, <1>4, <1>5, <1>7, <1>8, <1>9, <1>10, <1>11, <1>12
        DEF Next, Reconnect, EventTask, Driver

-------------------------------------------------------------------------------
(* The inductive invariant and what follows from it.                       *)

LEMMA InitNet == Init => NetInv
  BY InitType, InitLayout, InitStop, InitVerdict, InitRepairing DEF NetInv

LEMMA NetStep == NetInv /\ [Next]_vars => NetInv'
  BY TypeParts, StepType, LayoutStep, StopStep, VerdictStep, RepairStep DEF NetInv

LEMMA NetInvariant == Spec => []NetInv
  BY InitNet, NetStep, PTL DEF Spec

(* Every flag and pointer agrees with what exists, so that each cleanup    *)
(* releases exactly what bring-up reached, called once or twice: when      *)
(* axoloty_network_cleanup has returned to a caller that is down, no       *)
(* resource, registration, event, request or flag of the session is left,  *)
(* but for a driver whose esp_wifi_deinit failed.                          *)
THEOREM DownIsCleanHolds == Spec => []DownIsClean
<1>1. NetInv => DownIsClean BY TypeParts, LayoutClean DEF NetInv
<1> QED BY NetInvariant, <1>1, PTL

(* A handler runs and is registered only while the loop, the event group   *)
(* and the driver it uses exist (the order of axoloty_network_prepare and  *)
(* axoloty_network_cleanup).                                               *)
THEOREM HandlerNeedsGroupHolds == Spec => []HandlerNeedsGroup
<1>1. NetInv => HandlerNeedsGroup BY DEF NetInv, Layout
<1> QED BY NetInvariant, <1>1, PTL

(* A cleanup that reports success deinitialized a stopped driver: the      *)
(* report it waits for is of this session's stop and of nothing earlier,   *)
(* in every session that did not take over a left-over driver.             *)
THEOREM CompleteMeansStoppedHolds == Spec => []CompleteMeansStopped
<1>1. NetInv => CompleteMeansStopped BY DEF NetInv, Verdict, Cleaning, CompleteMeansStopped
<1> QED BY NetInvariant, <1>1, PTL

(* While the network is awaited or in use, an idle driver is about to be   *)
(* asked to connect or WIFI_FAIL is set, for every retry budget, as long   *)
(* as the driver accepts to connect and is no left-over of an earlier      *)
(* session (network_wifi_event, axoloty_network_reconnect_wait).           *)
THEOREM NoSilentStallHolds == Spec => []NoSilentStall
<1>1. NetInv => NoSilentStall BY InEmpty DEF NetInv, Repairing, NoSilentStall
<1> QED BY NetInvariant, <1>1, PTL
================================================================================
