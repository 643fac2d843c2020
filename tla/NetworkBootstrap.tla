----------------------------- MODULE NetworkBootstrap ----------------------------
(***************************************************************************)
(* Wi-Fi and IP bring-up, forced reconnect and teardown                    *)
(* (Platforms/esp32c6-idf/main/network_bootstrap.c).                       *)
(*                                                                         *)
(* Three tasks run concurrently: the application's task, which calls       *)
(* prepare, reconnect_wait and cleanup in turn and blocks in event-group   *)
(* waits; the event loop's task, which runs the two handlers one event at  *)
(* a time; and the Wi-Fi driver's task (external), which takes requests in *)
(* order and posts events.  A wait may time out at any moment unless the   *)
(* driver is timely.                                                       *)
(***************************************************************************)
EXTENDS Integers, Sequences, FiniteSets

CONSTANTS MaxRetries,  \* the 5 of network_wifi_event
          MaxSessions, \* bound: calls of prepare
          MaxLosses,   \* bound: links lost or refused by the access point
          MaxForced    \* bound: calls of reconnect_wait

ASSUME NetworkBootstrapAssumption ==
  /\ MaxRetries \in Nat /\ MaxSessions \in Nat /\ MaxLosses \in Nat /\ MaxForced \in Nat

VARIABLES step,        \* where the application's task is
          back,        \* where the cleanup under way returns to
          built,       \* external: the resources and registrations that exist
          known,       \* what the code's flags and pointers say it has to undo
          transport,   \* the transport's own prepared state
          retry, forced, cleaning, bits,
          complete,    \* no part of the last cleanup failed or went unreported
          queue,       \* external: events posted to the loop
          handler,     \* what the running handler has decided to do
          radio,       \* external: off, idle, joining, joined
          requests,    \* external: requests the driver has not taken
          sessions, losses, forcings, \* how much of each bound is used
          timely,      \* external: the driver reports within a teardown's budget
          busy,        \* history: the driver was still at work when deinitialized
          leaked,      \* history: esp_wifi_deinit failed, the driver outlives its session
          refused      \* history: the last connect was refused, a result nobody reads

made == <<built, known>>
shared == <<retry, forced, cleaning, bits>>
driver == <<radio, requests>>
bounds == <<timely, sessions, losses, forcings>>
history == <<busy, leaked, refused>>
vars == <<step, back, made, transport, shared, complete, queue, handler, driver, bounds, history>>

Stages == <<"loop", "events", "netif", "wifi", "wifiHandler", "ipHandler", "started">>
BuiltUpTo(n) == {Stages[i] : i \in 1..n}
Resources == BuiltUpTo(6)
Started == "started" \in known

\* A stopped or stopping driver refuses to connect.
Stopping == radio = "off" \/ \E i \in DOMAIN requests : requests[i] = "stop"
Request(r) == requests' = Append(requests, r)

Init ==
  /\ step = "down" /\ back = "down" /\ built = {} /\ known = {} /\ transport = FALSE
  /\ retry = 0 /\ forced = FALSE /\ cleaning = FALSE /\ bits = {} /\ complete = TRUE
  /\ queue = <<>> /\ handler = "none" /\ radio = "off" /\ requests = <<>>
  /\ timely \in BOOLEAN /\ sessions = 0 /\ losses = 0 /\ forcings = 0
  /\ busy = FALSE /\ leaked = FALSE /\ refused = FALSE

-------------------------------------------------------------------------------
(* axoloty_network_prepare.                                                *)

Reset == retry' = 0 /\ forced' = FALSE /\ cleaning' = FALSE

\* The transport, the flash, the stack or the event loop refuses: no cleanup.
PrepareRefused ==
  /\ step = "down" /\ sessions < MaxSessions
  /\ sessions' = sessions + 1 /\ Reset /\ transport' \in BOOLEAN
  /\ known' = {} /\ step' = "failed"
  /\ UNCHANGED <<back, built, bits, complete, queue, handler, driver, timely, losses, forcings, history>>

\* What prepare has noted when stage n was the last to succeed.
\* Faulty variant: a stage is noted with the next one.
Known_Late(n) == BuiltUpTo(n - 1)
Known(n) == BuiltUpTo(n)

\* n stages are built; the wait begins when all are, else the cleanup.  A
\* second default loop is refused; a driver that was left over is taken over.
Prepare(n) ==
  /\ step = "down" /\ sessions < MaxSessions /\ "loop" \notin built
  /\ sessions' = sessions + 1 /\ Reset /\ transport' = TRUE
  /\ built' = built \cup (BuiltUpTo(n) \cap Resources) /\ known' = Known(n) /\ refused' = FALSE
  /\ bits' = {} /\ queue' = <<>>
  /\ IF n = Len(Stages) THEN step' = "waitUp" /\ Request("start") /\ UNCHANGED back
                        ELSE step' = "teardown" /\ back' = "failed" /\ UNCHANGED requests
  /\ UNCHANGED <<complete, handler, radio, timely, losses, forcings, busy, leaked>>

PrepareDone ==
  /\ step = "waitUp" /\ "ip" \in bits
  /\ step' = "up"
  /\ UNCHANGED <<back, made, transport, shared, complete, queue, handler, driver, bounds, history>>

\* WIFI_FAIL without an address, or the deadline.
PrepareGivesUp ==
  /\ step = "waitUp"
  /\ step' = "teardown" /\ back' = "failed"
  /\ UNCHANGED <<made, transport, shared, complete, queue, handler, driver, bounds, history>>

-------------------------------------------------------------------------------
(* axoloty_network_reconnect_wait.                                         *)

ReconnectStart ==
  /\ step = "up" /\ forcings < MaxForced
  /\ forcings' = forcings + 1 /\ bits' = bits \ {"fail", "ip"}
  /\ step' = "force"
  /\ UNCHANGED <<back, made, transport, retry, forced, cleaning, complete, queue, handler,
                 driver, timely, sessions, losses, history>>

ReconnectForce ==
  /\ step = "force" /\ forced' = TRUE /\ Request("disconnect")
  /\ step' = "waitDown"
  /\ UNCHANGED <<back, made, transport, retry, cleaning, bits, complete, queue, handler, radio, bounds, history>>

\* Every early return of reconnect_wait; the caller ends the session.
ReconnectFails ==
  /\ step \in {"force", "waitDown", "delay", "waitAgain"}
  /\ forced' = FALSE /\ step' = "failed"
  /\ UNCHANGED <<back, made, transport, retry, cleaning, bits, complete, queue, handler, driver, bounds, history>>

ReconnectDown ==
  /\ step = "waitDown" /\ "fail" \in bits
  /\ bits' = bits \ {"fail"} /\ forced' = FALSE
  /\ step' = "delay"
  /\ UNCHANGED <<back, made, transport, retry, cleaning, complete, queue, handler, driver, bounds, history>>

ReconnectAgain ==
  /\ step = "delay" /\ Request("connect") /\ refused' = FALSE
  /\ step' = "waitAgain"
  /\ UNCHANGED <<back, made, transport, shared, complete, queue, handler, radio, bounds, busy, leaked>>

ReconnectDone ==
  /\ step = "waitAgain" /\ "ip" \in bits
  /\ step' = "up"
  /\ UNCHANGED <<back, made, transport, shared, complete, queue, handler, driver, bounds, history>>

-------------------------------------------------------------------------------
(* axoloty_network_cleanup.                                                *)

\* The caller's own cleanup, also after a prepare that already cleaned up.
CleanupCall ==
  /\ step \in {"up", "failed"}
  /\ step' = "teardown" /\ back' = "down"
  /\ UNCHANGED <<made, transport, shared, complete, queue, handler, driver, bounds, history>>

\* Faulty variant: the handlers are removed before the reports arrive.
KeptHandlers_Early == built \ {"wifiHandler", "ipHandler"}
KeptHandlers == built

CleanupStart ==
  /\ step = "teardown"
  /\ cleaning' = TRUE /\ bits' = bits \ {"fail", "stopped"} /\ complete' = TRUE
  /\ built' = KeptHandlers /\ step' = "leave"
  /\ UNCHANGED <<back, known, transport, retry, forced, queue, handler, driver, bounds, history>>

\* The disconnect is awaited only when the station was associated.
CleanupDisconnect ==
  /\ step = "leave"
  /\ \/ /\ Started /\ Request("disconnect")
        /\ step' = IF radio = "joined" THEN "waitLeft" ELSE "stop"
        /\ UNCHANGED complete
     \/ Started /\ ~timely /\ complete' = FALSE /\ step' = "stop" /\ UNCHANGED requests
     \/ ~Started /\ step' = "stop" /\ UNCHANGED <<requests, complete>>
  /\ UNCHANGED <<back, made, transport, shared, queue, handler, radio, bounds, history>>

\* A wait for a report: it comes, or the budget is spent.
Report(bit) ==
  \/ bit \in bits /\ UNCHANGED complete
  \/ bit \notin bits /\ ~timely /\ complete' = FALSE

CleanupLeft ==
  /\ step = "waitLeft" /\ Report("fail") /\ step' = "stop"
  /\ UNCHANGED <<back, made, transport, shared, queue, handler, driver, bounds, history>>

CleanupStop ==
  /\ step = "stop"
  /\ \/ Started /\ Request("stop") /\ step' = "waitStopped" /\ UNCHANGED complete
     \/ Started /\ ~timely /\ complete' = FALSE /\ step' = "unregister" /\ UNCHANGED requests
     \/ ~Started /\ step' = "unregister" /\ UNCHANGED <<requests, complete>>
  /\ UNCHANGED <<back, made, transport, shared, queue, handler, radio, bounds, history>>

\* Faulty variant: the driver's report is not waited for.
CleanupStopped_NoWait ==
  /\ step = "waitStopped" /\ step' = "unregister"
  /\ UNCHANGED <<back, made, transport, shared, complete, queue, handler, driver, bounds, history>>
CleanupStopped ==
  /\ step = "waitStopped" /\ Report("stopped") /\ step' = "unregister"
  /\ UNCHANGED <<back, made, transport, shared, queue, handler, driver, bounds, history>>

\* Removing a handler waits until the one that runs has returned.
\* Faulty variant: only one of the two is removed.
CleanupUnregister_WifiOnly ==
  /\ step = "unregister" /\ handler = "none"
  /\ built' = built \ ({"wifiHandler"} \cap known) /\ step' = "deinit"
  /\ UNCHANGED <<back, known, transport, shared, complete, queue, handler, driver, bounds, history>>
CleanupUnregister ==
  /\ step = "unregister" /\ handler = "none"
  /\ built' = built \ ({"wifiHandler", "ipHandler"} \cap known) /\ step' = "deinit"
  /\ UNCHANGED <<back, known, transport, shared, complete, queue, handler, driver, bounds, history>>

\* A driver that refuses goes on as it was, and only the flag forgets it.
CleanupDeinit ==
  /\ step = "deinit" /\ step' = "release"
  /\ \/ /\ "wifi" \notin known
        /\ busy' = FALSE /\ UNCHANGED <<built, driver, complete, leaked>>
     \/ /\ "wifi" \in known
        /\ busy' = (~leaked /\ (radio # "off" \/ requests # <<>>))
        /\ built' = built \ {"wifi"} /\ radio' = "off" /\ requests' = <<>> /\ leaked' = FALSE
        /\ UNCHANGED complete
     \/ /\ "wifi" \in known /\ ~timely
        /\ busy' = FALSE /\ complete' = FALSE /\ leaked' = TRUE /\ UNCHANGED <<built, driver>>
  /\ UNCHANGED <<back, known, transport, shared, queue, handler, bounds, refused>>

\* What the flags and pointers name is released, then all of them are cleared.
CleanupRelease ==
  /\ step = "release"
  /\ built' = built \ ({"netif", "loop", "events"} \cap known) /\ known' = {}
  /\ queue' = (IF "loop" \in known THEN <<>> ELSE queue)
  /\ bits' = (IF "events" \in known THEN {} ELSE bits)
  /\ Reset /\ transport' = FALSE /\ step' = back
  /\ UNCHANGED <<back, complete, handler, driver, bounds, history>>

-------------------------------------------------------------------------------
(* The handlers.                                                           *)

\* network_wifi_event for a disconnect: report it or try again.
\* Faulty variant: an exhausted budget is not reported.
OnDisconnected_Silent ==
  IF cleaning \/ forced THEN handler' = "fail" /\ UNCHANGED retry
  ELSE IF retry < MaxRetries THEN handler' = "connect" /\ retry' = retry + 1
  ELSE UNCHANGED <<handler, retry>>
OnDisconnected ==
  IF cleaning \/ forced THEN handler' = "fail" /\ UNCHANGED retry
  ELSE IF retry < MaxRetries THEN handler' = "connect" /\ retry' = retry + 1
  ELSE handler' = "fail" /\ UNCHANGED retry

OnWifi(e) ==
  \/ e = "stop" /\ handler' = "stopped" /\ UNCHANGED retry
  \/ e = "start" /\ handler' = (IF cleaning THEN "none" ELSE "connect") /\ UNCHANGED retry
  \/ e = "disconnected" /\ OnDisconnected

\* network_ip_event.
OnIp == handler' = "ip" /\ retry' = 0

Dispatch ==
  /\ "loop" \in built /\ handler = "none" /\ queue # <<>>
  /\ queue' = Tail(queue)
  /\ LET e == Head(queue)
     IN  \/ e = "gotip" /\ "ipHandler" \in built /\ OnIp
         \/ e # "gotip" /\ "wifiHandler" \in built /\ OnWifi(e)
         \/ /\ (IF e = "gotip" THEN "ipHandler" ELSE "wifiHandler") \notin built
            /\ UNCHANGED <<handler, retry>>
  /\ UNCHANGED <<step, back, made, transport, forced, cleaning, bits, complete, driver, bounds, history>>

\* What the handler decided takes effect; the driver may refuse to connect,
\* and the handler does not look.
HandlerActs ==
  /\ handler # "none" /\ handler' = "none"
  /\ \/ handler = "connect" /\ ~Stopping /\ Request("connect") /\ refused' = FALSE /\ UNCHANGED bits
     \/ handler = "connect" /\ refused' = TRUE /\ UNCHANGED <<requests, bits>>
     \/ handler # "connect" /\ bits' = bits \cup {handler} /\ UNCHANGED <<requests, refused>>
  /\ UNCHANGED <<step, back, made, transport, retry, forced, cleaning, complete, queue, radio, bounds, busy, leaked>>

-------------------------------------------------------------------------------
(* The Wi-Fi driver and the access point (external).                       *)

Post(es) == queue' = IF "loop" \in built THEN queue \o es ELSE queue
Linked == radio \in {"joining", "joined"}

DriverTakes ==
  /\ requests # <<>> /\ requests' = Tail(requests)
  /\ LET r == Head(requests)
     IN  \/ r = "start" /\ radio = "off" /\ radio' = "idle" /\ Post(<<"start">>)
         \/ r = "start" /\ radio # "off" /\ UNCHANGED radio /\ (UNCHANGED queue \/ Post(<<"start">>))
         \/ r = "connect" /\ radio' = (IF radio = "idle" THEN "joining" ELSE radio) /\ UNCHANGED queue
         \/ r = "disconnect" /\ Linked /\ radio' = "idle" /\ Post(<<"disconnected">>)
         \/ r = "disconnect" /\ ~Linked /\ UNCHANGED <<radio, queue>>
         \/ r = "stop" /\ radio' = "off" /\ Post(IF Linked THEN <<"disconnected", "stop">> ELSE <<"stop">>)
  /\ UNCHANGED <<step, back, made, transport, shared, complete, handler, bounds, history>>

Join ==
  /\ radio = "joining" /\ radio' = "joined" /\ Post(<<"gotip">>)
  /\ UNCHANGED <<step, back, made, transport, shared, complete, handler, requests, bounds, history>>

LinkLost ==
  /\ Linked /\ losses < MaxLosses
  /\ losses' = losses + 1 /\ radio' = "idle" /\ Post(<<"disconnected">>)
  /\ UNCHANGED <<step, back, made, transport, shared, complete, handler, requests, timely, sessions, forcings, history>>

-------------------------------------------------------------------------------
Bringup == PrepareRefused \/ (\E n \in DOMAIN Stages : Prepare(n)) \/ PrepareDone \/ PrepareGivesUp
Reconnect ==
  \/ ReconnectStart \/ ReconnectForce \/ ReconnectDown \/ ReconnectAgain \/ ReconnectDone
  \/ ReconnectFails
Cleanup ==
  \/ CleanupStart \/ CleanupDisconnect \/ CleanupLeft \/ CleanupStop \/ CleanupStopped
  \/ CleanupUnregister \/ CleanupDeinit \/ CleanupRelease
EventTask == Dispatch \/ HandlerActs
Driver == DriverTakes \/ Join \/ LinkLost

Next == Bringup \/ Reconnect \/ CleanupCall \/ Cleanup \/ EventTask \/ Driver

Spec == Init /\ [][Next]_vars

\* The scheduler runs every task that is ready and the driver takes requests.
FairSpec == Spec /\ WF_vars(Cleanup) /\ WF_vars(EventTask) /\ WF_vars(DriverTakes)

-------------------------------------------------------------------------------
\* Every variable has its type.
TypeOK ==
  /\ step \in {"down", "waitUp", "up", "failed", "force", "waitDown", "delay", "waitAgain",
               "teardown", "leave", "waitLeft", "stop", "waitStopped", "unregister", "deinit", "release"}
  /\ back \in {"down", "failed"}
  /\ built \subseteq Resources /\ known \subseteq BuiltUpTo(Len(Stages))
  /\ transport \in BOOLEAN /\ forced \in BOOLEAN /\ cleaning \in BOOLEAN /\ complete \in BOOLEAN
  /\ retry \in 0..MaxRetries /\ bits \subseteq {"ip", "fail", "stopped"}
  /\ queue \in Seq({"start", "gotip", "disconnected", "stop"})
  /\ handler \in {"none", "connect", "fail", "ip", "stopped"}
  /\ radio \in {"off", "idle", "joining", "joined"}
  /\ requests \in Seq({"start", "connect", "disconnect", "stop"})
  /\ sessions \in 0..MaxSessions /\ losses \in 0..MaxLosses /\ forcings \in 0..MaxForced
  /\ timely \in BOOLEAN /\ busy \in BOOLEAN /\ leaked \in BOOLEAN /\ refused \in BOOLEAN

(* Every resource is released under its own flag or pointer, whichever     *)
(* stage bring-up reached and however often cleanup is called: when it     *)
(* returns to a caller that is down, nothing of the session is left or     *)
(* noted.  The one exception is a driver whose esp_wifi_deinit failed: it  *)
(* stays, and no flag knows of it.                                         *)
DownIsClean ==
  step = "down" =>
    /\ built \subseteq {"wifi"} /\ known = {} /\ ~transport /\ handler = "none"
    /\ ~cleaning /\ ~forced /\ bits = {} /\ queue = <<>>
    /\ ~leaked => built = {} /\ radio = "off" /\ requests = <<>>

(* A handler touches the event group and calls the driver only while they  *)
(* exist: the registrations go before the group is deleted.                *)
HandlerNeedsGroup ==
  handler # "none" \/ "wifiHandler" \in built \/ "ipHandler" \in built
    => {"loop", "events", "wifi"} \subseteq built

(* A cleanup that returns success deinitialized a driver that had stopped, *)
(* which is what the waits of #129 are for.  A session that took over a    *)
(* left-over driver is not promised it.                                    *)
CompleteMeansStopped == step \in {"release", "down", "failed"} /\ busy => ~complete

(* While the application waits for the network or uses it, a link that is  *)
(* down is being repaired, or WIFI_FAIL says that it is not; unless the    *)
(* driver refused to connect, which no handler notices, or is left over.   *)
NoSilentStall ==
  /\ step \in {"waitUp", "up"} /\ radio = "idle" /\ ~refused /\ ~leaked
  /\ requests = <<>> /\ queue = <<>> /\ handler = "none"
  => "fail" \in bits

(* With a driver that reports, every teardown finishes by its reports and  *)
(* not by its timers: a wait never misses the event it waits for.          *)
TeardownReturns == timely /\ cleaning ~> ~cleaning
================================================================================
