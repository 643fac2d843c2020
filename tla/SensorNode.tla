------------------------------- MODULE SensorNode --------------------------------
(***************************************************************************)
(* The sensor node's session loop (Applications/sensor-node/main): bring-  *)
(* up in stages, serving, teardown, back-off, and the restart after too    *)
(* many sessions that never advertised.                                    *)
(*                                                                         *)
(* The network, the carrier and the static runtime appear as the node uses *)
(* them.  A call fails when the node is offline, when what an earlier      *)
(* session left behind refuses it, or by a bounded number of Faults.       *)
(* Encoding, time and the reporting counters are left out.                 *)
(***************************************************************************)
EXTENDS Integers, Sequences

CONSTANTS Carriers,    \* the carriers the image may be composed with
          MaxFailed,   \* maximumFailedSessions
          MaxReadings, \* bound: readings per boot
          MaxOutages,  \* bound: times the node goes offline
          MaxFaults    \* bound: calls that fail while online

ASSUME SensorNodeAssumption ==
  /\ Carriers \subseteq {"mqtt", "zenoh"} /\ MaxFailed \in Nat \ {0}
  /\ MaxReadings \in Nat /\ MaxOutages \in Nat /\ MaxFaults \in Nat

VARIABLES kind,        \* the carrier this image is composed with
          stage,       \* backoff, the SensorNodeStage, ending, restart
          failed,      \* failedSessions
          connected,   \* the session's connected
          reached,     \* the session's reachedNetwork
          readings,    \* counters.readings
          announced,   \* external: the runtime holds the object as announced
          network,     \* external: prepared and not cleaned up
          carrier,     \* external: idle, open, or stuck after a failed disconnect
          will,        \* external: the carrier holds the last will
          online,      \* external: network and broker or router can be reached
          outages, faults, \* how much of each bound is used
          hurt,        \* history: the session met an outage or a fault
          blame        \* history: such sessions since the last one that advertised

node == <<failed, connected, reached, readings>>
world == <<announced, network, carrier, will>>
environment == <<kind, online, outages, faults>>
history == <<hurt, blame>>
vars == <<stage, node, world, environment, history>>

\* Over MQTT the carrier holds a last will, and a failed disconnect leaves it
\* connected (Disconnect of MqttCarrier); a Zenoh close always releases it.
LastWill == kind = "mqtt"
Sticky == kind = "mqtt"

Init ==
  /\ kind \in Carriers /\ stage = "backoff" /\ failed = 0 /\ connected = FALSE /\ reached = FALSE /\ readings = 0
  /\ announced = FALSE /\ network = FALSE /\ carrier = "idle" /\ will = FALSE
  /\ online \in BOOLEAN /\ outages = 0 /\ faults = 0
  /\ hurt = FALSE /\ blame = 0

-------------------------------------------------------------------------------
(* runSensorNodeSession.                                                   *)

\* A call that reaches out fails when offline, or by a fault.
Succeeds == online /\ UNCHANGED <<faults, hurt>>
Fails ==
  /\ hurt' = TRUE /\ stage' = "ending"
  /\ \/ ~online /\ UNCHANGED faults
     \/ faults < MaxFaults /\ faults' = faults + 1
Refused == stage' = "ending" /\ UNCHANGED <<faults, hurt>>

\* runtime.resetTransport.  Faulty variant: the runtime keeps its state.
ResetTransport_Kept == UNCHANGED announced
ResetTransport == announced' = FALSE

\* The counters outlive a session.
KeptReadings == readings

StartSession ==
  /\ stage = "backoff" /\ stage' = "network" /\ ResetTransport
  /\ connected' = FALSE /\ reached' = FALSE /\ hurt' = FALSE
  /\ readings' = KeptReadings
  /\ UNCHANGED <<failed, network, carrier, will, environment, blame>>

\* Preparing the network also resets the carrier's will.
PrepareNetwork ==
  /\ stage = "network" /\ will' = FALSE
  /\ \/ Succeeds /\ network' = TRUE /\ stage' = "lastWill"
     \/ Fails /\ UNCHANGED network
  /\ UNCHANGED <<node, announced, carrier, kind, online, outages, blame>>

\* A carrier that is not idle refuses a will; one without a will needs none.
WillWanted == LastWill

ConfigureLastWill ==
  /\ stage = "lastWill"
  /\ \/ ~WillWanted /\ stage' = "connect" /\ UNCHANGED <<will, faults, hurt>>
     \/ WillWanted /\ carrier = "idle" /\ will' = TRUE /\ stage' = "connect" /\ UNCHANGED <<faults, hurt>>
     \/ WillWanted /\ carrier # "idle" /\ Refused /\ UNCHANGED will
  /\ UNCHANGED <<node, announced, network, carrier, kind, online, outages, blame>>

Connect ==
  /\ stage = "connect"
  /\ \/ carrier = "idle" /\ Succeeds /\ carrier' = "open" /\ connected' = TRUE /\ stage' = "subscribe"
     \/ carrier = "idle" /\ Fails /\ UNCHANGED <<carrier, connected>>
     \/ carrier # "idle" /\ Refused /\ UNCHANGED <<carrier, connected>>
  /\ UNCHANGED <<failed, reached, readings, announced, network, will, kind, online, outages, blame>>

Subscribe ==
  /\ stage = "subscribe"
  /\ \/ Succeeds /\ stage' = "advertise"
     \/ Fails
  /\ UNCHANGED <<node, world, kind, online, outages, blame>>

\* sendSensorOperation: the runtime accepts the object once, then it is published.
Advertise ==
  /\ stage = "advertise"
  /\ \/ ~announced /\ Succeeds /\ announced' = TRUE /\ reached' = TRUE /\ stage' = "serving"
     \/ ~announced /\ Fails /\ announced' = TRUE /\ UNCHANGED reached
     \/ announced /\ Refused /\ UNCHANGED <<announced, reached>>
  /\ UNCHANGED <<failed, connected, readings, network, carrier, will, kind, online, outages, blame>>

\* A reading takes its sequence number before it is published.
PublishReading ==
  /\ stage = "serving" /\ readings < MaxReadings /\ readings' = readings + 1
  /\ \/ Succeeds /\ UNCHANGED stage
     \/ Fails
  /\ UNCHANGED <<failed, connected, reached, world, kind, online, outages, blame>>

\* The poll reports an error or a closed session, or a Resolve is not published.
ServeEnds ==
  /\ stage = "serving" /\ Fails
  /\ UNCHANGED <<node, world, kind, online, outages, blame>>

\* The session's defer, then the outer loop's bookkeeping.
Disconnect ==
  IF ~connected THEN UNCHANGED <<carrier, will, faults>>
  ELSE /\ will' = FALSE
       /\ \/ carrier' = "idle" /\ UNCHANGED faults
          \/ /\ faults < MaxFaults /\ faults' = faults + 1
             /\ carrier' = IF Sticky THEN "stuck" ELSE "idle"

\* Faulty variant: Wi-Fi alone counts as success.
FailedAfter_Wifi == IF network THEN 0 ELSE failed + 1
FailedAfter == IF reached THEN 0 ELSE failed + 1
GivesUp == FailedAfter >= MaxFailed

EndSession ==
  /\ stage = "ending" /\ Disconnect
  /\ network' = FALSE /\ failed' = FailedAfter
  /\ blame' = IF reached THEN 0 ELSE IF hurt THEN blame + 1 ELSE blame
  /\ stage' = IF GivesUp THEN "restart" ELSE "backoff"
  /\ UNCHANGED <<connected, reached, readings, announced, kind, online, outages, hurt>>

\* platform.restart: a boot forgets everything (external).
Restart ==
  /\ stage = "restart" /\ stage' = "backoff"
  /\ failed' = 0 /\ connected' = FALSE /\ reached' = FALSE /\ readings' = 0
  /\ announced' = FALSE /\ network' = FALSE /\ carrier' = "idle" /\ will' = FALSE
  /\ hurt' = FALSE /\ blame' = 0
  /\ UNCHANGED environment

-------------------------------------------------------------------------------
GoOffline ==
  /\ online /\ outages < MaxOutages /\ online' = FALSE /\ outages' = outages + 1
  /\ UNCHANGED <<kind, stage, node, world, faults, history>>
GoOnline ==
  /\ ~online /\ online' = TRUE
  /\ UNCHANGED <<kind, stage, node, world, outages, faults, history>>

Bringup == StartSession \/ PrepareNetwork \/ ConfigureLastWill \/ Connect \/ Subscribe \/ Advertise
Node == Bringup \/ PublishReading \/ EndSession \/ Restart
Next == Node \/ ServeEnds \/ GoOffline \/ GoOnline

Spec == Init /\ [][Next]_vars

\* The node's task runs, a poll notices that it is offline, outages end.
FairSpec ==
  Spec /\ WF_vars(Node) /\ WF_vars(GoOnline) /\ WF_vars(~online /\ ServeEnds)

-------------------------------------------------------------------------------
\* Every variable has its type.
TypeOK ==
  /\ kind \in Carriers
  /\ stage \in {"backoff", "network", "lastWill", "connect", "subscribe", "advertise", "serving",
                "ending", "restart"}
  /\ failed \in 0..MaxFailed /\ connected \in BOOLEAN /\ reached \in BOOLEAN
  /\ readings \in 0..MaxReadings /\ announced \in BOOLEAN /\ network \in BOOLEAN
  /\ carrier \in {"idle", "open", "stuck"} /\ will \in BOOLEAN /\ online \in BOOLEAN
  /\ outages \in 0..MaxOutages /\ faults \in 0..MaxFaults
  /\ hurt \in BOOLEAN /\ blame \in Nat

(* "Both transports now accept a new session after a close": the device    *)
(* restarts only after MaxFailed sessions in a row that each met an outage *)
(* or a fault of its own, never because of what an earlier session left,   *)
(* provided that the carrier's close releases it.                          *)
RestartMeansOutage == stage = "restart" /\ ~Sticky => blame >= MaxFailed

(* "The node runs until power-off": once outages and faults end, the node  *)
(* serves again, if need be after a restart.                               *)
Recovers == []<>(stage = "serving")
================================================================================
