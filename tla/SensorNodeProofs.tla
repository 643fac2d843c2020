----------------------------- MODULE SensorNodeProofs ------------------------------
(***************************************************************************)
(* Proofs about SensorNode, for either carrier, every limit of failed      *)
(* sessions and any number of readings, outages and faults.                *)
(***************************************************************************)
EXTENDS SensorNode, TLAPS

Bringing == {"network", "lastWill", "connect", "subscribe", "advertise"}

(* What the session under way has done: it announces nothing before it     *)
(* advertises, and it serves only after that.                              *)
Session ==
  /\ stage \in Bringing => ~announced /\ ~reached
  /\ stage \in {"network", "lastWill", "connect"} => ~connected
  /\ stage = "serving" => reached

(* A carrier whose close always releases it is open only inside the        *)
(* session that opened it.                                                 *)
Released ==
  ~Sticky /\ carrier # "idle" =>
    connected /\ stage \in {"subscribe", "advertise", "serving", "ending"}

(* A session that ends without having advertised met an outage or a fault, *)
(* and the failures counted are such sessions.                             *)
Blamed ==
  /\ stage # "restart" => failed < MaxFailed
  /\ ~Sticky => failed <= blame
  /\ ~Sticky /\ stage = "ending" /\ ~reached => hurt
  /\ stage = "restart" => failed >= MaxFailed

NodeInv == TypeOK /\ Session /\ Released /\ Blamed

-------------------------------------------------------------------------------
(* Types, the flags apart from the data.                                   *)

Flags ==
  /\ connected \in BOOLEAN /\ reached \in BOOLEAN /\ announced \in BOOLEAN /\ network \in BOOLEAN
  /\ will \in BOOLEAN /\ online \in BOOLEAN /\ hurt \in BOOLEAN
Data ==
  /\ kind \in Carriers
  /\ stage \in {"backoff", "network", "lastWill", "connect", "subscribe", "advertise", "serving",
                "ending", "restart"}
  /\ failed \in 0..MaxFailed /\ readings \in 0..MaxReadings
  /\ carrier \in {"idle", "open", "stuck"}
  /\ outages \in 0..MaxOutages /\ faults \in 0..MaxFaults /\ blame \in Nat

LEMMA TypeParts == TypeOK <=> Flags /\ Data
BY Zenon DEF TypeOK, Flags, Data

LEMMA FlagsStep ==
  ASSUME Flags, Next
  PROVE  Flags'
BY ZenonT(60) DEF Flags, Next, Node, Bringup, StartSession, PrepareNetwork, ConfigureLastWill, Connect, Subscribe,
  Advertise, PublishReading, ServeEnds, EndSession, Restart, GoOffline, GoOnline, Succeeds, Fails, Refused,
  ResetTransport, Disconnect, node, world, environment, history

(* A call that reaches out leaves its stage only as a failure that hurts,  *)
(* or by a refusal.                                                        *)
LEMMA FailsEffect ==
  ASSUME Data, Fails
  PROVE  hurt' /\ stage' = "ending" /\ faults' \in 0..MaxFaults
BY SensorNodeAssumption DEF Fails, Data

LEMMA DataStep ==
  ASSUME Data, Blamed, Next
  PROVE  Data'
<1>1. CASE StartSession
  BY <1>1, FailsEffect, SensorNodeAssumption DEF StartSession, ResetTransport, KeptReadings, environment, Data, Blamed
<1>2. CASE PrepareNetwork
  BY <1>2, FailsEffect, SensorNodeAssumption DEF PrepareNetwork, Succeeds, node, Data, Blamed
<1>3. CASE ConfigureLastWill
  BY <1>3, FailsEffect, SensorNodeAssumption DEF ConfigureLastWill, Refused, WillWanted, LastWill, node, Data, Blamed
<1>4. CASE Connect
  BY <1>4, FailsEffect, SensorNodeAssumption DEF Connect, Succeeds, Refused, Data, Blamed
<1>5. CASE Subscribe
  BY <1>5, FailsEffect, SensorNodeAssumption DEF Subscribe, Succeeds, node, world, Data, Blamed
<1>6. CASE Advertise
  BY <1>6, FailsEffect, SensorNodeAssumption DEF Advertise, Succeeds, Refused, Data, Blamed
<1>7. CASE PublishReading
  BY <1>7, FailsEffect, SensorNodeAssumption DEF PublishReading, Succeeds, world, Data, Blamed
<1>8. CASE ServeEnds
  BY <1>8, FailsEffect, SensorNodeAssumption DEF ServeEnds, node, world, Data, Blamed
<1>9. CASE EndSession
  BY <1>9, FailsEffect, SensorNodeAssumption DEF EndSession, Disconnect, FailedAfter, GivesUp, Data, Blamed
<1>10. CASE Restart
  BY <1>10, FailsEffect, SensorNodeAssumption DEF Restart, environment, Data, Blamed
<1>11. CASE GoOffline
  BY <1>11, FailsEffect, SensorNodeAssumption DEF GoOffline, node, world, history, Data, Blamed
<1>12. CASE GoOnline
  BY <1>12, FailsEffect, SensorNodeAssumption DEF GoOnline, node, world, history, Data, Blamed
<1> QED BY <1>1, <1>2, <1>3, <1>4, <1>5, <1>6, <1>7, <1>8, <1>9, <1>10, <1>11, <1>12 DEF Next, Node, Bringup

LEMMA SessionStep ==
  ASSUME Data, Session, Next
  PROVE  Session'
<1>1. CASE StartSession
  BY <1>1, FailsEffect, SensorNodeAssumption DEF StartSession, ResetTransport, KeptReadings, environment, Session, Bringing
<1>2. CASE PrepareNetwork
  BY <1>2, FailsEffect, SensorNodeAssumption DEF PrepareNetwork, Succeeds, node, Session, Bringing
<1>3. CASE ConfigureLastWill
  BY <1>3, FailsEffect, SensorNodeAssumption DEF ConfigureLastWill, Refused, WillWanted, LastWill, node, Session, Bringing
<1>4. CASE Connect
  BY <1>4, FailsEffect, SensorNodeAssumption DEF Connect, Succeeds, Refused, Session, Bringing
<1>5. CASE Subscribe
  BY <1>5, FailsEffect, SensorNodeAssumption DEF Subscribe, Succeeds, node, world, Session, Bringing
<1>6. CASE Advertise
  BY <1>6, FailsEffect, SensorNodeAssumption DEF Advertise, Succeeds, Refused, Session, Bringing
<1>7. CASE PublishReading
  BY <1>7, FailsEffect, SensorNodeAssumption DEF PublishReading, Succeeds, world, Session, Bringing
<1>8. CASE ServeEnds
  BY <1>8, FailsEffect, SensorNodeAssumption DEF ServeEnds, node, world, Session, Bringing
<1>9. CASE EndSession
  BY <1>9, FailsEffect, SensorNodeAssumption DEF EndSession, Disconnect, FailedAfter, GivesUp, Session, Bringing
<1>10. CASE Restart
  BY <1>10, FailsEffect, SensorNodeAssumption DEF Restart, environment, Session, Bringing
<1>11. CASE GoOffline
  BY <1>11, FailsEffect, SensorNodeAssumption DEF GoOffline, node, world, history, Session, Bringing
<1>12. CASE GoOnline
  BY <1>12, FailsEffect, SensorNodeAssumption DEF GoOnline, node, world, history, Session, Bringing
<1> QED BY <1>1, <1>2, <1>3, <1>4, <1>5, <1>6, <1>7, <1>8, <1>9, <1>10, <1>11, <1>12 DEF Next, Node, Bringup

LEMMA ReleasedStep ==
  ASSUME Data, Session, Released, Next
  PROVE  Released'
<1>1. CASE StartSession
  BY <1>1, FailsEffect, SensorNodeAssumption DEF StartSession, ResetTransport, KeptReadings, environment, Data, Session, Released, Sticky, Bringing
<1>2. CASE PrepareNetwork
  BY <1>2, FailsEffect, SensorNodeAssumption DEF PrepareNetwork, Succeeds, node, Data, Session, Released, Sticky, Bringing
<1>3. CASE ConfigureLastWill
  BY <1>3, FailsEffect, SensorNodeAssumption DEF ConfigureLastWill, Refused, WillWanted, LastWill, node, Data, Session, Released, Sticky, Bringing
<1>4. CASE Connect
  BY <1>4, FailsEffect, SensorNodeAssumption DEF Connect, Succeeds, Refused, Data, Session, Released, Sticky, Bringing
<1>5. CASE Subscribe
  BY <1>5, FailsEffect, SensorNodeAssumption DEF Subscribe, Succeeds, node, world, Data, Session, Released, Sticky, Bringing
<1>6. CASE Advertise
  BY <1>6, FailsEffect, SensorNodeAssumption DEF Advertise, Succeeds, Refused, Data, Session, Released, Sticky, Bringing
<1>7. CASE PublishReading
  BY <1>7, FailsEffect, SensorNodeAssumption DEF PublishReading, Succeeds, world, Data, Session, Released, Sticky, Bringing
<1>8. CASE ServeEnds
  BY <1>8, FailsEffect, SensorNodeAssumption DEF ServeEnds, node, world, Data, Session, Released, Sticky, Bringing
<1>9. CASE EndSession
  BY <1>9, FailsEffect, SensorNodeAssumption DEF EndSession, Disconnect, FailedAfter, GivesUp, Data, Session, Released, Sticky, Bringing
<1>10. CASE Restart
  BY <1>10, FailsEffect, SensorNodeAssumption DEF Restart, environment, Data, Session, Released, Sticky, Bringing
<1>11. CASE GoOffline
  BY <1>11, FailsEffect, SensorNodeAssumption DEF GoOffline, node, world, history, Data, Session, Released, Sticky, Bringing
<1>12. CASE GoOnline
  BY <1>12, FailsEffect, SensorNodeAssumption DEF GoOnline, node, world, history, Data, Session, Released, Sticky, Bringing
<1> QED BY <1>1, <1>2, <1>3, <1>4, <1>5, <1>6, <1>7, <1>8, <1>9, <1>10, <1>11, <1>12 DEF Next, Node, Bringup

LEMMA BlamedStep ==
  ASSUME Data, Session, Released, Blamed, Next
  PROVE  Blamed'
<1>1. CASE StartSession
  BY <1>1, FailsEffect, SensorNodeAssumption DEF StartSession, ResetTransport, KeptReadings, environment, Data, Session, Released, Blamed, Sticky, Bringing
<1>2. CASE PrepareNetwork
  BY <1>2, FailsEffect, SensorNodeAssumption DEF PrepareNetwork, Succeeds, node, Data, Session, Released, Blamed, Sticky, Bringing
<1>3. CASE ConfigureLastWill
  BY <1>3, FailsEffect, SensorNodeAssumption DEF ConfigureLastWill, Refused, WillWanted, LastWill, node, Data, Session, Released, Blamed, Sticky, Bringing
<1>4. CASE Connect
  BY <1>4, FailsEffect, SensorNodeAssumption DEF Connect, Succeeds, Refused, Data, Session, Released, Blamed, Sticky, Bringing
<1>5. CASE Subscribe
  BY <1>5, FailsEffect, SensorNodeAssumption DEF Subscribe, Succeeds, node, world, Data, Session, Released, Blamed, Sticky, Bringing
<1>6. CASE Advertise
  BY <1>6, FailsEffect, SensorNodeAssumption DEF Advertise, Succeeds, Refused, Data, Session, Released, Blamed, Sticky, Bringing
<1>7. CASE PublishReading
  BY <1>7, FailsEffect, SensorNodeAssumption DEF PublishReading, Succeeds, world, Data, Session, Released, Blamed, Sticky, Bringing
<1>8. CASE ServeEnds
  BY <1>8, FailsEffect, SensorNodeAssumption DEF ServeEnds, node, world, Data, Session, Released, Blamed, Sticky, Bringing
<1>9. CASE EndSession
  BY <1>9, FailsEffect, SensorNodeAssumption DEF EndSession, Disconnect, FailedAfter, GivesUp, Data, Session, Released, Blamed, Sticky, Bringing
<1>10. CASE Restart
  BY <1>10, FailsEffect, SensorNodeAssumption DEF Restart, environment, Data, Session, Released, Blamed, Sticky, Bringing
<1>11. CASE GoOffline
  BY <1>11, FailsEffect, SensorNodeAssumption DEF GoOffline, node, world, history, Data, Session, Released, Blamed, Sticky, Bringing
<1>12. CASE GoOnline
  BY <1>12, FailsEffect, SensorNodeAssumption DEF GoOnline, node, world, history, Data, Session, Released, Blamed, Sticky, Bringing
<1> QED BY <1>1, <1>2, <1>3, <1>4, <1>5, <1>6, <1>7, <1>8, <1>9, <1>10, <1>11, <1>12 DEF Next, Node, Bringup

-------------------------------------------------------------------------------
(* The theorems.                                                           *)

LEMMA InitNodeInv == Init => NodeInv
<1> SUFFICES ASSUME Init PROVE NodeInv OBVIOUS
<1>1. Flags BY Zenon DEF Init, Flags
<1>2. Data /\ Session /\ Released /\ Blamed
  BY SensorNodeAssumption DEF Init, Data, Session, Released, Blamed, Bringing
<1> QED BY <1>1, <1>2, TypeParts DEF NodeInv

LEMMA StepNodeInv == NodeInv /\ [Next]_vars => NodeInv'
<1> SUFFICES ASSUME NodeInv, [Next]_vars PROVE NodeInv' OBVIOUS
<1>1. CASE Next
  <2>1. Flags /\ Data BY TypeParts DEF NodeInv
  <2>2. Flags' /\ Data' BY <1>1, <2>1, FlagsStep, DataStep DEF NodeInv
  <2>3. (TypeOK <=> Flags /\ Data)' BY TypeParts, PTL
  <2> QED BY <1>1, <2>1, <2>2, <2>3, SessionStep, ReleasedStep, BlamedStep DEF NodeInv
<1>2. CASE UNCHANGED vars
  <2>1. TypeOK' BY <1>2 DEF NodeInv, TypeOK, vars, node, world, environment, history
  <2> QED BY <1>2, <2>1
    DEF NodeInv, Session, Released, Blamed, Sticky, vars, node, world, environment, history
<1> QED BY <1>1, <1>2

(* The four parts hold together in every state the node reaches.           *)
THEOREM NodeInvariant == Spec => []NodeInv
BY InitNodeInv, StepNodeInv, PTL DEF Spec

(* Every variable keeps its type; the count of failed sessions never       *)
(* passes the limit at which the device restarts.                          *)
THEOREM TypeCorrect == Spec => []TypeOK
<1>1. NodeInv => TypeOK BY DEF NodeInv
<1> QED BY NodeInvariant, <1>1, PTL

(* runSensorNode restarts the device only after as many sessions in a row  *)
(* as its limit that each met an outage or a fault, over a carrier whose   *)
(* close always releases it: no session is refused by what an earlier one  *)
(* left behind.                                                            *)
THEOREM RestartMeansOutageHolds == Spec => []RestartMeansOutage
<1>1. NodeInv => RestartMeansOutage
  BY SensorNodeAssumption DEF NodeInv, TypeOK, Blamed, RestartMeansOutage
<1> QED BY NodeInvariant, <1>1, PTL
================================================================================
