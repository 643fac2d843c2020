------------------------------- MODULE ZenohCarrier ------------------------------
(***************************************************************************)
(* The Zenoh carrier the application polls                                 *)
(* (Transports/zenoh-pico/main/ZenohCarrier.swift): one session, a fixed   *)
(* table of subscriptions, a round-robin poll with one retained frame, and *)
(* the observation of router loss and return.                              *)
(*                                                                         *)
(* Below it is the facade with one bounded queue per declaration, here in  *)
(* the abstract form that ZenohQueue implements (BoundedFifo) with its two *)
(* pending notifications.  Samples arrive between any two steps of a poll. *)
(* Deadlines and the keep-alive interval are not clocked.                  *)
(***************************************************************************)
EXTENDS Integers, Sequences, FiniteSets

CONSTANTS Keys,
          Size,        \* maximumSubscriptions
          Capacity,    \* ZENOH_PICO_QUEUE_CAPACITY
          MaxDeclares, \* bound: declarations per run
          MaxFrames,   \* bound: samples per run
          MaxLosses    \* bound: router losses per run

ASSUME ZenohCarrierAssumption ==
  /\ IsFiniteSet(Keys) /\ Size \in Nat \ {0} /\ Capacity \in Nat \ {0}
  /\ MaxDeclares \in Nat /\ MaxFrames \in Nat /\ MaxLosses \in Nat

Index == 0..(Size - 1)
Handles == 1..MaxDeclares
Frames == 1..MaxFrames
None == 0

VARIABLES phase,      \* idle, connected, subscribed, disconnected
          slot,       \* slot[i]: handle and key of slot i; handle None when it is free
          pending,    \* the retained frame, or None (hasPendingFrame and frames)
          cursor,     \* pollCursor
          observed,   \* connectedRouterObserved
          loss,       \* routerLossObserved
          gauge,      \* active_subscriptions of the carrier diagnostics
          reconnects, \* CARRIER_METRIC_RECONNECTS_OBSERVED
          app,        \* the call under way: step, slots left to visit, whether frames fit
          declared,   \* external: the facade's declarations
          inbox,      \* external: the queue of each declaration
          full, big,  \* external: declarations with a drop or an oversize to report
          routers,    \* external: whether a router is connected
          declares, arrived, losses, \* how much of each bound is used
          source,     \* history: the declaration each frame arrived for
          taken,      \* history: frames polled from the facade in this session
          delivered,  \* history: frames copied to the caller
          owed,       \* history: declarations served while this one had a frame
          starved     \* history: some declaration was served twice while another waited

facade == <<declared, inbox, full, big>>
router == <<observed, loss, reconnects, routers, losses>>
table == <<phase, slot, gauge, declares>>
service == <<taken, delivered, owed, starved>>
vars == <<table, pending, cursor, router, app, facade, arrived, source, service>>

AppIdle == [step |-> "idle", left |-> 0, fits |-> FALSE]
FreeSlot == [handle |-> None, key |-> "none"]
SlotAt(i) == IF i \in Index THEN slot[i] ELSE FreeSlot
Occupied == {i \in Index : slot[i].handle # None}
Held == {slot[i].handle : i \in Occupied}
HasKey(k) == \E i \in Occupied : slot[i].key = k
Lowest(S) == CHOOSE i \in S : \A j \in S : i <= j
Return == app' = AppIdle

Init ==
  /\ phase = "idle" /\ slot = [i \in Index |-> FreeSlot] /\ gauge = 0
  /\ pending = None /\ cursor = 0 /\ observed = FALSE /\ loss = FALSE /\ reconnects = 0
  /\ app = AppIdle
  /\ declared = {} /\ inbox = [h \in Handles |-> <<>>] /\ full = {} /\ big = {}
  /\ routers = TRUE /\ declares = 0 /\ arrived = 0 /\ losses = 0
  /\ source = [f \in Frames |-> None]
  /\ taken = {} /\ delivered = <<>> /\ owed = [h \in Handles |-> {}] /\ starved = FALSE

-------------------------------------------------------------------------------
(* Session and table.                                                      *)

\* connect; a refused open leaves the carrier as it was.
Connect ==
  /\ app = AppIdle /\ phase \in {"idle", "disconnected"}
  /\ phase' = "connected"
  /\ observed' \in {routers, FALSE}
  /\ gauge' = Cardinality(Occupied)
  /\ UNCHANGED <<slot, declares, pending, cursor, loss, reconnects, routers, losses,
                 app, facade, arrived, source, service>>

\* subscribe; a key already held changes nothing, and neither does a refusal.
\* Faulty variant: the key is declared again.
Wanted_Again(k) == TRUE
Wanted(k) == ~HasKey(k)

Subscribe(k) ==
  LET i == Lowest(Index \ Occupied)
      h == declares + 1
  IN  /\ app = AppIdle /\ phase \in {"connected", "subscribed"} /\ Wanted(k)
      /\ Occupied # Index /\ declares < MaxDeclares
      /\ declares' = h /\ declared' = declared \cup {h}
      /\ slot' = [slot EXCEPT ![i] = [handle |-> h, key |-> k]]
      /\ phase' = "subscribed" /\ gauge' = Cardinality(Occupied) + 1
      /\ UNCHANGED <<pending, cursor, router, app, inbox, full, big, arrived, source, service>>

\* What the facade forgets with a declaration.
Drop(H) ==
  /\ declared' = declared \ H
  /\ inbox' = [h \in Handles |-> IF h \in H THEN <<>> ELSE inbox[h]]
  /\ full' = full \ H /\ big' = big \ H
  /\ owed' = [h \in Handles |-> IF h \in H THEN {} ELSE owed[h] \ H]

\* unsubscribe; the retained frame and the phase stay.  A removal the facade
\* refuses changes nothing.
\* Faulty variant: the slot is cleared although the facade still holds it.
Unsubscribe_SlotOnly(k) ==
  /\ app = AppIdle /\ phase = "subscribed"
  /\ \E i \in Occupied : slot[i].key = k /\ slot' = [slot EXCEPT ![i] = FreeSlot]
  /\ gauge' = Cardinality(Occupied) - 1
  /\ UNCHANGED <<phase, declares, pending, cursor, router, app, facade, arrived, source, service>>
Unsubscribe(k) ==
  /\ app = AppIdle /\ phase = "subscribed"
  /\ \E i \in Occupied :
       /\ slot[i].key = k /\ Drop({slot[i].handle})
       /\ slot' = [slot EXCEPT ![i] = FreeSlot]
  /\ gauge' = Cardinality(Occupied) - 1
  /\ UNCHANGED <<phase, declares, pending, cursor, router, app, arrived, source,
                 taken, delivered, starved>>

\* disconnect: whatever each removal reports, the close releases everything.
Disconnect ==
  /\ app = AppIdle /\ phase \in {"connected", "subscribed"}
  /\ phase' = "disconnected" /\ slot' = [i \in Index |-> FreeSlot] /\ gauge' = 0
  /\ pending' = None /\ observed' = FALSE /\ loss' = FALSE /\ cursor' = 0
  /\ Drop(declared) /\ taken' = {} /\ delivered' = <<>>
  /\ UNCHANGED <<declares, reconnects, routers, losses, app, arrived, source, starved>>

-------------------------------------------------------------------------------
(* pollOneEvent.                                                           *)

\* copyPendingFrame: a frame that does not fit stays pending.
\* Faulty variant: it is given up.
Copy_Discard(f, fits) ==
  IF fits THEN pending' = None /\ delivered' = Append(delivered, f)
          ELSE pending' = None /\ UNCHANGED delivered
Copy(f, fits) ==
  IF fits THEN pending' = None /\ delivered' = Append(delivered, f)
          ELSE pending' = f /\ UNCHANGED delivered

PollPending(fits) ==
  /\ app = AppIdle /\ phase = "subscribed" /\ pending # None
  /\ Copy(pending, fits)
  /\ UNCHANGED <<table, cursor, router, app, facade, arrived, source, taken, owed, starved>>

PollStart(fits) ==
  /\ app = AppIdle /\ phase = "subscribed" /\ pending = None /\ Occupied # {}
  /\ app' = [step |-> "scan", left |-> Size, fits |-> fits]
  /\ UNCHANGED <<table, pending, cursor, router, facade, arrived, source, service>>

\* Faulty variant: every step visits the first slot.
NextCursor_First == 0
NextCursor == (cursor + 1) % Size
Visited == SlotAt(NextCursor).handle
Scanning == app.step = "scan" /\ app.left > 0

\* Declaration h produced a frame or a notification while others have frames.
Serve(h, rest) ==
  LET waiting == {g \in Handles \ {h} : rest[g] # <<>>}
  IN  /\ starved' = (starved \/ \E g \in waiting : h \in owed[g])
      /\ owed' = [g \in Handles |-> IF g \in waiting THEN owed[g] \cup {h} ELSE {}]

ScanFrame ==
  /\ Scanning /\ Visited # None /\ inbox[Visited] # <<>>
  /\ cursor' = NextCursor
  /\ LET f == Head(inbox[Visited])
     IN  /\ inbox' = [inbox EXCEPT ![Visited] = Tail(@)]
         /\ taken' = taken \cup {f} /\ Copy(f, app.fits) /\ Serve(Visited, inbox')
  /\ Return
  /\ UNCHANGED <<table, router, declared, full, big, arrived, source>>

ScanFull ==
  /\ Scanning /\ Visited # None /\ inbox[Visited] = <<>> /\ Visited \in full
  /\ cursor' = NextCursor /\ full' = full \ {Visited} /\ Serve(Visited, inbox)
  /\ Return
  /\ UNCHANGED <<table, pending, router, declared, inbox, big, arrived, source, taken, delivered>>

\* A free slot, an empty queue, or an oversize report, which is counted: go on.
ScanOn ==
  /\ Scanning
  /\ Visited # None => inbox[Visited] = <<>> /\ Visited \notin full
  /\ cursor' = NextCursor /\ big' = big \ {Visited}
  /\ app' = [app EXCEPT !.left = @ - 1]
  /\ UNCHANGED <<table, pending, router, declared, inbox, full, arrived, source, service>>

ScanEnd ==
  /\ app.step = "scan" /\ app.left = 0
  /\ Return
  /\ UNCHANGED <<table, pending, cursor, router, facade, arrived, source, service>>

-------------------------------------------------------------------------------
(* waitForReconnect: one observation per step.                             *)

WaitStart ==
  /\ app = AppIdle /\ phase = "subscribed"
  /\ app' = [AppIdle EXCEPT !.step = "wait"]
  /\ UNCHANGED <<table, pending, cursor, router, facade, arrived, source, service>>

Restored ==
  /\ reconnects' = IF loss THEN reconnects + 1 ELSE reconnects
  /\ observed' = TRUE /\ loss' = FALSE

ObserveRouter ==
  /\ app.step = "wait" /\ routers
  /\ Restored /\ Return
  /\ UNCHANGED <<table, pending, cursor, routers, losses, facade, arrived, source, service>>

ObserveNone ==
  /\ app.step = "wait" /\ ~routers
  /\ loss' = (loss \/ observed) /\ observed' = FALSE
  /\ UNCHANGED <<table, pending, cursor, reconnects, routers, losses, app, facade, arrived, source, service>>

\* The deadline passed before or after an observation.
WaitTimeout ==
  /\ app.step = "wait" /\ Return
  /\ UNCHANGED <<table, pending, cursor, router, facade, arrived, source, service>>

-------------------------------------------------------------------------------
(* The facade's callbacks and the router.                                  *)

Arrive(h) ==
  /\ h \in declared /\ arrived < MaxFrames
  /\ arrived' = arrived + 1 /\ source' = [source EXCEPT ![arrived'] = h]
  /\ \/ /\ Len(inbox[h]) < Capacity
        /\ inbox' = [inbox EXCEPT ![h] = Append(@, arrived')] /\ UNCHANGED <<full, big>>
     \/ Len(inbox[h]) = Capacity /\ full' = full \cup {h} /\ UNCHANGED <<inbox, big>>
     \/ big' = big \cup {h} /\ UNCHANGED <<inbox, full>>
  /\ UNCHANGED <<table, pending, cursor, router, app, declared, service>>

RouterLost ==
  /\ routers /\ losses < MaxLosses
  /\ routers' = FALSE /\ losses' = losses + 1
  /\ UNCHANGED <<table, pending, cursor, observed, loss, reconnects, app, facade, arrived, source, service>>
RouterBack ==
  /\ ~routers /\ routers' = TRUE
  /\ UNCHANGED <<table, pending, cursor, observed, loss, reconnects, losses, app, facade, arrived, source, service>>

-------------------------------------------------------------------------------
Scan == ScanFrame \/ ScanFull \/ ScanOn \/ ScanEnd
Poll == Scan \/ \E fits \in BOOLEAN : PollPending(fits) \/ PollStart(fits)
Wait == ObserveRouter \/ ObserveNone \/ WaitTimeout

Next ==
  \/ Connect \/ Disconnect \/ \E k \in Keys : Subscribe(k) \/ Unsubscribe(k)
  \/ Poll \/ WaitStart \/ Wait
  \/ \E h \in Handles : Arrive(h)
  \/ RouterLost \/ RouterBack

Spec == Init /\ [][Next]_vars

-------------------------------------------------------------------------------
\* Every variable has its type.
TypeOK ==
  /\ phase \in {"idle", "connected", "subscribed", "disconnected"}
  /\ slot \in [Index -> [handle : Handles \cup {None}, key : Keys \cup {"none"}]]
  /\ pending \in Frames \cup {None} /\ cursor \in Index
  /\ observed \in BOOLEAN /\ loss \in BOOLEAN /\ routers \in BOOLEAN /\ starved \in BOOLEAN
  /\ gauge \in 0..Size /\ reconnects \in Nat
  /\ app \in [step : {"idle", "scan", "wait"}, left : 0..Size, fits : BOOLEAN]
  /\ declared \subseteq Handles /\ inbox \in [Handles -> Seq(Frames)]
  /\ full \subseteq Handles /\ big \subseteq Handles
  /\ declares \in 0..MaxDeclares /\ arrived \in 0..MaxFrames /\ losses \in 0..MaxLosses
  /\ source \in [Frames -> Handles \cup {None}]
  /\ taken \subseteq Frames /\ delivered \in Seq(Frames)
  /\ owed \in [Handles -> SUBSET Handles]

(* The table and the facade agree: every declaration is held in exactly    *)
(* one slot, no key is declared twice, and the gauge the diagnostics       *)
(* report is the number of declarations.                                   *)
TableMatchesFacade ==
  /\ Held = declared /\ Cardinality(Occupied) = Cardinality(declared)
  /\ \A i, j \in Occupied : slot[i].key = slot[j].key => i = j
  /\ gauge = Cardinality(declared)

(* A frame that does not fit caller storage "is never lost": what was      *)
(* polled from the facade in this session is delivered or retained, each   *)
(* frame once, and the frames of one declaration in their order.           *)
PolledNeverLost ==
  /\ taken = {delivered[i] : i \in DOMAIN delivered} \cup ({pending} \ {None})
  /\ \A i, j \in DOMAIN delivered :
       i < j => /\ delivered[i] # delivered[j]
                /\ source[delivered[i]] = source[delivered[j]] => delivered[i] < delivered[j]

(* "Subscriptions are drained round-robin": while a declaration has a      *)
(* frame waiting, no other one is served twice.                            *)
NobodyStarves == ~starved

================================================================================
