------------------------------ MODULE ZenohRegistry ------------------------------
(***************************************************************************)
(* Sessions, subscriptions and the callbacks Zenoh runs for them           *)
(* (Transports/zenoh-pico/main/zenoh_pico_queue.c, registry part, and      *)
(* zenoh_pico_facade.c).                                                   *)
(*                                                                         *)
(* One application task opens and closes sessions, subscribes and          *)
(* unsubscribes.  Zenoh dispatches callbacks on tasks of its own: a        *)
(* callback holds the address of its queue, claims the declaration it was  *)
(* registered for, copies one frame and leaves.  Removal deactivates the   *)
(* slot, undeclares, waits with a bounded spin for the claims in flight,   *)
(* and frees the queue.  The undeclare promises nothing about callbacks:   *)
(* one that runs goes on, and one may be dispatched after it.              *)
(*                                                                         *)
(* A queue is named by the number of its reservation, so a freed queue,    *)
(* its successor in the same slot and the next one in the same memory all  *)
(* differ.  What a queue holds is modelled in ZenohQueue; here a           *)
(* callback's admit is the one step "copy".                                *)
(***************************************************************************)
EXTENDS Integers, FiniteSets

CONSTANTS Sessions,    \* indices of the fixed session slots, 0..n
          Slots,       \* indices of the subscriber slots of a session, 0..m
          Callbacks,   \* callbacks that may run at the same time
          Blocks,      \* the places calloc can put a queue at
          MaxReserves, \* bound: how many subscriptions are ever made
          SpinLimit,   \* ZENOH_PICO_DRAIN_SPIN_LIMIT
          Modulus,     \* the number of values of a uint32_t
          HandleGens   \* generations a handle can carry: 2^27 with 32-bit pointers

ASSUME RegistryAssumption ==
  /\ Sessions \subseteq Nat /\ IsFiniteSet(Sessions) /\ 0 \in Sessions
  /\ Slots \subseteq Nat /\ IsFiniteSet(Slots) /\ 0 \in Slots
  /\ Blocks \subseteq Nat /\ 0 \in Blocks
  /\ IsFiniteSet(Callbacks) /\ Cardinality(Callbacks) < Modulus
  /\ MaxReserves \in Nat /\ MaxReserves < Modulus
  /\ SpinLimit \in Nat /\ Modulus \in Nat \ {0} /\ HandleGens \in 1..Modulus

Null == 0
Queues == 1..MaxReserves
Record == [queue : Queues \cup {Null}, generation : 0..(Modulus - 1),
           active : {0, 1}, in_flight : 0..(Modulus - 1)]

VARIABLES
  state,     \* state[s]: "open" or "closed"
  record,    \* record[s][i]: one axoloty_zenoh_subscription
  reserved,  \* number of reservations made; queue q is the q-th one
  owner,     \* owner[q]: session, slot and generation written in queue q, and its memory
  live,      \* queues allocated and not freed
  held,      \* queues that were declared and whose handle the application received
  app,       \* the application task's step inside a removal
  cb,        \* cb[c]: step and identity of callback c
  abandoned, \* history: queues whose drain ended while a claim was counted
  overtaken  \* history: queues of a slot reserved again over a counted claim

(***************************************************************************)
(* A callback keeps the address it was registered with: context is the     *)
(* queue that address was, queue the one whose session, slot and           *)
(* generation it read there.  late is history: the callback was dispatched *)
(* when its declaration was no longer active.                              *)
(***************************************************************************)
history == <<abandoned, overtaken>>
vars == <<state, record, reserved, owner, live, held, app, cb, history>>
registry == <<state, record, reserved, owner, live, held, app, history>>

\* The slots of a session that hold a queue.
Occupied(s) == {i \in Slots : record[s][i].queue # Null}
Lowest(S) == CHOOSE i \in S : \A j \in S : i <= j
At(q) == record[owner[q].session][owner[q].slot]
Idle == [step |-> "idle", session |-> 0, slot |-> 0, spins |-> 0, closing |-> FALSE]
NoCallback == [step |-> "idle", context |-> Null, queue |-> Null, late |-> FALSE]

\* Callbacks whose claim is in the in-flight count.
Counted(c) == cb[c].step \in {"recheck", "reactive", "copy", "leave"}

Init ==
  /\ state = [s \in Sessions |-> "closed"]
  /\ record = [s \in Sessions |-> [i \in Slots |->
                 [queue |-> Null, generation |-> 0, active |-> 0, in_flight |-> 0]]]
  /\ reserved = 0 /\ live = {} /\ held = {}
  /\ owner = [q \in Queues |-> [session |-> 0, slot |-> 0, generation |-> 0, block |-> 0]]
  /\ app = Idle
  /\ cb = [c \in Callbacks |-> NoCallback]
  /\ abandoned = {} /\ overtaken = {}

-------------------------------------------------------------------------------
(* Handles: the session, the slot and what fits of the generation.         *)

EncodeHandle(q) == [session |-> owner[q].session, slot |-> owner[q].slot,
                    generation |-> owner[q].generation % HandleGens]

\* zenoh_pico_subscription_resolve: the record a handle names in session s.
Resolves(s, handle) ==
  LET r == record[s][handle.slot]
  IN  /\ state[s] = "open"
      /\ handle.generation # 0 /\ handle.session = s
      /\ r.queue # Null /\ r.active = 1 /\ r.generation = handle.generation

-------------------------------------------------------------------------------
(* The application task.                                                   *)

\* axoloty_zenoh_open takes the first slot that is not open.  An open that
\* fails or is late releases the slot again and changes nothing.
OpenSession ==
  LET free == {s \in Sessions : state[s] # "open"}
  IN  /\ app = Idle /\ free # {}
      /\ state' = [state EXCEPT ![Lowest(free)] = "open"]
      /\ UNCHANGED <<record, reserved, owner, live, held, app, cb, history>>

\* Faulty variant: the slot is reused under the same generation.
NextGeneration_Kept(g) == IF g = 0 THEN 1 ELSE g
NextGeneration(g) == IF (g + 1) % Modulus = 0 THEN 1 ELSE (g + 1) % Modulus

\* The queues of callbacks counted in slot i of session s.
ClaimedIn(s, i) ==
  {cb[c].queue : c \in {d \in Callbacks : Counted(d) /\ owner[cb[d].queue].session = s
                                                    /\ owner[cb[d].queue].slot = i}}

\* zenoh_pico_subscription_reserve followed by the declaration.  No callback of
\* the new queue exists before it is declared, so the reservation is one step.
\* The memory may be that of a freed queue.  The count starts from zero, whatever
\* claims it still held.  When the key or the declaration is refused, the record
\* is released.
Subscribe(s) ==
  LET i == Lowest(Slots \ Occupied(s))
      q == reserved + 1
      g == NextGeneration(record[s][i].generation)
      claimed == ClaimedIn(s, i)
  IN  /\ app = Idle /\ state[s] = "open" /\ Slots \ Occupied(s) # {} /\ reserved < MaxReserves
      /\ reserved' = q
      /\ \E b \in Blocks \ {owner[p].block : p \in live} :
           owner' = [owner EXCEPT ![q] = [session |-> s, slot |-> i, generation |-> g, block |-> b]]
      /\ live' = live \cup {q}
      /\ record' = [record EXCEPT ![s][i] =
                      [queue |-> q, generation |-> g, active |-> 1, in_flight |-> 0]]
      /\ overtaken' = IF claimed = {} THEN overtaken ELSE overtaken \cup claimed \cup {q}
      /\ \/ held' = held \cup {q} /\ UNCHANGED app
         \/ app' = [Idle EXCEPT !.step = "release", !.session = s, !.slot = i] /\ UNCHANGED held
      /\ UNCHANGED <<state, cb, abandoned>>

\* axoloty_zenoh_unsubscribe on a handle that resolves starts a removal.
Unsubscribe(s, q) ==
  /\ app = Idle /\ q \in held /\ Resolves(s, EncodeHandle(q))
  /\ app' = [Idle EXCEPT !.step = "deactivate", !.session = s, !.slot = EncodeHandle(q).slot]
  /\ UNCHANGED <<state, record, reserved, owner, live, held, cb, history>>

\* axoloty_zenoh_close removes every occupied slot, then closes the session.
CloseSession(s) ==
  /\ app = Idle /\ state[s] = "open"
  /\ app' = [Idle EXCEPT !.step = "next", !.session = s, !.closing = TRUE]
  /\ UNCHANGED <<state, record, reserved, owner, live, held, cb, history>>

CloseNext ==
  LET rest == Occupied(app.session)
  IN  /\ app.step = "next"
      /\ IF rest # {}
           THEN /\ app' = [app EXCEPT !.step = "deactivate", !.slot = Lowest(rest)]
                /\ UNCHANGED state
           ELSE /\ app' = Idle
                /\ state' = [state EXCEPT ![app.session] = "closed"]
      /\ UNCHANGED <<record, reserved, owner, live, held, cb, history>>

Removed == record[app.session][app.slot]

\* remove_subscription, step by step: deactivate, undeclare and release, drain, free.
\* The undeclare changes nothing here: a callback that runs goes on.
Deactivate ==
  /\ app.step = "deactivate"
  /\ record' = [record EXCEPT ![app.session][app.slot].active = 0]
  /\ app' = [app EXCEPT !.step = "release"]
  /\ UNCHANGED <<state, reserved, owner, live, held, cb, history>>

\* zenoh_pico_subscription_release; a record that was never declared starts here.
Release ==
  /\ app.step = "release"
  /\ record' = [record EXCEPT ![app.session][app.slot].active = 0]
  /\ app' = [app EXCEPT !.step = "drain"]
  /\ UNCHANGED <<state, reserved, owner, live, held, cb, history>>

\* zenoh_pico_callback_drain, one load of the count per step; after the last
\* one the wait is given up and the queue is freed all the same.
\* Faulty variant: a wait without bound.
Spin_Unbounded ==
  /\ app.step = "drain"
  /\ app' = IF Removed.in_flight = 0 THEN [app EXCEPT !.step = "free"] ELSE app
  /\ UNCHANGED <<state, record, reserved, owner, live, held, cb, history>>
Spin ==
  /\ app.step = "drain"
  /\ IF app.spins = SpinLimit
       THEN app' = [app EXCEPT !.step = "free"] /\ abandoned' = abandoned \cup {Removed.queue}
       ELSE /\ app' = IF Removed.in_flight = 0 THEN [app EXCEPT !.step = "free"]
                                              ELSE [app EXCEPT !.spins = @ + 1]
            /\ UNCHANGED abandoned
  /\ UNCHANGED <<state, record, reserved, owner, live, held, cb, overtaken>>

Free ==
  /\ app.step = "free"
  /\ live' = live \ {Removed.queue}
  /\ record' = [record EXCEPT ![app.session][app.slot].queue = Null]
  /\ app' = IF app.closing THEN [app EXCEPT !.step = "next", !.spins = 0] ELSE Idle
  /\ UNCHANGED <<state, reserved, owner, held, cb, history>>

Remove == CloseNext \/ Deactivate \/ Release \/ Spin \/ Free

-------------------------------------------------------------------------------
(* Zenoh's callbacks: receive_sample and the claim.                        *)

CbGoto(c, step) == cb' = [cb EXCEPT ![c].step = step]
CbReturn(c) == cb' = [cb EXCEPT ![c] = NoCallback]

\* Zenoh dispatches a sample to a queue that was declared, also after its undeclare.
Dispatch(c, q) ==
  /\ cb[c] = NoCallback /\ q \in held
  /\ cb' = [cb EXCEPT ![c] = [step |-> "enter", context |-> q, queue |-> Null,
                              late |-> At(q).queue # q \/ At(q).active = 0]]
  /\ UNCHANGED registry

\* The queue last written where queue q is or was.
Holder(q) ==
  CHOOSE p \in 1..reserved : /\ owner[p].block = owner[q].block
                             /\ \A r \in (p + 1)..reserved : owner[r].block # owner[q].block

\* The callback reads session, slot and generation from its queue.  A freed queue
\* may still hold them, or hold anything, which ends the callback; memory that
\* is a queue again holds those of that queue.
Enter(c) ==
  LET q == Holder(cb[c].context)
  IN  /\ cb[c].step = "enter"
      /\ \/ cb' = [cb EXCEPT ![c].step = "check", ![c].queue = q]
         \/ q \notin live /\ CbReturn(c)
      /\ UNCHANGED registry

SameGeneration(c) == At(cb[c].queue).generation = owner[cb[c].queue].generation
Active(c) == At(cb[c].queue).active = 1

\* zenoh_pico_callback_claim: check, count, check again.  The generation and the
\* active flag are loaded one after the other, both times.
CheckGeneration(c) ==
  /\ cb[c].step = "check"
  /\ IF At(cb[c].queue).queue # Null /\ SameGeneration(c) THEN CbGoto(c, "active") ELSE CbReturn(c)
  /\ UNCHANGED registry

CheckActive(c) ==
  /\ cb[c].step = "active"
  /\ IF Active(c) THEN CbGoto(c, "count") ELSE CbReturn(c)
  /\ UNCHANGED registry

AddInFlight(q, amount) ==
  record' = [record EXCEPT ![owner[q].session][owner[q].slot].in_flight = (@ + amount) % Modulus]

CountClaim(c) ==
  /\ cb[c].step = "count"
  /\ AddInFlight(cb[c].queue, 1)
  /\ CbGoto(c, "recheck")
  /\ UNCHANGED <<state, reserved, owner, live, held, app, history>>

\* A claim the second check refuses is given back.
GiveBack(c) == CbReturn(c) /\ AddInFlight(cb[c].queue, -1)

\* Faulty variant: the second check looks at the flag only.
RecheckGeneration_Dropped(c) ==
  /\ cb[c].step = "recheck"
  /\ CbGoto(c, "reactive")
  /\ UNCHANGED registry
RecheckGeneration(c) ==
  /\ cb[c].step = "recheck"
  /\ IF SameGeneration(c) THEN CbGoto(c, "reactive") /\ UNCHANGED record ELSE GiveBack(c)
  /\ UNCHANGED <<state, reserved, owner, live, held, app, history>>

\* Faulty variant: the second check does not look at the flag.
RecheckActive_Dropped(c) ==
  /\ cb[c].step = "reactive"
  /\ CbGoto(c, "copy")
  /\ UNCHANGED registry
RecheckActive(c) ==
  /\ cb[c].step = "reactive"
  /\ IF Active(c) THEN CbGoto(c, "copy") /\ UNCHANGED record ELSE GiveBack(c)
  /\ UNCHANGED <<state, reserved, owner, live, held, app, history>>

Copy(c) ==
  /\ cb[c].step = "copy"
  /\ CbGoto(c, "leave")
  /\ UNCHANGED registry

\* zenoh_pico_callback_leave.
Leave(c) ==
  /\ cb[c].step = "leave"
  /\ AddInFlight(cb[c].queue, -1)
  /\ CbReturn(c)
  /\ UNCHANGED <<state, reserved, owner, live, held, app, history>>

Claim(c) == CheckGeneration(c) \/ CheckActive(c) \/ CountClaim(c) \/ RecheckGeneration(c) \/ RecheckActive(c)
Receive(c) == Enter(c) \/ Claim(c) \/ Copy(c) \/ Leave(c)

-------------------------------------------------------------------------------
Next ==
  \/ OpenSession
  \/ \E s \in Sessions : Subscribe(s) \/ CloseSession(s) \/ \E q \in Queues : Unsubscribe(s, q)
  \/ Remove
  \/ \E c \in Callbacks : Receive(c) \/ \E q \in Queues : Dispatch(c, q)

Spec == Init /\ [][Next]_vars

\* The application task and a running callback each get the processor.
Fairness == WF_vars(Remove) /\ \A c \in Callbacks : WF_vars(Receive(c))
FairSpec == Spec /\ Fairness

-------------------------------------------------------------------------------
AppStep == {"idle", "next", "deactivate", "release", "drain", "free"}
CbStep == {"idle", "enter", "check", "active", "count", "recheck", "reactive", "copy", "leave"}

\* Every variable has its type.
TypeOK ==
  /\ state \in [Sessions -> {"open", "closed"}]
  /\ record \in [Sessions -> [Slots -> Record]]
  /\ reserved \in 0..MaxReserves
  /\ owner \in [Queues -> [session : Sessions, slot : Slots, generation : 0..(Modulus - 1),
                         block : Blocks]]
  /\ live \subseteq Queues /\ held \subseteq Queues
  /\ abandoned \subseteq Queues /\ overtaken \subseteq Queues
  /\ app \in [step : AppStep, session : Sessions, slot : Slots, spins : 0..SpinLimit,
              closing : BOOLEAN]
  /\ cb \in [Callbacks -> [step : CbStep, context : Queues \cup {Null},
                           queue : Queues \cup {Null}, late : BOOLEAN]]

(* A callback that passed its claim copies into an allocated queue: "the   *)
(* ones already copying are waited for before the queue is released".      *)
CopyIntoLiveQueue == \A c \in Callbacks : cb[c].step = "copy" => cb[c].queue \in live

(* The same of the queues whose drain saw no claim left: a removal that    *)
(* waited long enough has ended all copying.                               *)
CopyAfterDrain ==
  \A c \in Callbacks : cb[c].step = "copy" => cb[c].queue \in live \cup abandoned

(* What the claim does guarantee: a callback copies into a freed queue     *)
(* only when the drain gave up on that queue, or when its slot was         *)
(* reserved again over a counted claim.  Short of these two the check, the *)
(* count and the second check shut out every interleaving of callbacks     *)
(* with the removal, reuse of slots, sessions and memory included.         *)
CopyExplained ==
  \A c \in Callbacks : cb[c].step = "copy" => cb[c].queue \in live \cup abandoned \cup overtaken

(* "A late callback is rejected by generation": one that is dispatched     *)
(* when its declaration is no longer active copies nothing under that      *)
(* declaration, although it may pass the first check while the slot is     *)
(* being removed and find the slot active again after a reservation.  It   *)
(* can copy only as another queue, which its memory had become.            *)
LateRejected ==
  \A c \in Callbacks : cb[c].late /\ cb[c].queue = cb[c].context => cb[c].step \notin {"copy", "leave"}

(* A handle resolves exactly while the subscription it was given for is    *)
(* declared: a stale handle never reaches a reused slot, and a fresh one   *)
(* is never refused.                                                       *)
HandlesIdentify ==
  \A q \in held, s \in Sessions :
    Resolves(s, EncodeHandle(q)) <=>
      s = owner[q].session /\ At(q).queue = q /\ At(q).active = 1

(* A removal, and with it a close, ends, whatever the in-flight count was  *)
(* left at by callbacks of earlier declarations of the slot.               *)
RemovalEnds == app # Idle ~> app = Idle
================================================================================
