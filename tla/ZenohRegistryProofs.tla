--------------------------- MODULE ZenohRegistryProofs ---------------------------
(***************************************************************************)
(* What ZenohRegistry guarantees for every number of sessions, slots and   *)
(* callbacks and every generation width.                                   *)
(***************************************************************************)
EXTENDS ZenohRegistry, ModularArithmetic, FiniteSetTheorems, WellFoundedInduction, TLAPS

Removing == {"deactivate", "release", "drain", "free"}

(* A slot that holds a queue holds the allocated one that names it, and its
   session is open; every allocated queue is in its slot. *)
Placed ==
  /\ \A s \in Sessions, i \in Slots :
       record[s][i].queue # Null =>
         /\ record[s][i].queue \in live /\ state[s] = "open"
         /\ owner[record[s][i].queue].session = s /\ owner[record[s][i].queue].slot = i
  /\ \A q \in live : q <= reserved /\ At(q).queue = q

(* A slot counts its reservations: the queues that were there carry earlier
   generations than the one that is. *)
Generations ==
  /\ \A s \in Sessions, i \in Slots : record[s][i].generation <= reserved
  /\ \A q \in Queues : q <= reserved =>
       /\ 1 <= owner[q].generation /\ owner[q].generation <= At(q).generation
       /\ At(q).queue # Null => (At(q).queue = q <=> owner[q].generation = At(q).generation)

(* A removal is of an occupied slot, which is inactive from the drain on; an
   empty slot is inactive. *)
Removals ==
  /\ \A q \in held : q <= reserved
  /\ app.step \in Removing => Removed.queue # Null
  /\ app.step \in {"drain", "free"} => Removed.active = 0
  /\ \A s \in Sessions, i \in Slots : record[s][i].queue = Null => record[s][i].active = 0

(* A running callback was dispatched to a queue reserved before, and past its
   entry it is one of a queue reserved before. *)
Contexts ==
  \A c \in Callbacks :
    /\ cb[c].step # "idle" => cb[c].context \in Queues /\ cb[c].context <= reserved
    /\ cb[c].step \notin {"idle", "enter"} => cb[c].queue \in Queues /\ cb[c].queue <= reserved

RegistryInv == TypeOK /\ Placed /\ Generations /\ Removals /\ Contexts

-------------------------------------------------------------------------------
(* The operators of the model.                                             *)

\* The first free slot is a free slot, and the first one.
LEMMA LowestIn ==
  ASSUME NEW S, S \subseteq Nat, S # {}
  PROVE  Lowest(S) \in S /\ \A j \in S : Lowest(S) <= j
<1> DEFINE R == {ss \in Nat \X Nat : ss[1] < ss[2]}
<1>1. IsWellFoundedOn(R, Nat) BY NatLessThanWellFounded DEF OpToRel
<1> HIDE DEF R
<1>2. PICK x \in S : \A y \in S : ~ (<<y, x>> \in R) BY <1>1, WFMin
<1>3. \A y \in S : ~(y < x) BY <1>2 DEF R
<1>4. \E i \in S : \A j \in S : i <= j BY <1>3
<1> QED BY <1>4 DEF Lowest

\* A record written into one slot leaves the other slots alone.
LEMMA SlotWrite ==
  ASSUME record \in [Sessions -> [Slots -> Record]], NEW s \in Sessions, NEW i \in Slots,
         NEW r \in Record, record' = [record EXCEPT ![s][i] = r]
  PROVE  /\ record' \in [Sessions -> [Slots -> Record]]
         /\ record'[s][i] = r
         /\ \A t \in Sessions, j \in Slots : t # s \/ j # i => record'[t][j] = record[t][j]
<1>1. [record[s] EXCEPT ![i] = r] \in [Slots -> Record] OBVIOUS
<1>2. record' = [record EXCEPT ![s] = [record[s] EXCEPT ![i] = r]] OBVIOUS
<1>3. record' \in [Sessions -> [Slots -> Record]] BY <1>1, <1>2
<1>4. record'[s] = [record[s] EXCEPT ![i] = r] BY <1>2
<1>5. \A t \in Sessions : t # s => record'[t] = record[t] BY <1>2
<1> QED BY <1>3, <1>4, <1>5

\* The next generation is one more, as long as the counter has not come round.
LEMMA NextGenerationCounts ==
  ASSUME NEW g \in 0 .. MaxReserves, g < MaxReserves
  PROVE  NextGeneration(g) = g + 1
<1>1. g + 1 \in 0 .. (Modulus - 1) /\ Modulus \in Nat \ {0} BY RegistryAssumption
<1>2. (g + 1) % Modulus = g + 1 BY <1>1, ModSmall
<1> QED BY <1>2 DEF NextGeneration

-------------------------------------------------------------------------------
(* The callbacks' steps.                                                   *)

(* Nothing of the slots but their in-flight counts has changed. *)
CountsOnly ==
  /\ record' \in [Sessions -> [Slots -> Record]]
  /\ \A s \in Sessions, i \in Slots :
       /\ record'[s][i].queue = record[s][i].queue
       /\ record'[s][i].generation = record[s][i].generation
       /\ record'[s][i].active = record[s][i].active

Callback == [step : CbStep, context : Queues \cup {Null}, queue : Queues \cup {Null},
             late : BOOLEAN]

LEMMA AddEffect ==
  ASSUME TypeOK, NEW q \in Queues, NEW amount \in Int, AddInFlight(q, amount)
  PROVE  CountsOnly
<1> DEFINE s == owner[q].session  i == owner[q].slot
<1>1. s \in Sessions /\ i \in Slots /\ record \in [Sessions -> [Slots -> Record]] BY DEF TypeOK
<1>2. record[s][i] \in Record BY <1>1
<1>a. record[s][i].in_flight + amount \in Int /\ Modulus \in Nat \ {0}
  BY <1>2, RegistryAssumption DEF Record
<1>3. (record[s][i].in_flight + amount) % Modulus \in 0 .. (Modulus - 1) BY <1>a, ModRange
<1> DEFINE r == [record[s][i] EXCEPT !.in_flight = (@ + amount) % Modulus]
<1>4. r \in Record /\ r.queue = record[s][i].queue /\ r.generation = record[s][i].generation
      /\ r.active = record[s][i].active
  BY <1>2, <1>3 DEF Record
<1>5. record' = [record EXCEPT ![s][i] = r] BY DEF AddInFlight
<1> HIDE DEF r, s, i
<1> QED BY <1>1, <1>4, <1>5, SlotWrite DEF CountsOnly

\* The queue last written in a queue's memory is a reserved one.
LEMMA HolderType ==
  ASSUME TypeOK, NEW q \in Queues, q <= reserved
  PROVE  Holder(q) \in Queues /\ Holder(q) <= reserved
<1>1. reserved \in Nat /\ reserved <= MaxReserves /\ MaxReserves \in Nat
  BY RegistryAssumption DEF TypeOK
<1> DEFINE S == {n \in Nat : n < reserved /\ owner[reserved - n].block = owner[q].block}
           H(p) == /\ p \in 1..reserved /\ owner[p].block = owner[q].block
                   /\ \A r \in (p + 1)..reserved : owner[r].block # owner[q].block
<1>2. reserved - q \in S
  <2>1. q \in Nat /\ 1 <= q BY DEF Queues
  <2>2. reserved - q \in Nat /\ reserved - q < reserved /\ reserved - (reserved - q) = q
    BY <1>1, <2>1
  <2> QED BY <2>2
<1>3. PICK n \in S : \A m \in S : n <= m
  <2>1. S \subseteq Nat /\ S # {} BY <1>2
  <2> HIDE DEF S
  <2>2. Lowest(S) \in S /\ \A m \in S : Lowest(S) <= m BY <2>1, LowestIn
  <2> QED BY <2>2
<1>4. H(reserved - n)
  <2>1. n \in Nat /\ n < reserved /\ owner[reserved - n].block = owner[q].block BY <1>3
  <2>2. ASSUME NEW r \in (reserved - n + 1)..reserved, owner[r].block = owner[q].block PROVE FALSE
    <3>1. reserved - r \in Nat /\ reserved - r < n /\ reserved - r < reserved
          /\ reserved - (reserved - r) = r
      BY <1>1, <2>1
    <3>2. reserved - r \in S BY <2>2, <3>1
    <3> HIDE DEF S
    <3> QED BY <1>3, <2>1, <3>1, <3>2
  <2>3. reserved - n \in 1..reserved BY <1>1, <2>1
  <2> QED BY <2>1, <2>2, <2>3
<1>5. H(Holder(q))
  <2> HIDE DEF S
  <2>1. Holder(q) = CHOOSE p \in 1..reserved :
          /\ owner[p].block = owner[q].block
          /\ \A r \in (p + 1)..reserved : owner[r].block # owner[q].block
    BY DEF Holder
  <2> QED BY <1>4, <2>1
<1> HIDE DEF S
<1> QED BY <1>1, <1>5 DEF Queues

(* A callback that moves on: to step st, as a callback of queue q. *)
Moved(c, st, q) == cb' = [cb EXCEPT ![c] = [cb[c] EXCEPT !.step = st, !.queue = q]]

\* A step of a running callback moves it on or ends it, and touches nothing
\* else than an in-flight count; only its entry says which queue's it is.
LEMMA ReceiveEffect ==
  ASSUME TypeOK, Contexts, NEW c \in Callbacks, Receive(c)
  PROVE  /\ CountsOnly
         /\ UNCHANGED <<state, reserved, owner, live, held, app, history>>
         /\ cb[c].step # "idle"
         /\ \/ cb' = [cb EXCEPT ![c] = NoCallback]
            \/ \E st \in CbStep \ {"idle", "enter"}, q \in Queues :
                 /\ Moved(c, st, q) /\ q <= reserved
                 /\ cb[c].step = "enter" => st = "check"
                 /\ cb[c].step # "enter" => q = cb[c].queue
<1> DEFINE Q == cb[c].queue
           Onward(st) == /\ cb[c].step \notin {"idle", "enter"} /\ CbGoto(c, st)
<1>0. ASSUME UNCHANGED record PROVE CountsOnly BY <1>0 DEF CountsOnly, TypeOK
<1>a. ASSUME NEW st \in CbStep \ {"idle", "enter"}, Onward(st)
      PROVE  Moved(c, st, Q) /\ Q \in Queues /\ Q <= reserved
  <2>1. Q \in Queues /\ Q <= reserved BY <1>a DEF Contexts
  <2>2. cb[c] \in Callback BY DEF TypeOK, Callback
  <2>3. [cb[c] EXCEPT !.step = st] = [cb[c] EXCEPT !.step = st, !.queue = Q] BY <2>2 DEF Callback
  <2> QED BY <1>a, <2>1, <2>3 DEF Moved, CbGoto
<1>b. ASSUME cb[c].step \notin {"idle", "enter"} PROVE Q \in Queues BY <1>b DEF Contexts
<1>1. CASE Enter(c)
  <2>1. cb[c].context \in Queues /\ cb[c].context <= reserved BY <1>1 DEF Enter, Contexts
  <2>2. PICK q \in Queues : q = Holder(cb[c].context) /\ q <= reserved BY <2>1, HolderType
  <2>3. \/ cb' = [cb EXCEPT ![c].step = "check", ![c].queue = q]
        \/ CbReturn(c)
    BY <1>1, <2>2 DEF Enter
  <2>4. cb[c].step = "enter" /\ UNCHANGED registry BY <1>1 DEF Enter
  <2>5. ASSUME cb' = [cb EXCEPT ![c].step = "check", ![c].queue = q] PROVE Moved(c, "check", q)
    <3>1. cb \in [Callbacks -> Callback] BY DEF TypeOK, Callback
    <3> QED BY <2>5, <3>1 DEF Moved
  <2> QED BY <1>0, <2>2, <2>3, <2>4, <2>5 DEF CbReturn, CbStep, registry
<1>2. CASE CheckGeneration(c)
  <2>1. UNCHANGED registry /\ (Onward("active") \/ CbReturn(c)) /\ cb[c].step = "check"
    BY <1>2 DEF CheckGeneration
  <2> QED BY <1>0, <1>a, <2>1 DEF CbReturn, CbStep, registry
<1>3. CASE CheckActive(c)
  <2>1. UNCHANGED registry /\ (Onward("count") \/ CbReturn(c)) /\ cb[c].step = "active"
    BY <1>3 DEF CheckActive
  <2> QED BY <1>0, <1>a, <2>1 DEF CbReturn, CbStep, registry
<1>5. CASE CountClaim(c)
  <2>1. /\ AddInFlight(Q, 1) /\ Onward("recheck") /\ cb[c].step = "count"
        /\ UNCHANGED <<state, reserved, owner, live, held, app, history>>
    BY <1>5 DEF CountClaim
  <2>2. CountsOnly BY <1>b, <2>1, AddEffect
  <2> QED BY <1>a, <2>1, <2>2 DEF CbStep
<1>c. ASSUME cb[c].step \notin {"idle", "enter"}, GiveBack(c) PROVE CountsOnly /\ CbReturn(c)
  BY <1>b, <1>c, AddEffect DEF GiveBack
<1>6. CASE RecheckGeneration(c)
  <2>1. /\ (Onward("reactive") /\ UNCHANGED record) \/ GiveBack(c)
        /\ cb[c].step = "recheck" /\ UNCHANGED <<state, reserved, owner, live, held, app, history>>
    BY <1>6 DEF RecheckGeneration
  <2> QED BY <1>0, <1>a, <1>c, <2>1 DEF CbReturn, CbStep
<1>7. CASE RecheckActive(c)
  <2>1. /\ (Onward("copy") /\ UNCHANGED record) \/ GiveBack(c)
        /\ cb[c].step = "reactive" /\ UNCHANGED <<state, reserved, owner, live, held, app, history>>
    BY <1>7 DEF RecheckActive
  <2> QED BY <1>0, <1>a, <1>c, <2>1 DEF CbReturn, CbStep
<1>8. CASE Copy(c)
  <2>1. UNCHANGED registry /\ Onward("leave") /\ cb[c].step = "copy" BY <1>8 DEF Copy
  <2> QED BY <1>0, <1>a, <2>1 DEF CbStep, registry
<1>9. CASE Leave(c)
  <2>1. /\ GiveBack(c) /\ cb[c].step = "leave"
        /\ UNCHANGED <<state, reserved, owner, live, held, app, history>>
    BY <1>9 DEF Leave, GiveBack
  <2> QED BY <1>c, <2>1 DEF CbReturn
<1> QED BY <1>1, <1>2, <1>3, <1>5, <1>6, <1>7, <1>8, <1>9 DEF Receive, Claim

-------------------------------------------------------------------------------
(* The application's steps on one slot.                                    *)

\* The slot under removal exists.
LEMMA RemovedType ==
  ASSUME TypeOK
  PROVE  app.session \in Sessions /\ app.slot \in Slots /\ Removed \in Record
  BY DEF TypeOK, Removed

SlotDeactivated == record' = [record EXCEPT ![app.session][app.slot].active = 0]
SlotFreed == record' = [record EXCEPT ![app.session][app.slot].queue = Null]

\* Deactivating a slot changes its active flag only.
LEMMA DeactivateEffect ==
  ASSUME TypeOK, SlotDeactivated
  PROVE  /\ record' \in [Sessions -> [Slots -> Record]]
         /\ \A s \in Sessions, i \in Slots :
              /\ record'[s][i].queue = record[s][i].queue
              /\ record'[s][i].generation = record[s][i].generation
              /\ record'[s][i].in_flight = record[s][i].in_flight
              /\ record'[s][i].active =
                   IF s = app.session /\ i = app.slot THEN 0 ELSE record[s][i].active
<1> DEFINE r == [Removed EXCEPT !.active = 0]
<1>1. r \in Record /\ r.queue = Removed.queue /\ r.generation = Removed.generation
      /\ r.in_flight = Removed.in_flight /\ r.active = 0
  BY RemovedType DEF Record
<1>2. record' = [record EXCEPT ![app.session][app.slot] = r] BY DEF Removed, SlotDeactivated
<1>3. record \in [Sessions -> [Slots -> Record]] BY DEF TypeOK
<1> HIDE DEF r
<1>4. app.session \in Sessions /\ app.slot \in Slots /\ Removed = record[app.session][app.slot]
  BY RemovedType DEF Removed
<1>5. /\ record' \in [Sessions -> [Slots -> Record]] /\ record'[app.session][app.slot] = r
      /\ \A t \in Sessions, j \in Slots :
           t # app.session \/ j # app.slot => record'[t][j] = record[t][j]
  <2> DEFINE at == app.session  slot == app.slot
  <2>1. at \in Sessions /\ slot \in Slots /\ record' = [record EXCEPT ![at][slot] = r]
    BY <1>2, <1>4
  <2> HIDE DEF at, slot
  <2>2. /\ record' \in [Sessions -> [Slots -> Record]] /\ record'[at][slot] = r
        /\ \A t \in Sessions, j \in Slots : t # at \/ j # slot => record'[t][j] = record[t][j]
    BY <1>1, <1>3, <2>1, SlotWrite
  <2> QED BY <2>2 DEF at, slot
<1> SUFFICES ASSUME NEW s \in Sessions, NEW i \in Slots
             PROVE  /\ record'[s][i].queue = record[s][i].queue
                    /\ record'[s][i].generation = record[s][i].generation
                    /\ record'[s][i].in_flight = record[s][i].in_flight
                    /\ record'[s][i].active =
                         IF s = app.session /\ i = app.slot THEN 0 ELSE record[s][i].active
  BY <1>5
<1>6. CASE s = app.session /\ i = app.slot BY <1>1, <1>4, <1>5, <1>6
<1>7. CASE ~(s = app.session /\ i = app.slot) BY <1>5, <1>7
<1> QED BY <1>6, <1>7

\* Freeing empties the slot and keeps its generation.
LEMMA FreeEffect ==
  ASSUME TypeOK, SlotFreed
  PROVE  /\ record' \in [Sessions -> [Slots -> Record]]
         /\ \A s \in Sessions, i \in Slots :
              /\ record'[s][i].generation = record[s][i].generation
              /\ record'[s][i].active = record[s][i].active
              /\ record'[s][i].in_flight = record[s][i].in_flight
              /\ record'[s][i].queue =
                   IF s = app.session /\ i = app.slot THEN Null ELSE record[s][i].queue
<1> DEFINE r == [Removed EXCEPT !.queue = Null]
<1>1. r \in Record /\ r.queue = Null /\ r.generation = Removed.generation
      /\ r.in_flight = Removed.in_flight /\ r.active = Removed.active
  BY RemovedType DEF Record
<1>2. record' = [record EXCEPT ![app.session][app.slot] = r] BY DEF Removed, SlotFreed
<1>3. record \in [Sessions -> [Slots -> Record]] BY DEF TypeOK
<1> HIDE DEF r
<1>4. app.session \in Sessions /\ app.slot \in Slots /\ Removed = record[app.session][app.slot]
  BY RemovedType DEF Removed
<1>5. /\ record' \in [Sessions -> [Slots -> Record]] /\ record'[app.session][app.slot] = r
      /\ \A t \in Sessions, j \in Slots :
           t # app.session \/ j # app.slot => record'[t][j] = record[t][j]
  <2> DEFINE at == app.session  slot == app.slot
  <2>1. at \in Sessions /\ slot \in Slots /\ record' = [record EXCEPT ![at][slot] = r]
    BY <1>2, <1>4
  <2> HIDE DEF at, slot
  <2>2. /\ record' \in [Sessions -> [Slots -> Record]] /\ record'[at][slot] = r
        /\ \A t \in Sessions, j \in Slots : t # at \/ j # slot => record'[t][j] = record[t][j]
    BY <1>1, <1>3, <2>1, SlotWrite
  <2> QED BY <2>2 DEF at, slot
<1> SUFFICES ASSUME NEW s \in Sessions, NEW i \in Slots
             PROVE  /\ record'[s][i].generation = record[s][i].generation
                    /\ record'[s][i].active = record[s][i].active
                    /\ record'[s][i].in_flight = record[s][i].in_flight
                    /\ record'[s][i].queue =
                         IF s = app.session /\ i = app.slot THEN Null ELSE record[s][i].queue
  BY <1>5
<1>6. CASE s = app.session /\ i = app.slot BY <1>1, <1>4, <1>5, <1>6
<1>7. CASE ~(s = app.session /\ i = app.slot) BY <1>5, <1>7
<1> QED BY <1>6, <1>7

Owner == [session : Sessions, slot : Slots, generation : 0 .. (Modulus - 1), block : Blocks]
AppState ==
  [step : AppStep, session : Sessions, slot : Slots, spins : 0 .. SpinLimit, closing : BOOLEAN]

(* What a subscription writes: queue q, in block b and the free slot i of
   session s. *)
Subscribed(s, q, i, b) ==
  /\ record[s][i].queue = Null /\ state[s] = "open" /\ app = Idle
  /\ q \in Queues /\ reserved' = q /\ live' = live \cup {q}
  /\ record[s][i].generation + 1 \in 0 .. (Modulus - 1)
  /\ record' \in [Sessions -> [Slots -> Record]]
  /\ record'[s][i] = [queue |-> q, generation |-> record[s][i].generation + 1,
                      active |-> 1, in_flight |-> 0]
  /\ \A t \in Sessions, j \in Slots : t # s \/ j # i => record'[t][j] = record[t][j]
  /\ owner' = [owner EXCEPT ![q] =
                 [session |-> s, slot |-> i, generation |-> record[s][i].generation + 1, block |-> b]]
  /\ owner'[q] = [session |-> s, slot |-> i, generation |-> record[s][i].generation + 1,
                  block |-> b]
  /\ \A p \in Queues : p # q => owner'[p] = owner[p]
  /\ overtaken' = IF ClaimedIn(s, i) = {} THEN overtaken
                                         ELSE overtaken \cup ClaimedIn(s, i) \cup {q}
  /\ \/ held' = held \cup {q} /\ app' = app
     \/ app' = [Idle EXCEPT !.step = "release", !.session = s, !.slot = i] /\ held' = held
  /\ UNCHANGED <<state, cb, abandoned>>

\* A subscription takes a slot that is free.
LEMMA SubscribeEffect ==
  ASSUME TypeOK, Generations, NEW s \in Sessions, Subscribe(s), NEW q, q = reserved + 1
  PROVE  \E i \in Slots, b \in Blocks : Subscribed(s, q, i, b)
<1> DEFINE i == Lowest(Slots \ Occupied(s))
           g == record[s][i].generation
           r == [queue |-> q, generation |-> g + 1, active |-> 1, in_flight |-> 0]
<1>1. i \in Slots \ Occupied(s) BY RegistryAssumption, LowestIn DEF Subscribe, Occupied
<1>2. i \in Slots /\ record[s][i].queue = Null BY <1>1 DEF Occupied
<1>0. reserved < MaxReserves BY Zenon DEF Subscribe
<1>3. q \in Queues /\ reserved \in Nat BY <1>0, RegistryAssumption DEF Queues, TypeOK
<1>4. record[s][i] \in Record /\ record \in [Sessions -> [Slots -> Record]] BY <1>2 DEF TypeOK
<1>5. g \in 0 .. MaxReserves /\ g < MaxReserves
  <2>1. g <= reserved BY <1>2 DEF Generations
  <2>2. g \in 0 .. (Modulus - 1) BY <1>4 DEF Record
  <2> QED BY <1>0, <1>3, <2>1, <2>2, RegistryAssumption
<1>6. NextGeneration(g) = g + 1 BY <1>5, NextGenerationCounts
<1>7. g + 1 \in 0 .. (Modulus - 1) BY <1>5, RegistryAssumption
<1>8. 0 \in 0 .. (Modulus - 1) BY RegistryAssumption
<1>9. r \in Record BY <1>3, <1>7, <1>8 DEF Record
<1>10. record' = [record EXCEPT ![s][i] = r] BY <1>6 DEF Subscribe
<1>b. PICK b \in Blocks : owner' = [owner EXCEPT ![reserved + 1] =
                  [session |-> s, slot |-> i, generation |-> NextGeneration(g), block |-> b]]
  BY Zenon DEF Subscribe
<1> DEFINE o == [session |-> s, slot |-> i, generation |-> g + 1, block |-> b]
<1>11. owner' = [owner EXCEPT ![q] = o] BY <1>6, <1>b
<1>12. owner \in [Queues -> Owner] BY DEF TypeOK, Owner
<1>13. owner'[q] = o BY <1>3, <1>11, <1>12
<1>14. \A p \in Queues : p # q => owner'[p] = owner[p] BY <1>11, <1>12
<1>15. /\ state[s] = "open" /\ app = Idle /\ reserved' = reserved + 1
       /\ live' = live \cup {reserved + 1}
       /\ \/ held' = held \cup {reserved + 1} /\ app' = app
          \/ app' = [Idle EXCEPT !.step = "release", !.session = s, !.slot = i] /\ held' = held
       /\ UNCHANGED <<state, cb, abandoned>>
  BY Zenon DEF Subscribe
<1>c. overtaken' = IF ClaimedIn(s, i) = {} THEN overtaken
                   ELSE overtaken \cup ClaimedIn(s, i) \cup {reserved + 1}
  BY Zenon DEF Subscribe
<1> HIDE DEF i
<1>16. /\ record' \in [Sessions -> [Slots -> Record]] /\ record'[s][i] = r
       /\ \A t \in Sessions, j \in Slots : t # s \/ j # i => record'[t][j] = record[t][j]
  <2> HIDE DEF r
  <2> QED BY <1>2, <1>4, <1>9, <1>10, SlotWrite
<1> HIDE DEF g, r, o
<1>17. Subscribed(s, q, i, b)
  BY <1>2, <1>3, <1>7, <1>11, <1>13, <1>14, <1>15, <1>16, <1>c DEF Subscribed, r, o, g
<1> QED BY <1>2, <1>17

-------------------------------------------------------------------------------
(* Types.                                                                  *)

LEMMA IdleTypes == Idle \in AppState /\ NoCallback \in Callback
  BY RegistryAssumption DEF Idle, AppState, AppStep, NoCallback, Callback, CbStep

\* A counted callback is one of a queue.
LEMMA ClaimedType ==
  ASSUME Contexts, NEW s, NEW i PROVE ClaimedIn(s, i) \subseteq Queues
  BY DEF Contexts, ClaimedIn, Counted

LEMMA InitRegistry == Init => RegistryInv
<1> SUFFICES ASSUME Init PROVE RegistryInv OBVIOUS
<1> USE DEF Init
<1>1. TypeOK
  <2>1. 0 \in 0 .. (Modulus - 1) /\ 0 \in Sessions /\ 0 \in Slots /\ 0 \in 0 .. MaxReserves
    BY RegistryAssumption
  <2>2. record \in [Sessions -> [Slots -> Record]] BY <2>1 DEF Record
  <2>3. app \in AppState /\ cb \in [Callbacks -> Callback] BY IdleTypes
  <2>4. owner \in [Queues -> Owner] BY <2>1, RegistryAssumption DEF Owner
  <2> QED BY <2>1, <2>2, <2>3, <2>4 DEF TypeOK, AppState, Callback, Owner
<1>2. \A s \in Sessions, i \in Slots : record[s][i].queue = Null /\ record[s][i].generation = 0
  OBVIOUS
<1>3. Placed BY <1>2 DEF Placed
<1>4. Generations BY <1>2 DEF Generations, Queues
<1>5. Removals BY DEF Removals, Removing, Idle
<1>6. Contexts BY DEF Contexts, NoCallback
<1> QED BY <1>1, <1>3, <1>4, <1>5, <1>6 DEF RegistryInv

LEMMA StepType == RegistryInv /\ [Next]_vars => TypeOK'
<1> SUFFICES ASSUME RegistryInv, [Next]_vars PROVE TypeOK' OBVIOUS
<1> USE RegistryAssumption DEF RegistryInv
<1>0. app \in AppState /\ cb \in [Callbacks -> Callback] BY DEF TypeOK, AppState, Callback
<1>1. CASE OpenSession
  <2>1. Lowest({s \in Sessions : state[s] # "open"}) \in Sessions BY <1>1, LowestIn DEF OpenSession
  <2> QED BY <1>1, <2>1 DEF OpenSession, TypeOK, history
<1>2. ASSUME NEW s \in Sessions, Subscribe(s) PROVE TypeOK'
  <2>0. PICK q : q = reserved + 1 OBVIOUS
  <2>10. PICK i \in Slots, b \in Blocks : Subscribed(s, q, i, b) BY <1>2, <2>0, SubscribeEffect
  <2>1. /\ q \in Queues /\ reserved' = q /\ live' = live \cup {q}
        /\ record[s][i].generation + 1 \in 0 .. (Modulus - 1)
        /\ record' \in [Sessions -> [Slots -> Record]]
        /\ owner' = [owner EXCEPT ![q] =
                [session |-> s, slot |-> i, generation |-> record[s][i].generation + 1, block |-> b]]
        /\ \/ held' = held \cup {q} /\ app' = app
           \/ app' = [Idle EXCEPT !.step = "release", !.session = s, !.slot = i] /\ held' = held
        /\ \/ overtaken' = overtaken
           \/ overtaken' = overtaken \cup ClaimedIn(s, i) \cup {q}
        /\ UNCHANGED <<state, cb, abandoned>>
    BY <2>10 DEF Subscribed
  <2>2. [Idle EXCEPT !.step = "release", !.session = s, !.slot = i] \in AppState
    BY IdleTypes DEF AppState, AppStep
  <2>3. app' \in AppState BY <1>0, <2>1, <2>2
  <2>4. reserved' \in 0 .. MaxReserves BY <2>1 DEF Queues, TypeOK
  <2>5. owner' \in [Queues -> Owner]
    <3>1. owner \in [Queues -> Owner] BY DEF TypeOK, Owner
    <3> DEFINE o == [session |-> s, slot |-> i, generation |-> record[s][i].generation + 1, block |-> b]
    <3>2. o \in Owner BY <2>1 DEF Owner
    <3> HIDE DEF o
    <3>3. owner' = [owner EXCEPT ![q] = o] BY <2>1 DEF o
    <3> QED BY <3>1, <3>2, <3>3
  <2>6. live' \subseteq Queues /\ held' \subseteq Queues BY <2>1 DEF TypeOK
  <2>7. overtaken' \subseteq Queues BY <2>1, ClaimedType DEF TypeOK
  <2> QED BY <2>1, <2>3, <2>4, <2>5, <2>6, <2>7 DEF TypeOK, AppState, Owner
<1>3. ASSUME NEW s \in Sessions, CloseSession(s) \/ \E q \in Queues : Unsubscribe(s, q) PROVE TypeOK'
  <2>1. CASE CloseSession(s)
    <3>1. [Idle EXCEPT !.step = "next", !.session = s, !.closing = TRUE] \in AppState
      BY IdleTypes DEF AppState, AppStep
    <3>2. app' \in AppState BY <2>1, <3>1 DEF CloseSession
    <3> QED BY <2>1, <3>2 DEF CloseSession, TypeOK, AppState, history
  <2>2. ASSUME NEW q \in Queues, Unsubscribe(s, q) PROVE TypeOK'
    <3>1. EncodeHandle(q).slot \in Slots BY DEF EncodeHandle, TypeOK
    <3>2. [Idle EXCEPT !.step = "deactivate", !.session = s, !.slot = EncodeHandle(q).slot] \in AppState
      BY <3>1, IdleTypes DEF AppState, AppStep
    <3>3. app' \in AppState BY <2>2, <3>2 DEF Unsubscribe
    <3> QED BY <2>2, <3>3 DEF Unsubscribe, TypeOK, AppState, history
  <2> QED BY <1>3, <2>1, <2>2
<1>4. CASE CloseNext
  <2>1. CASE Occupied(app.session) # {}
    <3>1. Lowest(Occupied(app.session)) \in Slots BY <2>1, LowestIn DEF Occupied
    <3>2. app' \in AppState BY <1>0, <1>4, <2>1, <3>1 DEF CloseNext, AppState, AppStep
    <3> QED BY <1>4, <2>1, <3>2 DEF CloseNext, TypeOK, AppState, history
  <2>2. CASE Occupied(app.session) = {}
    <3>1. app' \in AppState BY <1>4, <2>2, IdleTypes DEF CloseNext
    <3>2. state' \in [Sessions -> {"open", "closed"}] BY <1>4, <2>2 DEF CloseNext, TypeOK
    <3> QED BY <1>4, <3>1, <3>2 DEF CloseNext, TypeOK, AppState, history
  <2> QED BY <2>1, <2>2
<1>5. CASE Deactivate \/ Release
  <2>1. record' \in [Sessions -> [Slots -> Record]]
    BY <1>5, DeactivateEffect DEF Deactivate, Release, SlotDeactivated
  <2>2. app' \in AppState BY <1>0, <1>5 DEF Deactivate, Release, AppState, AppStep
  <2> QED BY <1>5, <2>1, <2>2 DEF Deactivate, Release, TypeOK, AppState, history
<1>7. CASE Spin
  <2>1. Removed.queue \in Queues
    BY <1>7, RemovedType DEF Spin, Removals, Removing, Record
  <2>2. abandoned' \subseteq Queues BY <1>7, <2>1 DEF Spin, TypeOK
  <2>3. app' \in AppState
    <3>1. CASE app' = [app EXCEPT !.step = "free"] BY <1>0, <3>1 DEF AppState, AppStep
    <3>2. CASE app' = [app EXCEPT !.spins = @ + 1] /\ app.spins # SpinLimit
      BY <1>0, <3>2 DEF AppState
    <3> QED BY <1>7, <3>1, <3>2 DEF Spin
  <2> QED BY <1>7, <2>2, <2>3 DEF Spin, TypeOK, AppState
<1>8. CASE Free
  <2>1. record' \in [Sessions -> [Slots -> Record]] BY <1>8, FreeEffect DEF Free, SlotFreed
  <2>2. app' \in AppState
    <3>0. 0 \in 0 .. SpinLimit OBVIOUS
    <3>1. [app EXCEPT !.step = "next", !.spins = 0] \in AppState BY <1>0, <3>0 DEF AppState, AppStep
    <3> QED BY <1>8, <3>1, IdleTypes DEF Free
  <2> QED BY <1>8, <2>1, <2>2 DEF Free, TypeOK, AppState, history
<1>9. ASSUME NEW c \in Callbacks, NEW q \in Queues, Dispatch(c, q) PROVE TypeOK'
  <2>1. cb' \in [Callbacks -> Callback]
    <3> DEFINE entered == [step |-> "enter", context |-> q, queue |-> Null,
                           late |-> At(q).queue # q \/ At(q).active = 0]
    <3>1. (At(q).queue # q \/ At(q).active = 0) \in BOOLEAN OBVIOUS
    <3>2. entered \in Callback BY <3>1, Zenon DEF Callback, CbStep
    <3>3. cb' = [cb EXCEPT ![c] = entered] BY <1>9 DEF Dispatch
    <3> HIDE DEF entered
    <3> QED BY <1>0, <3>2, <3>3
  <2> QED BY <1>9, <2>1 DEF Dispatch, TypeOK, Callback, registry, history
<1>10. ASSUME NEW c \in Callbacks, Receive(c) PROVE TypeOK'
  <2>1. /\ record' \in [Sessions -> [Slots -> Record]]
        /\ UNCHANGED <<state, reserved, owner, live, held, app, history>>
        /\ \/ cb' = [cb EXCEPT ![c] = NoCallback]
           \/ \E st \in CbStep, q \in Queues : Moved(c, st, q)
    BY <1>10, ReceiveEffect DEF CountsOnly
  <2>2. cb' \in [Callbacks -> Callback]
    <3>1. CASE cb' = [cb EXCEPT ![c] = NoCallback] BY <1>0, <3>1, IdleTypes
    <3>2. ASSUME NEW st \in CbStep, NEW q \in Queues, Moved(c, st, q)
          PROVE  cb' \in [Callbacks -> Callback]
      <4>1. [cb[c] EXCEPT !.step = st, !.queue = q] \in Callback BY <1>0 DEF Callback
      <4> QED BY <1>0, <3>2, <4>1 DEF Moved
    <3> QED BY <2>1, <3>1, <3>2
  <2> QED BY <2>1, <2>2 DEF TypeOK, Callback, history
<1>11. CASE UNCHANGED vars BY <1>11 DEF vars, TypeOK, history
<1> QED BY <1>1, <1>2, <1>3, <1>4, <1>5, <1>7, <1>8, <1>9, <1>10, <1>11 DEF Next, Remove

-------------------------------------------------------------------------------
(* Queues, slots and generations.                                          *)

(* A step that neither reserves nor frees. *)
SlotsKept ==
  /\ UNCHANGED <<reserved, owner, live>>
  /\ \A s \in Sessions, i \in Slots :
       /\ record'[s][i].queue = record[s][i].queue
       /\ record'[s][i].generation = record[s][i].generation

LEMMA OwnerType == TypeOK => \A q \in Queues : owner[q].session \in Sessions /\ owner[q].slot \in Slots
  BY DEF TypeOK

LEMMA PlacedKept ==
  ASSUME TypeOK, Placed, SlotsKept,
         \A s \in Sessions, i \in Slots : record[s][i].queue # Null => state'[s] = "open"
  PROVE  Placed'
<1>1. \A q \in Queues : At(q)'.queue = At(q).queue BY OwnerType DEF SlotsKept, At
<1>2. live \subseteq Queues BY DEF TypeOK
<1> QED BY <1>1, <1>2 DEF Placed, SlotsKept

LEMMA GenerationsKept ==
  ASSUME TypeOK, Generations, SlotsKept
  PROVE  Generations'
<1>1. \A q \in Queues : At(q)'.queue = At(q).queue /\ At(q)'.generation = At(q).generation
  BY OwnerType DEF SlotsKept, At
<1> QED BY <1>1 DEF Generations, SlotsKept

\* The steps of which that is true.
LEMMA KeepingSteps ==
  ASSUME RegistryInv,
         \/ OpenSession \/ CloseNext \/ Deactivate \/ Release \/ Spin
         \/ \E s \in Sessions : CloseSession(s) \/ \E q \in Queues : Unsubscribe(s, q)
         \/ \E c \in Callbacks : Receive(c) \/ \E q \in Queues : Dispatch(c, q)
         \/ UNCHANGED vars
  PROVE  SlotsKept
<1> USE DEF RegistryInv
<1>0. ASSUME UNCHANGED <<record, reserved, owner, live>> PROVE SlotsKept BY <1>0 DEF SlotsKept
<1>1. CASE OpenSession \/ CloseNext \/ Spin \/ UNCHANGED vars
  BY <1>0, <1>1 DEF OpenSession, CloseNext, Spin, vars
<1>2. CASE Deactivate \/ Release
  BY <1>2, DeactivateEffect DEF Deactivate, Release, SlotDeactivated, SlotsKept
<1>3. CASE \E s \in Sessions : CloseSession(s) \/ \E q \in Queues : Unsubscribe(s, q)
  BY <1>0, <1>3 DEF CloseSession, Unsubscribe
<1>4. CASE \E c \in Callbacks : Receive(c) \/ \E q \in Queues : Dispatch(c, q)
  <2>1. ASSUME NEW c \in Callbacks, Receive(c) PROVE SlotsKept
    BY <2>1, ReceiveEffect DEF CountsOnly, SlotsKept
  <2>2. ASSUME NEW c \in Callbacks, NEW q \in Queues, Dispatch(c, q) PROVE SlotsKept
    BY <1>0, <2>2 DEF Dispatch, registry
  <2> QED BY <1>4, <2>1, <2>2
<1> QED BY <1>1, <1>2, <1>3, <1>4

LEMMA PlacedStep == RegistryInv /\ [Next]_vars => Placed' /\ Generations'
<1> SUFFICES ASSUME RegistryInv, [Next]_vars PROVE Placed' /\ Generations' OBVIOUS
<1> USE DEF RegistryInv
<1>0. live \subseteq Queues /\ reserved \in Nat BY DEF TypeOK
<1>1. ASSUME NEW s \in Sessions, Subscribe(s) PROVE Placed' /\ Generations'
  <2>0. PICK q : q = reserved + 1 OBVIOUS
  <2>10. PICK i \in Slots, b \in Blocks : Subscribed(s, q, i, b) BY <1>1, <2>0, SubscribeEffect
  <2>1. /\ record[s][i].queue = Null /\ state[s] = "open"
        /\ q \in Queues /\ reserved' = q /\ live' = live \cup {q}
        /\ record'[s][i] = [queue |-> q, generation |-> record[s][i].generation + 1,
                               active |-> 1, in_flight |-> 0]
        /\ \A t \in Sessions, j \in Slots : t # s \/ j # i => record'[t][j] = record[t][j]
        /\ owner'[q] = [session |-> s, slot |-> i, generation |-> record[s][i].generation + 1,
                  block |-> b]
        /\ \A p \in Queues : p # q => owner'[p] = owner[p]
        /\ UNCHANGED <<state, cb>>
    BY <2>10 DEF Subscribed
  <2>2. /\ At(q)' = record'[s][i] /\ owner'[q].session = s /\ owner'[q].slot = i
        /\ owner'[q].generation = record[s][i].generation + 1
        /\ record'[s][i].queue = q /\ record'[s][i].generation = record[s][i].generation + 1
    BY <2>1 DEF At
  <2>3. \A p \in live : p # q /\ p \in Queues BY <1>0, <2>0 DEF Placed
  <2>4. q # Null BY <1>0, <2>0 DEF Null
  <2>5. \A p \in Queues : p # q =>
          At(p)' = record'[owner[p].session][owner[p].slot]
          /\ owner[p].session \in Sessions /\ owner[p].slot \in Slots
    BY <2>1, OwnerType DEF At
  <2>6. Placed'
    <3>1. ASSUME NEW p \in live' PROVE p <= reserved' /\ At(p)'.queue = p
      <4>1. CASE p = q BY <1>0, <2>0, <2>1, <2>2, <4>1
      <4>2. CASE p # q
        <5>1. p \in live /\ p \in Queues /\ p <= reserved /\ At(p).queue = p /\ p # Null
          BY <1>0, <2>1, <3>1, <4>2 DEF Placed, Queues, Null
        <5>2. owner[p].session # s \/ owner[p].slot # i BY <2>1, <5>1 DEF At
        <5>3. At(p)' = At(p) BY <2>1, <2>5, <4>2, <5>1, <5>2 DEF At
        <5>4. p <= reserved' BY <1>0, <2>0, <2>1, <5>1 DEF Queues
        <5> QED BY <5>1, <5>3, <5>4
      <4> QED BY <4>1, <4>2
    <3>2. ASSUME NEW t \in Sessions, NEW j \in Slots, record'[t][j].queue # Null
          PROVE  /\ record'[t][j].queue \in live' /\ state'[t] = "open"
                 /\ owner'[record'[t][j].queue].session = t
                 /\ owner'[record'[t][j].queue].slot = j
      <4>1. CASE t = s /\ j = i BY <2>1, <2>2, <4>1
      <4>2. CASE ~(t = s /\ j = i)
        <5>1. record'[t][j] = record[t][j] BY <2>1, <4>2
        <5>2. /\ record[t][j].queue \in live /\ state[t] = "open"
              /\ owner[record[t][j].queue].session = t /\ owner[record[t][j].queue].slot = j
          BY <3>2, <5>1 DEF Placed
        <5>3. owner'[record[t][j].queue] = owner[record[t][j].queue] BY <2>1, <2>3, <5>2
        <5> QED BY <2>1, <5>1, <5>2, <5>3
      <4> QED BY <4>1, <4>2
    <3> QED BY <3>1, <3>2 DEF Placed
  <2>7. Generations'
    <3>0. \A t \in Sessions, j \in Slots : record[t][j].generation \in Nat
          /\ record[t][j].generation <= reserved
      BY DEF TypeOK, Record, Generations
    <3>1. \A t \in Sessions, j \in Slots : record'[t][j].generation <= reserved'
      BY <1>0, <2>0, <2>1, <2>2, <3>0
    <3>2. ASSUME NEW p \in Queues, p <= reserved'
          PROVE  /\ 1 <= owner'[p].generation /\ owner'[p].generation <= At(p)'.generation
                 /\ At(p)'.queue # Null =>
                      (At(p)'.queue = p <=> owner'[p].generation = At(p)'.generation)
      <4>1. CASE p = q BY <2>2, <3>0, <4>1
      <4>2. CASE p # q
        <5>1. p <= reserved /\ owner'[p] = owner[p] BY <1>0, <2>0, <2>1, <3>2, <4>2 DEF Queues
        <5>2. /\ 1 <= owner[p].generation /\ owner[p].generation <= At(p).generation
              /\ At(p).queue # Null => (At(p).queue = p <=> owner[p].generation = At(p).generation)
              /\ owner[p].generation \in Nat
          BY <5>1 DEF Generations, TypeOK
        <5>3. CASE owner[p].session = s /\ owner[p].slot = i
          <6>1. At(p)' = record'[s][i] /\ At(p) = record[s][i] BY <2>5, <4>2, <5>3 DEF At
          <6>2. owner[p].generation < At(p)'.generation BY <2>2, <3>0, <5>2, <6>1
          <6> QED BY <2>2, <3>0, <5>1, <5>2, <6>1, <6>2
        <5>4. CASE ~(owner[p].session = s /\ owner[p].slot = i)
          <6>1. At(p)' = At(p) BY <2>1, <2>5, <4>2, <5>4 DEF At
          <6> QED BY <5>1, <5>2, <6>1
        <5> QED BY <5>3, <5>4
      <4> QED BY <4>1, <4>2
    <3> QED BY <3>1, <3>2 DEF Generations
  <2> QED BY <2>6, <2>7
<1>2. CASE Free
  <2> DEFINE gone == Removed.queue
  <2>1. /\ live' = live \ {gone} /\ UNCHANGED <<reserved, owner, state>>
        /\ app.session \in Sessions /\ app.slot \in Slots /\ gone # Null
    BY <1>2, RemovedType DEF Free, Removals, Removing
  <2>2. \A t \in Sessions, j \in Slots :
          /\ record'[t][j].generation = record[t][j].generation
          /\ record'[t][j].queue =
               IF t = app.session /\ j = app.slot THEN Null ELSE record[t][j].queue
    BY <1>2, FreeEffect DEF Free, SlotFreed
  <2>3. gone \in live /\ owner[gone].session = app.session /\ owner[gone].slot = app.slot
    BY <2>1 DEF Placed, Removed
  <2>4. \A p \in Queues : owner[p].session \in Sessions /\ owner[p].slot \in Slots
        /\ At(p)' = record'[owner[p].session][owner[p].slot]
        /\ At(p) = record[owner[p].session][owner[p].slot]
    BY <2>1, OwnerType DEF At
  <2>5. Placed'
    <3>1. ASSUME NEW p \in live' PROVE p <= reserved' /\ At(p)'.queue = p
      <4>1. p \in live /\ p # gone /\ p \in Queues /\ p <= reserved /\ At(p).queue = p
        BY <1>0, <2>1, <3>1 DEF Placed
      <4>2. ~(owner[p].session = app.session /\ owner[p].slot = app.slot)
        BY <4>1 DEF At, Removed
      <4> QED BY <2>1, <2>2, <2>4, <4>1, <4>2
    <3>2. ASSUME NEW t \in Sessions, NEW j \in Slots, record'[t][j].queue # Null
          PROVE  /\ record'[t][j].queue \in live' /\ state'[t] = "open"
                 /\ owner'[record'[t][j].queue].session = t
                 /\ owner'[record'[t][j].queue].slot = j
      <4>1. ~(t = app.session /\ j = app.slot) /\ record'[t][j].queue = record[t][j].queue
        BY <2>2, <3>2
      <4>2. /\ record[t][j].queue \in live /\ state[t] = "open"
            /\ owner[record[t][j].queue].session = t /\ owner[record[t][j].queue].slot = j
        BY <3>2, <4>1 DEF Placed
      <4>3. record[t][j].queue # gone BY <2>3, <4>1, <4>2
      <4> QED BY <2>1, <4>1, <4>2, <4>3
    <3> QED BY <3>1, <3>2 DEF Placed
  <2>6. \A p \in Queues : At(p)'.generation = At(p).generation
        /\ (At(p)'.queue = Null \/ At(p)'.queue = At(p).queue)
    BY <2>2, <2>4
  <2>7. Generations' BY <2>1, <2>2, <2>6 DEF Generations
  <2> QED BY <2>5, <2>7
<1>3. CASE OpenSession
  <2>1. SlotsKept BY <1>3, KeepingSteps
  <2>2. \A s \in Sessions : state[s] = "open" => state'[s] = "open" BY <1>3 DEF OpenSession, TypeOK
  <2> QED BY <2>1, <2>2, PlacedKept, GenerationsKept DEF Placed
<1>4. CASE CloseNext
  <2>1. SlotsKept BY <1>4, KeepingSteps
  <2>2. \A s \in Sessions, i \in Slots : record[s][i].queue # Null => state'[s] = "open"
    <3>1. CASE Occupied(app.session) # {} BY <1>4, <3>1 DEF CloseNext, Placed
    <3>2. CASE Occupied(app.session) = {}
      <4>1. \A i \in Slots : record[app.session][i].queue = Null BY <3>2 DEF Occupied
      <4>2. state' = [state EXCEPT ![app.session] = "closed"] BY <1>4, <3>2 DEF CloseNext
      <4> QED BY <4>1, <4>2 DEF Placed, TypeOK
    <3> QED BY <3>1, <3>2
  <2> QED BY <2>1, <2>2, PlacedKept, GenerationsKept
<1>5. ASSUME SlotsKept, UNCHANGED state PROVE Placed' /\ Generations'
  BY <1>5, PlacedKept, GenerationsKept DEF Placed
<1>6. CASE Deactivate \/ Release \/ Spin
  <2>1. UNCHANGED state BY <1>6 DEF Deactivate, Release, Spin
  <2> QED BY <1>5, <1>6, <2>1, KeepingSteps
<1>7. CASE \E s \in Sessions : CloseSession(s) \/ \E q \in Queues : Unsubscribe(s, q)
  <2>1. UNCHANGED state BY <1>7 DEF CloseSession, Unsubscribe
  <2> QED BY <1>5, <1>7, <2>1, KeepingSteps
<1>8. CASE \E c \in Callbacks : Receive(c) \/ \E q \in Queues : Dispatch(c, q)
  <2>1. UNCHANGED state BY <1>8, ReceiveEffect DEF Dispatch, registry
  <2> QED BY <1>5, <1>8, <2>1, KeepingSteps
<1>9. CASE UNCHANGED vars
  <2>1. UNCHANGED state BY <1>9 DEF vars
  <2> QED BY <1>5, <1>9, <2>1, KeepingSteps
<1> QED BY <1>1, <1>2, <1>3, <1>4, <1>6, <1>7, <1>8, <1>9 DEF Next, Remove

-------------------------------------------------------------------------------
(* Removals and the callbacks' contexts.                                   *)

LEMMA RemovalsStep == RegistryInv /\ [Next]_vars => Removals'
<1> SUFFICES ASSUME RegistryInv, [Next]_vars PROVE Removals' OBVIOUS
<1> USE DEF RegistryInv, Removals
<1>0. app \in AppState /\ Idle.step = "idle" BY DEF TypeOK, AppState, Idle
<1>1. CASE OpenSession
  <2>1. app'.step = "idle" BY <1>0, <1>1 DEF OpenSession
  <2> QED BY <1>1, <2>1 DEF OpenSession, Removing
<1>2. ASSUME NEW s \in Sessions, Subscribe(s) PROVE Removals'
  <2>0. PICK q : q = reserved + 1 OBVIOUS
  <2>1. PICK i \in Slots, b \in Blocks : Subscribed(s, q, i, b) BY <1>2, <2>0, SubscribeEffect
  <2>2. reserved \in Nat BY DEF TypeOK
  <2>3. q # Null BY <2>0, <2>2 DEF Null
  <2>5. \A h \in held' : h <= reserved'
    <3>1. \A h \in held : h \in Nat /\ h <= reserved BY DEF TypeOK, Queues
    <3>2. reserved' = q /\ (held' = held \/ held' = held \cup {q}) BY <2>1 DEF Subscribed
    <3> QED BY <2>0, <2>2, <3>1, <3>2
  <2>6. record'[s][i].queue = q /\ \A t \in Sessions, j \in Slots :
          t # s \/ j # i => record'[t][j] = record[t][j]
    BY <2>1 DEF Subscribed
  <2>7. \A t \in Sessions, j \in Slots : record'[t][j].queue = Null => record'[t][j].active = 0
    BY <2>3, <2>6
  <2>8. CASE app' = app
    <3>1. app'.step = "idle" BY <1>0, <2>1, <2>8 DEF Subscribed
    <3> QED BY <2>5, <2>7, <3>1 DEF Removing
  <2>9. CASE app' = [Idle EXCEPT !.step = "release", !.session = s, !.slot = i]
    <3>1. app'.session = s /\ app'.slot = i /\ app'.step = "release" BY <2>9 DEF Idle
    <3>2. Removed'.queue = q BY <2>6, <3>1 DEF Removed
    <3> QED BY <2>3, <2>5, <2>7, <3>1, <3>2
  <2> QED BY <2>1, <2>8, <2>9 DEF Subscribed
<1>3. ASSUME NEW s \in Sessions, NEW q \in Queues, Unsubscribe(s, q) PROVE Removals'
  <2>1. app'.step = "deactivate" /\ app'.session = s /\ app'.slot = EncodeHandle(q).slot
    BY <1>3 DEF Unsubscribe, Idle
  <2>2. record[s][EncodeHandle(q).slot].queue # Null BY <1>3 DEF Unsubscribe, Resolves
  <2> QED BY <1>3, <2>1, <2>2 DEF Unsubscribe, Removed
<1>4. ASSUME NEW s \in Sessions, CloseSession(s) PROVE Removals'
  <2>1. app'.step = "next" BY <1>4 DEF CloseSession, Idle
  <2> QED BY <1>4, <2>1 DEF CloseSession, Removing
<1>5. CASE CloseNext
  <2>1. CASE Occupied(app.session) # {}
    <3>1. Lowest(Occupied(app.session)) \in Occupied(app.session)
      BY <2>1, LowestIn, RegistryAssumption DEF Occupied
    <3>2. app' = [app EXCEPT !.step = "deactivate", !.slot = Lowest(Occupied(app.session))]
      BY <1>5, <2>1 DEF CloseNext
    <3>3. app'.step = "deactivate" /\ app'.session = app.session
          /\ app'.slot = Lowest(Occupied(app.session))
      BY <1>0, <3>2 DEF AppState
    <3>4. Removed'.queue # Null BY <1>5, <3>1, <3>3 DEF CloseNext, Removed, Occupied
    <3> QED BY <1>5, <3>3, <3>4 DEF CloseNext
  <2>2. CASE Occupied(app.session) = {} BY <1>0, <1>5, <2>2 DEF CloseNext, Removing
  <2> QED BY <2>1, <2>2
<1>6. CASE Deactivate \/ Release
  <2>1. app'.session = app.session /\ app'.slot = app.slot
    BY <1>0, <1>6 DEF Deactivate, Release, AppState
  <2>2. SlotDeactivated /\ UNCHANGED <<reserved, held>> /\ app.step \in Removing
    BY <1>6 DEF Deactivate, Release, SlotDeactivated, Removing
  <2>3. Removed'.queue = Removed.queue /\ Removed'.active = 0
    BY <2>1, <2>2, RemovedType, DeactivateEffect DEF Removed
  <2>4. \A s \in Sessions, i \in Slots : record'[s][i].queue = Null => record'[s][i].active = 0
    BY <2>2, DeactivateEffect
  <2> QED BY <2>2, <2>3, <2>4
<1>7. CASE Spin
  <2>1. Removed' = Removed /\ UNCHANGED <<record, reserved, held>> /\ app.step = "drain"
    BY <1>0, <1>7 DEF Spin, Removed, AppState
  <2> QED BY <2>1 DEF Removing
<1>8. CASE Free
  <2>1. app'.step \in {"next", "idle"} BY <1>0, <1>8 DEF Free, AppState
  <2>2. app.step = "free" /\ Removed.active = 0 /\ SlotFreed /\ UNCHANGED <<reserved, held>>
    BY <1>8 DEF Free, SlotFreed
  <2>3. \A s \in Sessions, i \in Slots : record'[s][i].queue = Null => record'[s][i].active = 0
    BY <2>2, FreeEffect DEF Removed
  <2> QED BY <2>1, <2>2, <2>3 DEF Removing
<1>9. ASSUME UNCHANGED <<reserved, held, app>>, CountsOnly PROVE Removals'
  <2>1. Removed'.queue = Removed.queue /\ Removed'.active = Removed.active
    BY <1>9, RemovedType DEF CountsOnly, Removed
  <2>2. \A s \in Sessions, i \in Slots : record'[s][i].queue = Null => record'[s][i].active = 0
    BY <1>9 DEF CountsOnly
  <2> QED BY <1>9, <2>1, <2>2
<1>10. ASSUME NEW c \in Callbacks, Receive(c) \/ \E q \in Queues : Dispatch(c, q) PROVE Removals'
  <2>1. CASE Receive(c) BY <1>9, <2>1, ReceiveEffect
  <2>2. ASSUME NEW q \in Queues, Dispatch(c, q) PROVE Removals'
    BY <2>2, <1>9 DEF Dispatch, registry, CountsOnly, TypeOK
  <2> QED BY <1>10, <2>1, <2>2
<1>11. CASE UNCHANGED vars BY <1>9, <1>11 DEF vars, CountsOnly, TypeOK
<1> QED BY <1>1, <1>2, <1>3, <1>4, <1>5, <1>6, <1>7, <1>8, <1>10, <1>11 DEF Next, Remove

LEMMA ContextsStep == RegistryInv /\ [Next]_vars => Contexts'
<1> SUFFICES ASSUME RegistryInv, [Next]_vars PROVE Contexts' OBVIOUS
<1> USE DEF RegistryInv, Contexts
<1>0. reserved \in Nat /\ cb \in [Callbacks -> Callback] BY DEF TypeOK, Callback
<1>1. ASSUME UNCHANGED <<cb, reserved>> PROVE Contexts' BY <1>1
<1>2. CASE OpenSession \/ Remove \/ UNCHANGED vars
  BY <1>1, <1>2 DEF OpenSession, Remove, CloseNext, Deactivate, Release, Spin, Free, vars
<1>3. ASSUME NEW s \in Sessions, CloseSession(s) \/ \E q \in Queues : Unsubscribe(s, q)
      PROVE  Contexts'
  BY <1>1, <1>3 DEF CloseSession, Unsubscribe
<1>4. ASSUME NEW s \in Sessions, Subscribe(s) PROVE Contexts'
  <2>0. PICK q : q = reserved + 1 OBVIOUS
  <2>1. PICK i \in Slots, b \in Blocks : Subscribed(s, q, i, b) BY <1>4, <2>0, SubscribeEffect
  <2>2. UNCHANGED cb /\ reserved' = q BY <2>1 DEF Subscribed
  <2>3. \A p \in Queues : p <= reserved => p <= reserved' BY <1>0, <2>0, <2>2 DEF Queues
  <2> QED BY <2>2, <2>3
<1>5. ASSUME NEW c \in Callbacks, NEW q \in Queues, Dispatch(c, q) PROVE Contexts'
  <2>1. q \in held /\ q <= reserved /\ UNCHANGED reserved BY <1>5 DEF Dispatch, Removals, registry
  <2>2. cb' = [cb EXCEPT ![c] = [step |-> "enter", context |-> q, queue |-> Null,
                                 late |-> At(q).queue # q \/ At(q).active = 0]]
    BY <1>5 DEF Dispatch
  <2>3. cb'[c].step = "enter" /\ cb'[c].context = q /\ \A d \in Callbacks : d # c => cb'[d] = cb[d]
    BY <1>0, <2>2
  <2> QED BY <2>1, <2>3
<1>6. ASSUME NEW c \in Callbacks, Receive(c) PROVE Contexts'
  <2>1. /\ UNCHANGED reserved /\ cb[c].step # "idle"
        /\ \/ cb' = [cb EXCEPT ![c] = NoCallback]
           \/ \E st \in CbStep \ {"idle", "enter"}, q \in Queues : Moved(c, st, q) /\ q <= reserved
    BY <1>6, ReceiveEffect
  <2>2. CASE cb' = [cb EXCEPT ![c] = NoCallback]
    <3>1. cb'[c].step = "idle" /\ \A d \in Callbacks : d # c => cb'[d] = cb[d]
      BY <1>0, <2>2 DEF NoCallback
    <3> QED BY <2>1, <3>1
  <2>3. ASSUME NEW st \in CbStep, NEW q \in Queues, Moved(c, st, q), q <= reserved PROVE Contexts'
    <3>1. cb'[c].context = cb[c].context /\ cb'[c].queue = q
          /\ \A d \in Callbacks : d # c => cb'[d] = cb[d]
      BY <1>0, <2>3 DEF Moved, Callback
    <3> QED BY <2>1, <2>3, <3>1
  <2> QED BY <2>1, <2>2, <2>3
<1> QED BY <1>2, <1>3, <1>4, <1>5, <1>6 DEF Next

LEMMA RegistryInvariant == Spec => []RegistryInv
<1>1. RegistryInv /\ [Next]_vars => RegistryInv'
  BY StepType, PlacedStep, RemovalsStep, ContextsStep DEF RegistryInv
<1> QED BY InitRegistry, <1>1, PTL DEF Spec

-------------------------------------------------------------------------------
(* Every variable of the registry keeps its type, and in-flight counts     *)
(* wrap within their width.                                                *)
THEOREM TypeCorrect == Spec => []TypeOK
<1>1. RegistryInv => TypeOK BY DEF RegistryInv
<1> QED BY RegistryInvariant, <1>1, PTL

(* As long as fewer subscriptions are made than a handle can number, a     *)
(* handle resolves exactly while the subscription it was given for is      *)
(* active: a stale handle never reaches the slot's next subscription, and  *)
(* none is refused early (zenoh_pico_subscription_resolve).                *)
THEOREM HandlesIdentifyHolds ==
  ASSUME MaxReserves < HandleGens
  PROVE  Spec => []HandlesIdentify
<1>1. RegistryInv => HandlesIdentify
  <2> SUFFICES ASSUME RegistryInv, NEW q \in held, NEW s \in Sessions
               PROVE  Resolves(s, EncodeHandle(q)) <=>
                        s = owner[q].session /\ At(q).queue = q /\ At(q).active = 1
    BY DEF HandlesIdentify
  <2>1. q \in Queues /\ q <= reserved /\ reserved <= MaxReserves /\ owner[q] \in Owner
    BY DEF RegistryInv, Removals, TypeOK, Owner
  <2>2. owner[q].session \in Sessions /\ owner[q].slot \in Slots /\ owner[q].generation \in Nat
    BY <2>1 DEF Owner
  <2>3. At(q) = record[owner[q].session][owner[q].slot] /\ At(q) \in Record
    BY <2>2 DEF At, RegistryInv, TypeOK
  <2>4. /\ 1 <= owner[q].generation /\ owner[q].generation <= At(q).generation
        /\ At(q).generation <= reserved
        /\ At(q).queue # Null => (At(q).queue = q <=> owner[q].generation = At(q).generation)
    BY <2>1, <2>2, <2>3 DEF RegistryInv, Generations
  <2>5. owner[q].generation \in 0 .. (HandleGens - 1) /\ HandleGens \in Nat \ {0}
    BY <2>1, <2>2, <2>3, <2>4, RegistryAssumption DEF Record, RegistryInv, TypeOK
  <2>6. EncodeHandle(q) = [session |-> owner[q].session, slot |-> owner[q].slot,
                           generation |-> owner[q].generation]
    BY <2>5, ModSmall DEF EncodeHandle
  <2>7. ASSUME Resolves(s, EncodeHandle(q))
        PROVE  s = owner[q].session /\ At(q).queue = q /\ At(q).active = 1
    BY <2>3, <2>4, <2>6, <2>7 DEF Resolves
  <2>8. ASSUME s = owner[q].session, At(q).queue = q, At(q).active = 1
        PROVE  Resolves(s, EncodeHandle(q))
    <3>1. q # Null BY <2>1 DEF Queues, Null
    <3>2. state[s] = "open" BY <2>2, <2>3, <2>8, <3>1 DEF RegistryInv, Placed
    <3>3. At(q).generation = owner[q].generation BY <2>4, <2>8, <3>1
    <3> QED BY <2>3, <2>4, <2>6, <2>8, <3>1, <3>2, <3>3 DEF Resolves
  <2> QED BY <2>7, <2>8
<1> QED BY RegistryInvariant, <1>1, PTL

-------------------------------------------------------------------------------
(* Late callbacks.                                                         *)

Current(q) == At(q).generation = owner[q].generation

(* The slot of a late callback's declaration is inactive, or past it; then
   the callback has passed the first check at most, and lost the second. *)
LateInv ==
  \A c \in Callbacks : cb[c].late /\ cb[c].step # "idle" =>
    /\ Current(cb[c].context) => At(cb[c].context).active = 0
    /\ cb[c].queue = cb[c].context =>
         /\ cb[c].step \notin {"reactive", "copy", "leave"}
         /\ cb[c].step \in {"count", "recheck"} => ~Current(cb[c].context)

(* What was written in a queue stays, and its slot is neither activated again
   nor comes back to an earlier generation. *)
Aged ==
  \A q \in Queues : q <= reserved =>
    /\ owner'[q] = owner[q]
    /\ \/ At(q)'.generation = At(q).generation /\ At(q)'.active \in {At(q).active, 0}
       \/ At(q)'.generation > owner[q].generation

LEMMA AgedStep == RegistryInv /\ [Next]_vars => Aged
<1> SUFFICES ASSUME RegistryInv, [Next]_vars PROVE Aged OBVIOUS
<1> USE DEF RegistryInv
<1>0. \A q \in Queues : /\ owner[q].session \in Sessions /\ owner[q].slot \in Slots
                        /\ At(q) = record[owner[q].session][owner[q].slot]
  BY OwnerType DEF At
<1>1. ASSUME UNCHANGED owner,
             \A s \in Sessions, i \in Slots :
               /\ record'[s][i].generation = record[s][i].generation
               /\ record'[s][i].active \in {record[s][i].active, 0}
      PROVE  Aged
  BY <1>0, <1>1 DEF Aged, At
<1>a. ASSUME UNCHANGED <<record, owner>> PROVE Aged BY <1>1, <1>a
<1>2. ASSUME NEW s \in Sessions, Subscribe(s) PROVE Aged
  <2>0. PICK q : q = reserved + 1 OBVIOUS
  <2>1. PICK i \in Slots, b \in Blocks : Subscribed(s, q, i, b) BY <1>2, <2>0, SubscribeEffect
  <2>2. /\ record'[s][i].generation = record[s][i].generation + 1
        /\ \A t \in Sessions, j \in Slots : t # s \/ j # i => record'[t][j] = record[t][j]
        /\ \A p \in Queues : p # q => owner'[p] = owner[p]
    BY <2>1 DEF Subscribed
  <2>3. reserved \in Nat /\ record[s][i].generation \in Nat BY DEF TypeOK, Record
  <2> SUFFICES ASSUME NEW p \in Queues, p <= reserved
               PROVE  /\ owner'[p] = owner[p]
                      /\ \/ At(p)'.generation = At(p).generation /\ At(p)'.active \in {At(p).active, 0}
                         \/ At(p)'.generation > owner[p].generation
    BY DEF Aged
  <2>4. owner'[p] = owner[p] BY <2>0, <2>2, <2>3 DEF Queues
  <2>5. At(p)' = record'[owner[p].session][owner[p].slot] BY <2>4 DEF At
  <2>6. CASE owner[p].session = s /\ owner[p].slot = i
    <3>1. owner[p].generation <= record[s][i].generation /\ owner[p].generation \in Nat
      BY <1>0, <2>6 DEF Generations, TypeOK
    <3> QED BY <2>2, <2>3, <2>4, <2>5, <2>6, <3>1
  <2>7. CASE ~(owner[p].session = s /\ owner[p].slot = i) BY <1>0, <2>2, <2>4, <2>5, <2>7
  <2> QED BY <2>6, <2>7
<1>3. CASE Deactivate \/ Release
  <2>1. SlotDeactivated /\ UNCHANGED owner BY <1>3 DEF Deactivate, Release, SlotDeactivated
  <2> QED BY <1>1, <2>1, DeactivateEffect
<1>4. CASE Free
  <2>1. SlotFreed /\ UNCHANGED owner BY <1>4 DEF Free, SlotFreed
  <2> QED BY <1>1, <2>1, FreeEffect
<1>5. ASSUME NEW c \in Callbacks, Receive(c) PROVE Aged
  BY <1>1, <1>5, ReceiveEffect DEF CountsOnly
<1>6. ASSUME NEW c \in Callbacks, NEW q \in Queues, Dispatch(c, q) PROVE Aged
  BY <1>a, <1>6 DEF Dispatch, registry
<1>7. CASE OpenSession \/ CloseNext \/ Spin \/ UNCHANGED vars
  BY <1>a, <1>7 DEF OpenSession, CloseNext, Spin, vars
<1>8. ASSUME NEW s \in Sessions, CloseSession(s) \/ \E q \in Queues : Unsubscribe(s, q) PROVE Aged
  BY <1>a, <1>8 DEF CloseSession, Unsubscribe
<1> QED BY <1>2, <1>3, <1>4, <1>5, <1>6, <1>7, <1>8 DEF Next, Remove

\* What a late callback may say of its declaration stays true.
LEMMA LateKept ==
  ASSUME RegistryInv, Aged, NEW q \in Queues, q <= reserved
  PROVE  /\ (Current(q) => At(q).active = 0) => (Current(q)' => At(q)'.active = 0)
         /\ ~Current(q) => ~Current(q)'
<1>1. /\ owner'[q] = owner[q]
      /\ \/ At(q)'.generation = At(q).generation /\ At(q)'.active \in {At(q).active, 0}
         \/ At(q)'.generation > owner[q].generation
  BY DEF Aged
<1>2. /\ owner[q].generation <= At(q).generation /\ owner[q].generation \in Nat
  BY DEF RegistryInv, Generations, TypeOK
<1>3. Current(q)' <=> At(q)'.generation = owner'[q].generation BY DEF Current
<1>4. CASE At(q)'.generation = At(q).generation /\ At(q)'.active \in {At(q).active, 0}
  BY <1>1, <1>3, <1>4 DEF Current
<1>5. CASE At(q)'.generation > owner[q].generation BY <1>1, <1>2, <1>3, <1>5
<1> QED BY <1>1, <1>4, <1>5

LEMMA LateStep == RegistryInv /\ LateInv /\ [Next]_vars => LateInv'
<1> SUFFICES ASSUME RegistryInv, LateInv, [Next]_vars, NEW d \in Callbacks,
                    cb'[d].late, cb'[d].step # "idle", NEW q, q = cb'[d].context
             PROVE  /\ Current(q)' => At(q)'.active = 0
                    /\ cb'[d].queue = q =>
                         /\ cb'[d].step \notin {"reactive", "copy", "leave"}
                         /\ cb'[d].step \in {"count", "recheck"} => ~Current(q)'
  BY DEF LateInv, Current, At
<1> USE DEF RegistryInv
<1>0. Aged /\ cb \in [Callbacks -> Callback] BY AgedStep DEF TypeOK, Callback
<1>1. ASSUME cb'[d] = cb[d]
      PROVE  /\ Current(q)' => At(q)'.active = 0
             /\ cb'[d].queue = q =>
                  /\ cb'[d].step \notin {"reactive", "copy", "leave"}
                  /\ cb'[d].step \in {"count", "recheck"} => ~Current(q)'
  <2>1. q \in Queues /\ q <= reserved BY <1>1 DEF Contexts
  <2>2. /\ Current(q) => At(q).active = 0
        /\ cb[d].queue = q =>
             /\ cb[d].step \notin {"reactive", "copy", "leave"}
             /\ cb[d].step \in {"count", "recheck"} => ~Current(q)
    BY <1>1 DEF LateInv
  <2>3. /\ Current(q)' => At(q)'.active = 0
        /\ ~Current(q) => ~Current(q)'
    BY <1>0, <2>1, <2>2, LateKept
  <2> QED BY <1>1, <2>2, <2>3
<1>2. CASE UNCHANGED cb BY <1>1, <1>2
<1>3. ASSUME NEW c \in Callbacks, NEW p \in Queues, Dispatch(c, p)
      PROVE  /\ Current(q)' => At(q)'.active = 0
             /\ cb'[d].queue = q =>
                  /\ cb'[d].step \notin {"reactive", "copy", "leave"}
                  /\ cb'[d].step \in {"count", "recheck"} => ~Current(q)'
  <2>1. cb' = [cb EXCEPT ![c] = [step |-> "enter", context |-> p, queue |-> Null,
                                 late |-> At(p).queue # p \/ At(p).active = 0]]
        /\ UNCHANGED registry /\ p \in held
    BY <1>3 DEF Dispatch
  <2>2. CASE d = c
    <3>0. PICK l : l = (At(p).queue # p \/ At(p).active = 0) OBVIOUS
    <3>1. cb' = [cb EXCEPT ![c] = [step |-> "enter", context |-> p, queue |-> Null, late |-> l]]
      BY <2>1, <3>0, Zenon
    <3>1a. q = p /\ cb'[d].step = "enter" /\ cb'[d].late = l BY <1>0, <2>2, <3>1
    <3>2. q = p /\ cb'[d].step = "enter" /\ (At(p).queue # p \/ At(p).active = 0)
      BY <3>0, <3>1a, Zenon
    <3>3. p <= reserved BY <2>1 DEF Removals
    <3>4. owner[p].session \in Sessions /\ owner[p].slot \in Slots BY OwnerType
    <3>5. At(p).queue = Null => At(p).active = 0 BY <3>4 DEF Removals, At
    <3>6. Current(p) => At(p).active = 0 BY <3>2, <3>3, <3>5 DEF Generations, Current
    <3>7. At(p)' = At(p) /\ owner'[p] = owner[p] BY <2>1 DEF registry, At
    <3>8. Current(p)' => Current(p) BY <3>7 DEF Current
    <3> QED BY <3>2, <3>6, <3>7, <3>8
  <2>3. CASE d # c
    <3>1. cb'[d] = cb[d] BY <1>0, <2>1, <2>3
    <3> QED BY <1>1, <3>1
  <2> QED BY <2>2, <2>3
<1>4. ASSUME NEW c \in Callbacks, Receive(c)
      PROVE  /\ Current(q)' => At(q)'.active = 0
             /\ cb'[d].queue = q =>
                  /\ cb'[d].step \notin {"reactive", "copy", "leave"}
                  /\ cb'[d].step \in {"count", "recheck"} => ~Current(q)'
  <2>1. /\ CountsOnly /\ UNCHANGED <<reserved, owner>> /\ cb[c].step # "idle"
        /\ \/ cb' = [cb EXCEPT ![c] = NoCallback]
           \/ \E st \in CbStep \ {"idle", "enter"}, p \in Queues :
                /\ Moved(c, st, p) /\ p <= reserved
                /\ cb[c].step = "enter" => st = "check"
                /\ cb[c].step # "enter" => p = cb[c].queue
    BY <1>4, ReceiveEffect
  <2>2. CASE d # c
    <3>1. cb'[d] = cb[d] BY <1>0, <2>1, <2>2 DEF Moved
    <3> QED BY <1>1, <3>1
  <2>3. CASE d = c
    <3>1. ~(cb' = [cb EXCEPT ![c] = NoCallback]) BY <1>0, <2>3 DEF NoCallback
    <3>2. PICK st \in CbStep \ {"idle", "enter"}, p \in Queues :
             /\ Moved(c, st, p) /\ p <= reserved
             /\ cb[c].step = "enter" => st = "check"
             /\ cb[c].step # "enter" => p = cb[c].queue
      BY <2>1, <3>1
    <3>3. /\ cb'[d].step = st /\ cb'[d].queue = p /\ cb'[d].context = cb[d].context
          /\ cb'[d].late = cb[d].late
      BY <1>0, <2>3, <3>2 DEF Moved, Callback
    <3>4. q = cb[d].context /\ q \in Queues /\ q <= reserved BY <2>1, <2>3, <3>3 DEF Contexts
    <3>5. /\ Current(q) => At(q).active = 0
          /\ cb[d].queue = q =>
               /\ cb[d].step \notin {"reactive", "copy", "leave"}
               /\ cb[d].step \in {"count", "recheck"} => ~Current(q)
      BY <2>1, <2>3, <3>3, <3>4 DEF LateInv
    <3>6. /\ Current(q)' => At(q)'.active = 0
          /\ ~Current(q) => ~Current(q)'
      BY <1>0, <3>4, <3>5, LateKept
    <3>7. ASSUME p = q, st \in {"reactive", "copy", "leave"} PROVE FALSE
      <4>1. cb[c].queue = q /\ cb[c].step # "enter" BY <3>2, <3>7
      <4>2. cb[c].step \notin {"reactive", "copy", "leave"}
            /\ (cb[c].step \in {"count", "recheck"} => ~Current(q))
        BY <2>3, <3>5, <4>1
      <4>3. CASE Enter(c) BY <4>1, <4>3 DEF Enter
      <4>4. CASE CheckGeneration(c) \/ CheckActive(c) \/ CountClaim(c)
        <5>1. cb'[c].step \in {"active", "count", "recheck", "idle"}
          BY <1>0, <4>4 DEF CheckGeneration, CheckActive, CountClaim, CbGoto, CbReturn, NoCallback, Callback
        <5> QED BY <2>3, <3>3, <3>7, <5>1
      <4>5. CASE RecheckGeneration(c)
        <5>1. ~SameGeneration(c) BY <4>1, <4>2, <4>5 DEF RecheckGeneration, SameGeneration, Current
        <5>2. cb'[c].step = "idle"
          BY <1>0, <4>5, <5>1 DEF RecheckGeneration, GiveBack, CbReturn, NoCallback
        <5> QED BY <2>3, <5>2
      <4>6. CASE RecheckActive(c) \/ Copy(c) \/ Leave(c)
        BY <4>2, <4>6 DEF RecheckActive, Copy, Leave
      <4> QED BY <1>4, <4>3, <4>4, <4>5, <4>6 DEF Receive, Claim
    <3>8. ASSUME p = q, st \in {"count", "recheck"} PROVE ~Current(q)
      <4>1. cb[c].queue = q /\ cb[c].step # "enter" BY <3>2, <3>8
      <4>2. cb'[c].step \in {"count", "recheck"} BY <2>3, <3>3, <3>8
      <4>3. CASE CheckActive(c)
        <5>1. Active(c) BY <1>0, <4>2, <4>3 DEF CheckActive, CbReturn, NoCallback
        <5> QED BY <3>5, <4>1, <5>1 DEF Active
      <4>4. CASE CountClaim(c) BY <2>3, <3>5, <4>1, <4>4 DEF CountClaim
      <4>5. CASE Enter(c) \/ CheckGeneration(c)
        <5>1. cb'[c].step \in {"check", "active", "idle"}
          BY <1>0, <2>3, <3>2, <3>3, <4>5
             DEF Enter, CheckGeneration, CbGoto, CbReturn, NoCallback, Callback
        <5> QED BY <4>2, <5>1
      <4>6. CASE RecheckGeneration(c) \/ RecheckActive(c) \/ Copy(c) \/ Leave(c)
        <5>1. cb'[c].step \in {"reactive", "copy", "leave", "idle"}
          BY <1>0, <4>6 DEF RecheckGeneration, RecheckActive, Copy, Leave, GiveBack, CbGoto,
                            CbReturn, NoCallback, Callback
        <5> QED BY <4>2, <5>1
      <4> QED BY <1>4, <4>3, <4>4, <4>5, <4>6 DEF Receive, Claim
    <3> QED BY <3>3, <3>6, <3>7, <3>8
  <2> QED BY <2>2, <2>3
<1>5. CASE OpenSession \/ Remove \/ UNCHANGED vars
  BY <1>2, <1>5 DEF OpenSession, Remove, CloseNext, Deactivate, Release, Spin, Free, vars
<1>6. ASSUME NEW s \in Sessions, Subscribe(s) \/ CloseSession(s) \/ \E p \in Queues : Unsubscribe(s, p)
      PROVE  UNCHANGED cb
  BY <1>6 DEF Subscribe, CloseSession, Unsubscribe
<1> QED BY <1>2, <1>3, <1>4, <1>5, <1>6 DEF Next

(* "A late callback is rejected by generation" (zenoh_pico_queue.h):       *)
(* whatever undeclare promises, a callback dispatched after its            *)
(* declaration was deactivated never copies under that declaration, for    *)
(* any number of sessions, slots and callbacks and any reuse of them.      *)
THEOREM LateRejectedHolds == Spec => []LateRejected
<1>1. Init => LateInv BY DEF Init, LateInv, NoCallback
<1>2. RegistryInv /\ LateInv => LateRejected BY DEF LateInv, LateRejected
<1> QED BY RegistryInvariant, LateStep, <1>1, <1>2, PTL DEF Spec

-------------------------------------------------------------------------------
(* The handshake of a claim with a removal.                                *)

ClaimsAt(s, i) ==
  {c \in Callbacks : Counted(c) /\ owner[cb[c].queue].session = s /\ owner[cb[c].queue].slot = i}

(* The count of a slot is the number of claims in it, unless its last queue was
   reserved over a claim. *)
CountsRight ==
  \A q \in Queues : q <= reserved /\ Current(q) /\ q \notin overtaken =>
    At(q).in_flight = Cardinality(ClaimsAt(owner[q].session, owner[q].slot))

(* A claim that passed the second check of the generation is of the slot's last
   queue, unless that slot was reserved over it. *)
ClaimsCurrent ==
  \A c \in Callbacks : cb[c].step \in {"reactive", "copy", "leave"} /\ cb[c].queue \notin overtaken =>
    Current(cb[c].queue)

(* A copier's queue is in its slot, and is not about to be freed. *)
CopiersPlaced ==
  \A c \in Callbacks :
    cb[c].step \in {"copy", "leave"} /\ cb[c].queue \notin overtaken \cup abandoned =>
      /\ At(cb[c].queue).queue = cb[c].queue
      /\ app.step = "free" => Removed.queue # cb[c].queue

Handshake == CountsRight /\ ClaimsCurrent /\ CopiersPlaced

\* The callbacks in a set are finitely many, and one more or one less changes
\* their number by one.
LEMMA CallbacksCounted ==
  ASSUME NEW S \in SUBSET Callbacks
  PROVE  /\ Cardinality(S) \in Nat /\ Cardinality(S) <= Cardinality(Callbacks)
         /\ Cardinality(Callbacks) \in Nat
         /\ Cardinality(S) = 0 => S = {}
         /\ \A c \in Callbacks \ S :
              Cardinality(S \cup {c}) = Cardinality(S) + 1 /\ Cardinality(S) + 1 <= Cardinality(Callbacks)
         /\ \A c \in S : Cardinality(S \ {c}) = Cardinality(S) - 1
<1>1. IsFiniteSet(Callbacks) BY RegistryAssumption
<1>3. IsFiniteSet(S) /\ Cardinality(S) <= Cardinality(Callbacks) BY <1>1, FS_Subset
<1>4. Cardinality(S) \in Nat /\ Cardinality(Callbacks) \in Nat BY <1>1, <1>3, FS_CardinalityType
<1>5. Cardinality(S) = 0 => S = {} BY <1>3, FS_EmptySet
<1>6. ASSUME NEW c \in Callbacks \ S
      PROVE  Cardinality(S \cup {c}) = Cardinality(S) + 1
             /\ Cardinality(S) + 1 <= Cardinality(Callbacks)
  <2>1. Cardinality(S \cup {c}) = Cardinality(S) + 1 BY <1>3, <1>6, FS_AddElement
  <2>2. S \cup {c} \subseteq Callbacks OBVIOUS
  <2>3. Cardinality(S \cup {c}) <= Cardinality(Callbacks) BY <1>1, <2>2, FS_Subset
  <2> QED BY <2>1, <2>3
<1>7. ASSUME NEW c \in S PROVE Cardinality(S \ {c}) = Cardinality(S) - 1
  BY <1>3, FS_RemoveElement
<1> QED BY <1>3, <1>4, <1>5, <1>6, <1>7

\* The count of the slot a callback claims.
LEMMA CountEffect ==
  ASSUME TypeOK, NEW q \in Queues, NEW amount \in Int, AddInFlight(q, amount)
  PROVE  /\ record'[owner[q].session][owner[q].slot].in_flight =
              (record[owner[q].session][owner[q].slot].in_flight + amount) % Modulus
         /\ \A s \in Sessions, i \in Slots :
              s # owner[q].session \/ i # owner[q].slot => record'[s][i] = record[s][i]
<1> DEFINE s == owner[q].session  i == owner[q].slot
<1>1. s \in Sessions /\ i \in Slots /\ record \in [Sessions -> [Slots -> Record]] BY DEF TypeOK
<1>2. record[s][i] \in Record BY <1>1
<1>a. record[s][i].in_flight + amount \in Int /\ Modulus \in Nat \ {0}
  BY <1>2, RegistryAssumption DEF Record
<1>3. (record[s][i].in_flight + amount) % Modulus \in 0 .. (Modulus - 1)
  BY <1>a, ModRange
<1> DEFINE r == [record[s][i] EXCEPT !.in_flight = (@ + amount) % Modulus]
<1>4. r \in Record /\ r.in_flight = (record[s][i].in_flight + amount) % Modulus
  BY <1>2, <1>3 DEF Record
<1>5. record' = [record EXCEPT ![s][i] = r] BY DEF AddInFlight
<1> HIDE DEF r, s, i
<1>6. record'[s][i] = r /\ \A t \in Sessions, j \in Slots : t # s \/ j # i => record'[t][j] = record[t][j]
  BY <1>1, <1>4, <1>5, SlotWrite
<1>7. record'[s][i].in_flight = (record[s][i].in_flight + amount) % Modulus BY <1>4, <1>6
<1> QED BY <1>6, <1>7 DEF s, i

\* A step of no callback that keeps the slots' queues, generations and counts,
\* and does not begin to free.
LEMMA HandshakeKept ==
  ASSUME RegistryInv, Handshake, UNCHANGED <<reserved, owner, cb, abandoned, overtaken>>,
         app'.step # "free",
         \A s \in Sessions, i \in Slots :
           /\ record'[s][i].queue = record[s][i].queue
           /\ record'[s][i].generation = record[s][i].generation
           /\ record'[s][i].in_flight = record[s][i].in_flight
  PROVE  Handshake'
<1> USE DEF RegistryInv
<1>1. \A q \in Queues : /\ At(q)'.queue = At(q).queue /\ At(q)'.generation = At(q).generation
                        /\ At(q)'.in_flight = At(q).in_flight
  BY OwnerType DEF At
<1>2. \A s, i : ClaimsAt(s, i)' = ClaimsAt(s, i) BY DEF ClaimsAt, Counted
<1>3. CountsRight' BY <1>1, <1>2 DEF Handshake, CountsRight, Current
<1>4. \A c \in Callbacks : cb[c].step \in {"reactive", "copy", "leave"} => cb[c].queue \in Queues
  BY DEF Contexts
<1>5. ClaimsCurrent' BY <1>1, <1>4 DEF Handshake, ClaimsCurrent, Current
<1>6. CopiersPlaced' BY <1>1, <1>4 DEF Handshake, CopiersPlaced
<1> QED BY <1>3, <1>5, <1>6 DEF Handshake

LEMMA HandshakeInit == Init => Handshake
<1> SUFFICES ASSUME Init PROVE Handshake OBVIOUS
<1>1. reserved = 0 /\ \A c \in Callbacks : cb[c].step = "idle" BY DEF Init, NoCallback
<1>2. CountsRight BY <1>1 DEF CountsRight, Queues
<1> QED BY <1>1, <1>2 DEF Handshake, ClaimsCurrent, CopiersPlaced

\* A reservation starts a slot's count from zero: right when no claim is counted
\* there, and recorded otherwise.
LEMMA HandshakeSubscribe ==
  ASSUME RegistryInv, Handshake, NEW s \in Sessions, Subscribe(s)
  PROVE  Handshake'
<1> USE DEF RegistryInv
<1>0. PICK q : q = reserved + 1 OBVIOUS
<1>1. PICK i \in Slots, b \in Blocks : Subscribed(s, q, i, b) BY <1>0, SubscribeEffect
<1>2. /\ q \in Queues /\ reserved' = q /\ UNCHANGED <<cb, abandoned>>
      /\ record'[s][i].generation = record[s][i].generation + 1 /\ record'[s][i].in_flight = 0
      /\ \A t \in Sessions, j \in Slots : t # s \/ j # i => record'[t][j] = record[t][j]
      /\ owner'[q].session = s /\ owner'[q].slot = i
      /\ \A p \in Queues : p # q => owner'[p] = owner[p]
      /\ overtaken \subseteq overtaken'
      /\ ClaimedIn(s, i) # {} => ClaimedIn(s, i) \cup {q} \subseteq overtaken'
  BY <1>1 DEF Subscribed
<1>3. app'.step # "free"
  <2>1. Idle.step = "idle" /\ [Idle EXCEPT !.step = "release", !.session = s, !.slot = i].step = "release"
    BY DEF Idle
  <2> QED BY <1>1, <2>1 DEF Subscribed
<1>4. reserved \in Nat /\ \A p \in Queues : p # q /\ p <= reserved' => p <= reserved
  BY <1>0, <1>2 DEF TypeOK, Queues
<1>5. \A p \in Queues : p <= reserved => p # q /\ p <= reserved' BY <1>0, <1>2, <1>4 DEF Queues
<1>6. \A c \in Callbacks : Counted(c) \/ cb[c].step \in {"reactive", "copy", "leave"} =>
        cb[c].queue \in Queues /\ cb[c].queue <= reserved /\ owner'[cb[c].queue] = owner[cb[c].queue]
  BY <1>2, <1>5 DEF Contexts, Counted
<1>7. \A t, j : ClaimsAt(t, j)' = ClaimsAt(t, j) BY <1>2, <1>6 DEF ClaimsAt, Counted
<1>8. ASSUME NEW p \in Queues, p <= reserved, owner[p].session = s, owner[p].slot = i
      PROVE  ~Current(p)'
  <2>1. At(p)' = record'[s][i] /\ owner'[p] = owner[p] /\ At(p) = record[s][i]
    BY <1>2, <1>5, <1>8 DEF At
  <2>2. owner[p].generation <= record[s][i].generation /\ owner[p].generation \in Nat
        /\ record[s][i].generation \in Nat
    BY <1>8, <2>1 DEF Generations, TypeOK, Record
  <2> QED BY <1>2, <2>1, <2>2 DEF Current
<1>9. ASSUME NEW p \in Queues, p <= reserved, ~(owner[p].session = s /\ owner[p].slot = i)
      PROVE  At(p)' = At(p) /\ owner'[p] = owner[p]
  BY <1>2, <1>5, <1>9, OwnerType DEF At
<1>10. ASSUME NEW p \in Queues, p <= reserved', Current(p)', p \notin overtaken'
       PROVE  (At(p).in_flight = Cardinality(ClaimsAt(owner[p].session, owner[p].slot)))'
  <2>1. PICK t, j : t = owner'[p].session /\ j = owner'[p].slot OBVIOUS
  <2>2. ClaimsAt(owner[p].session, owner[p].slot)' = ClaimsAt(t, j)' BY <2>1 DEF ClaimsAt
  <2>3. ClaimsAt(owner[p].session, owner[p].slot)' = ClaimsAt(t, j) BY <1>7, <2>2
  <2>4. CASE p = q
    <3>1. ClaimedIn(s, i) = {} BY <1>2, <1>10, <2>4
    <3>2. ClaimsAt(s, i) = {} BY <3>1 DEF ClaimedIn, ClaimsAt
    <3>3. Cardinality(ClaimsAt(s, i)) = 0 BY <3>2, FS_EmptySet
    <3>4. At(p)'.in_flight = 0 /\ t = s /\ j = i BY <1>2, <2>1, <2>4 DEF At
    <3> QED BY <2>3, <3>3, <3>4
  <2>5. CASE p # q
    <3>1. p <= reserved BY <1>4, <1>10, <2>5
    <3>2. ~(owner[p].session = s /\ owner[p].slot = i) BY <1>8, <1>10, <3>1
    <3>3. At(p)' = At(p) /\ owner'[p] = owner[p] BY <1>9, <3>1, <3>2
    <3>4. Current(p) /\ p \notin overtaken BY <1>2, <1>10, <3>3 DEF Current
    <3>5. At(p).in_flight = Cardinality(ClaimsAt(owner[p].session, owner[p].slot))
      BY <3>1, <3>4 DEF Handshake, CountsRight
    <3> QED BY <2>1, <2>3, <3>3, <3>5
  <2> QED BY <2>4, <2>5
<1>11. CountsRight' BY <1>10 DEF CountsRight
<1>12. ASSUME NEW c \in Callbacks, cb[c].step \in {"reactive", "copy", "leave"},
              cb[c].queue \notin overtaken'
       PROVE  ~(owner[cb[c].queue].session = s /\ owner[cb[c].queue].slot = i)
  <2> SUFFICES ASSUME owner[cb[c].queue].session = s, owner[cb[c].queue].slot = i PROVE FALSE OBVIOUS
  <2>1. cb[c].queue \in ClaimedIn(s, i) BY <1>12 DEF ClaimedIn, Counted
  <2> QED BY <1>2, <1>12, <2>1
<1>13. ASSUME NEW c \in Callbacks, cb[c].step \in {"reactive", "copy", "leave"},
              cb[c].queue \notin overtaken', NEW p, p = cb[c].queue
       PROVE  p \in Queues /\ p \notin overtaken /\ At(p)' = At(p) /\ owner'[p] = owner[p]
  <2>1. p \in Queues /\ p <= reserved BY <1>6, <1>13
  <2> QED BY <1>2, <1>9, <1>12, <1>13, <2>1
<1>14. ClaimsCurrent'
  <2> SUFFICES ASSUME NEW c \in Callbacks, cb[c].step \in {"reactive", "copy", "leave"},
                      cb[c].queue \notin overtaken', NEW p, p = cb[c].queue
               PROVE  At(p)'.generation = owner'[p].generation
    BY <1>2 DEF ClaimsCurrent, Current, At
  <2>1. p \in Queues /\ p \notin overtaken /\ At(p)' = At(p) /\ owner'[p] = owner[p] BY <1>13
  <2> QED BY <2>1 DEF Handshake, ClaimsCurrent, Current
<1>15. CopiersPlaced'
  <2> SUFFICES ASSUME NEW c \in Callbacks, cb[c].step \in {"copy", "leave"},
                      cb[c].queue \notin overtaken' \cup abandoned, NEW p, p = cb[c].queue
               PROVE  At(p)'.queue = p
    BY <1>2, <1>3 DEF CopiersPlaced, At
  <2>1. p \in Queues /\ p \notin overtaken /\ At(p)' = At(p) BY <1>13
  <2> QED BY <2>1 DEF Handshake, CopiersPlaced
<1> QED BY <1>11, <1>14, <1>15 DEF Handshake

\* Once the drain sees the count at zero, no callback copies into the queue.
LEMMA HandshakeSpin ==
  ASSUME RegistryInv, Handshake, Spin
  PROVE  Handshake'
<1> USE DEF RegistryInv
<1>1. /\ app.step = "drain" /\ UNCHANGED <<record, reserved, owner, cb, overtaken>>
      /\ app.spins = SpinLimit => abandoned' = abandoned \cup {Removed.queue}
      /\ abandoned \subseteq abandoned'
      /\ app.spins # SpinLimit /\ Removed.in_flight # 0 => app' = [app EXCEPT !.spins = @ + 1]
  BY DEF Spin
<1>2. app \in AppState BY DEF TypeOK, AppState
<1>3. Removed' = Removed BY <1>1, <1>2 DEF Spin, Removed, AppState
<1>4. CountsRight' BY <1>1 DEF Handshake, CountsRight, Current, At, ClaimsAt, Counted
<1>5. ClaimsCurrent' BY <1>1 DEF Handshake, ClaimsCurrent, Current, At
<1>6. ASSUME NEW c \in Callbacks, NEW q, q = cb[c].queue, cb[c].step \in {"copy", "leave"},
             q \notin overtaken \cup abandoned', app'.step = "free", Removed.queue = q
      PROVE  FALSE
  <2>1. app.spins # SpinLimit BY <1>1, <1>6
  <2>2. Removed.in_flight = 0
    <3>1. app.spins # SpinLimit /\ Removed.in_flight # 0 => app'.step = "drain"
      BY <1>1, <1>2 DEF AppState
    <3> QED BY <1>6, <2>1, <3>1
  <2>3. q \in Queues /\ q <= reserved /\ q # Null BY <1>6 DEF Contexts, Queues, Null
  <2>4. At(q) = Removed
    <3>1. app.session \in Sessions /\ app.slot \in Slots BY RemovedType
    <3> QED BY <1>6, <2>3, <3>1 DEF Placed, Removed, At
  <2>5. Current(q) /\ q \notin overtaken BY <1>6 DEF Handshake, ClaimsCurrent
  <2>6. Cardinality(ClaimsAt(owner[q].session, owner[q].slot)) = 0
    BY <2>2, <2>3, <2>4, <2>5 DEF Handshake, CountsRight
  <2>7. ClaimsAt(owner[q].session, owner[q].slot) \in SUBSET Callbacks BY DEF ClaimsAt
  <2>8. ClaimsAt(owner[q].session, owner[q].slot) = {} BY <2>6, <2>7, CallbacksCounted
  <2>9. c \in ClaimsAt(owner[q].session, owner[q].slot) BY <1>6 DEF ClaimsAt, Counted
  <2> QED BY <2>8, <2>9
<1>7. CopiersPlaced'
  <2> SUFFICES ASSUME NEW c \in Callbacks, NEW q, q = cb[c].queue, cb[c].step \in {"copy", "leave"},
                      q \notin overtaken \cup abandoned'
               PROVE  At(q).queue = q /\ (app'.step = "free" => Removed.queue # q)
    BY <1>1, <1>3 DEF CopiersPlaced, At
  <2>1. At(q).queue = q BY <1>1 DEF Handshake, CopiersPlaced
  <2> QED BY <1>6, <2>1
<1> QED BY <1>4, <1>5, <1>7 DEF Handshake

\* The queue that is freed is no copier's.
LEMMA HandshakeFree ==
  ASSUME RegistryInv, Handshake, Free
  PROVE  Handshake'
<1> USE DEF RegistryInv
<1>1. /\ app.step = "free" /\ SlotFreed /\ UNCHANGED <<reserved, owner, cb, abandoned, overtaken>>
  BY DEF Free, SlotFreed, history
<1>2. app'.step # "free"
  <2>1. app \in AppState /\ Idle.step = "idle" BY DEF TypeOK, AppState, Idle
  <2> QED BY <2>1 DEF Free, AppState
<1>3. \A s \in Sessions, i \in Slots :
        /\ record'[s][i].generation = record[s][i].generation
        /\ record'[s][i].in_flight = record[s][i].in_flight
        /\ record'[s][i].queue = IF s = app.session /\ i = app.slot THEN Null ELSE record[s][i].queue
  BY <1>1, FreeEffect
<1>4. \A q \in Queues :
        /\ At(q)'.generation = At(q).generation /\ At(q)'.in_flight = At(q).in_flight
        /\ At(q)'.queue = IF owner[q].session = app.session /\ owner[q].slot = app.slot
                          THEN Null ELSE At(q).queue
  BY <1>1, <1>3, OwnerType DEF At
<1>5. \A s, i : ClaimsAt(s, i)' = ClaimsAt(s, i) BY <1>1 DEF ClaimsAt, Counted
<1>6. CountsRight' BY <1>1, <1>4, <1>5 DEF Handshake, CountsRight, Current
<1>7. \A c \in Callbacks : cb[c].step \in {"reactive", "copy", "leave"} => cb[c].queue \in Queues
  BY DEF Contexts
<1>8. ClaimsCurrent' BY <1>1, <1>4, <1>7 DEF Handshake, ClaimsCurrent, Current
<1>9. CopiersPlaced'
  <2> SUFFICES ASSUME NEW c \in Callbacks, NEW q, q = cb[c].queue, cb[c].step \in {"copy", "leave"},
                      q \notin overtaken \cup abandoned
               PROVE  At(q)'.queue = q
    BY <1>1, <1>2 DEF CopiersPlaced, At
  <2>1. q \in Queues /\ At(q).queue = q /\ Removed.queue # q
    BY <1>1, <1>7 DEF Handshake, CopiersPlaced
  <2>2. ~(owner[q].session = app.session /\ owner[q].slot = app.slot) BY <2>1 DEF At, Removed
  <2> QED BY <1>4, <2>1, <2>2
<1> QED BY <1>6, <1>8, <1>9 DEF Handshake

\* A step of a callback changes the count of its queue's slot as it changes the
\* claims there.
LEMMA HandshakeReceive ==
  ASSUME RegistryInv, Handshake, NEW c \in Callbacks, Receive(c)
  PROVE  Handshake'
<1> USE DEF RegistryInv
<1>1. /\ CountsOnly /\ UNCHANGED <<reserved, owner, app, abandoned, overtaken>>
      /\ \/ cb' = [cb EXCEPT ![c] = NoCallback]
         \/ \E st \in CbStep \ {"idle", "enter"}, q \in Queues :
              /\ Moved(c, st, q) /\ q <= reserved
              /\ cb[c].step = "enter" => st = "check"
              /\ cb[c].step # "enter" => q = cb[c].queue
  BY ReceiveEffect DEF history
<1>2. cb \in [Callbacks -> Callback] BY DEF TypeOK, Callback
<1>3. \A d \in Callbacks : d # c => cb'[d] = cb[d] BY <1>1, <1>2 DEF Moved
<1>4. \A q \in Queues : /\ At(q)'.generation = At(q).generation /\ At(q)'.queue = At(q).queue
                        /\ At(q)'.active = At(q).active
  BY <1>1, OwnerType DEF CountsOnly, At
<1>5. Removed'.queue = Removed.queue BY <1>1, RemovedType DEF CountsOnly, Removed
<1>6. \A d \in Callbacks : Counted(d) => cb[d].queue \in Queues /\ cb[d].queue <= reserved
  BY DEF Contexts, Counted
<1> DEFINE Passed == {"reactive", "copy", "leave"}
           Placing(d) == cb'[d].step \in {"copy", "leave"} =>
                           cb[d].step \in {"copy", "leave"} \/ At(cb[d].queue).active = 1
           Passing(d) == cb'[d].step \in Passed => cb[d].step \in Passed \/ Current(cb[d].queue)
(* The claims that pass a check now. *)
<1>7. Passing(c) /\ Placing(c)
      /\ (cb'[c].step \in Passed => Counted(c) /\ cb'[c].queue = cb[c].queue)
  <2>1. CASE Enter(c) \/ CheckGeneration(c) \/ CheckActive(c) \/ CountClaim(c)
    <3>1. cb'[c].step \in {"check", "active", "count", "recheck", "idle"}
      BY <1>2, <2>1 DEF Enter, CheckGeneration, CheckActive, CountClaim, CbGoto, CbReturn,
                        NoCallback, Callback
    <3> QED BY <3>1
  <2>2. CASE RecheckGeneration(c)
    <3>1. CASE SameGeneration(c)
      <4>1. cb'[c].step = "reactive" /\ cb'[c].queue = cb[c].queue /\ cb[c].step = "recheck"
        BY <1>2, <2>2, <3>1 DEF RecheckGeneration, CbGoto, Callback
      <4> QED BY <3>1, <4>1 DEF SameGeneration, Current, Counted
    <3>2. CASE ~SameGeneration(c)
      <4>1. cb'[c].step = "idle"
        BY <1>2, <2>2, <3>2 DEF RecheckGeneration, GiveBack, CbReturn, NoCallback
      <4> QED BY <4>1
    <3> QED BY <3>1, <3>2
  <2>3. CASE RecheckActive(c)
    <3>1. CASE Active(c)
      <4>1. cb'[c].step = "copy" /\ cb'[c].queue = cb[c].queue /\ cb[c].step = "reactive"
        BY <1>2, <2>3, <3>1 DEF RecheckActive, CbGoto, Callback
      <4> QED BY <3>1, <4>1 DEF Active, Counted
    <3>2. CASE ~Active(c)
      <4>1. cb'[c].step = "idle"
        BY <1>2, <2>3, <3>2 DEF RecheckActive, GiveBack, CbReturn, NoCallback
      <4> QED BY <4>1
    <3> QED BY <3>1, <3>2
  <2>4. CASE Copy(c)
    <3>1. cb'[c].step = "leave" /\ cb'[c].queue = cb[c].queue /\ cb[c].step = "copy"
      BY <1>2, <2>4 DEF Copy, CbGoto, Callback
    <3> QED BY <3>1 DEF Counted
  <2>5. CASE Leave(c)
    <3>1. cb'[c].step = "idle" BY <1>2, <2>5 DEF Leave, CbReturn, NoCallback
    <3> QED BY <3>1
  <2> QED BY <2>1, <2>2, <2>3, <2>4, <2>5 DEF Receive, Claim
<1>8. \A d \in Callbacks :
        /\ Passing(d) /\ Placing(d)
        /\ cb'[d].step \in Passed => Counted(d) /\ cb'[d].queue = cb[d].queue
  BY <1>3, <1>7 DEF Counted
<1>9. ClaimsCurrent'
  <2> SUFFICES ASSUME NEW d \in Callbacks, cb'[d].step \in Passed, NEW q, q = cb'[d].queue,
                      q \notin overtaken
               PROVE  At(q)'.generation = owner[q].generation
    BY <1>1 DEF ClaimsCurrent, Current, At
  <2>1. Counted(d) /\ q = cb[d].queue /\ Passing(d) BY <1>8
  <2>2. q \in Queues BY <1>6, <2>1
  <2>3. Current(q) BY <2>1 DEF Handshake, ClaimsCurrent
  <2> QED BY <1>4, <2>2, <2>3 DEF Current
<1>10. CopiersPlaced'
  <2> SUFFICES ASSUME NEW d \in Callbacks, cb'[d].step \in {"copy", "leave"}, NEW q, q = cb'[d].queue,
                      q \notin overtaken \cup abandoned
               PROVE  At(q)'.queue = q /\ (app.step = "free" => Removed.queue # q)
    BY <1>1, <1>5 DEF CopiersPlaced, At
  <2>1. Counted(d) /\ q = cb[d].queue /\ Placing(d) /\ Passing(d) BY <1>8
  <2>2. q \in Queues /\ q <= reserved /\ q # Null BY <1>6, <2>1 DEF Queues, Null
  <2>3. CASE cb[d].step \in {"copy", "leave"}
    BY <1>4, <2>1, <2>2, <2>3 DEF Handshake, CopiersPlaced
  <2>4. CASE At(q).active = 1
    <3>1. Current(q) BY <2>1 DEF Handshake, ClaimsCurrent
    <3>2. At(q).queue # Null BY <2>2, <2>4, OwnerType DEF Removals, At
    <3>3. At(q).queue = q BY <2>2, <3>1, <3>2 DEF Generations, Current
    <3>4. ASSUME app.step = "free", Removed.queue = q PROVE FALSE
      <4>1. app.session \in Sessions /\ app.slot \in Slots BY RemovedType
      <4>2. At(q) = Removed BY <2>2, <3>4, <4>1 DEF Placed, Removed, At
      <4> QED BY <2>4, <3>4, <4>2 DEF Removals
    <3> QED BY <1>4, <2>2, <3>3, <3>4
  <2> QED BY <2>1, <2>3, <2>4
(* The counts. *)
<1>11. ASSUME UNCHANGED record, \A s, i : ClaimsAt(s, i)' = ClaimsAt(s, i) PROVE CountsRight'
  BY <1>1, <1>11 DEF Handshake, CountsRight, Current, At
<1>12. ASSUME NEW Q \in Queues, Q = cb[c].queue, NEW amount \in {-1, 1}, AddInFlight(Q, amount),
              NEW s \in Sessions, NEW i \in Slots, s = owner[Q].session, i = owner[Q].slot,
              \A t, j : t # s \/ j # i => ClaimsAt(t, j)' = ClaimsAt(t, j),
              Cardinality(ClaimsAt(s, i)') = Cardinality(ClaimsAt(s, i)) + amount,
              Cardinality(ClaimsAt(s, i)) + amount \in 0 .. (Modulus - 1)
       PROVE  CountsRight'
  <2>1. /\ record'[s][i].in_flight = (record[s][i].in_flight + amount) % Modulus
        /\ \A t \in Sessions, j \in Slots : t # s \/ j # i => record'[t][j] = record[t][j]
    <3>1. amount \in Int OBVIOUS
    <3>2. AddInFlight(Q, amount) BY <1>12
    <3>3. /\ record'[owner[Q].session][owner[Q].slot].in_flight =
               (record[owner[Q].session][owner[Q].slot].in_flight + amount) % Modulus
          /\ \A t \in Sessions, j \in Slots :
               t # owner[Q].session \/ j # owner[Q].slot => record'[t][j] = record[t][j]
      BY <3>1, <3>2, CountEffect
    <3> QED BY <1>12, <3>3
  <2> SUFFICES ASSUME NEW q \in Queues, q <= reserved, Current(q)', q \notin overtaken
               PROVE  (At(q).in_flight = Cardinality(ClaimsAt(owner[q].session, owner[q].slot)))'
    BY <1>1 DEF CountsRight
  <2>2. PICK t \in Sessions, j \in Slots : t = owner[q].session /\ j = owner[q].slot BY OwnerType
  <2>3. At(q)' = record'[t][j] /\ At(q) = record[t][j] BY <1>1, <2>2 DEF At
  <2>4. record[t][j].in_flight = Cardinality(ClaimsAt(t, j))
    <3>1. Current(q) BY <1>1, <1>4 DEF Current
    <3> QED BY <2>2, <2>3, <3>1 DEF Handshake, CountsRight
  <2>5. ClaimsAt(owner[q].session, owner[q].slot)' = ClaimsAt(t, j)' BY <1>1, <2>2 DEF ClaimsAt
  <2>6. record'[t][j].in_flight = Cardinality(ClaimsAt(t, j)')
    <3>1. CASE t = s /\ j = i
      <4>1. record'[s][i].in_flight = (Cardinality(ClaimsAt(s, i)) + amount) % Modulus
        BY <2>1, <2>4, <3>1
      <4>2. Modulus \in Nat \ {0} BY RegistryAssumption
      <4>3. (Cardinality(ClaimsAt(s, i)) + amount) % Modulus = Cardinality(ClaimsAt(s, i)) + amount
        BY <1>12, <4>2, ModSmall
      <4> QED BY <1>12, <3>1, <4>1, <4>3
    <3>2. CASE t # s \/ j # i
      <4>1. ClaimsAt(t, j)' = ClaimsAt(t, j) BY <1>12, <3>2
      <4>2. record'[t][j] = record[t][j] BY <2>1, <3>2
      <4> QED BY <2>4, <4>1, <4>2
    <3> QED BY <3>1, <3>2
  <2> QED BY <2>3, <2>5, <2>6
<1>13. ASSUME Counted(c), GiveBack(c) PROVE CountsRight'
  <2>1. PICK Q \in Queues : Q = cb[c].queue BY <1>6, <1>13
  <2>2. PICK s \in Sessions, i \in Slots : s = owner[Q].session /\ i = owner[Q].slot BY OwnerType
  <2>3. ~Counted(c)' /\ \A d \in Callbacks : d # c => (Counted(d)' <=> Counted(d))
    <3>1. cb'[c].step = "idle" BY <1>2, <1>13 DEF GiveBack, CbReturn, NoCallback
    <3> QED BY <1>3, <3>1 DEF Counted
  <2>4. ClaimsAt(s, i)' = ClaimsAt(s, i) \ {c} BY <1>1, <1>3, <2>1, <2>2, <2>3 DEF ClaimsAt
  <2>5. \A t, j : t # s \/ j # i => ClaimsAt(t, j)' = ClaimsAt(t, j)
    BY <1>1, <1>3, <2>1, <2>2, <2>3 DEF ClaimsAt
  <2>6. c \in ClaimsAt(s, i) BY <1>13, <2>1, <2>2 DEF ClaimsAt
  <2>7. PICK S \in SUBSET Callbacks : S = ClaimsAt(s, i) BY DEF ClaimsAt
  <2>8. Cardinality(S \ {c}) = Cardinality(S) - 1 /\ Cardinality(S) # 0
    BY <2>6, <2>7, CallbacksCounted
  <2>9. Cardinality(S) - 1 \in 0 .. (Modulus - 1)
    BY <2>8, CallbacksCounted, RegistryAssumption
  <2>10. Cardinality(S) + (-1) = Cardinality(S) - 1 BY CallbacksCounted
  <2>11. AddInFlight(Q, -1) BY <1>13, <2>1 DEF GiveBack
  <2>12. /\ Cardinality(ClaimsAt(s, i)') = Cardinality(ClaimsAt(s, i)) + (-1)
         /\ Cardinality(ClaimsAt(s, i)) + (-1) \in 0 .. (Modulus - 1)
    BY <2>4, <2>7, <2>8, <2>9, <2>10
  <2> QED BY <1>12, <2>1, <2>2, <2>5, <2>11, <2>12
<1>14. ASSUME CountClaim(c) PROVE CountsRight'
  <2>1. cb[c].step = "count" /\ AddInFlight(cb[c].queue, 1) /\ CbGoto(c, "recheck")
    BY <1>14 DEF CountClaim
  <2>2. PICK Q \in Queues : Q = cb[c].queue BY <2>1 DEF Contexts
  <2>3. PICK s \in Sessions, i \in Slots : s = owner[Q].session /\ i = owner[Q].slot BY OwnerType
  <2>4. cb'[c].step = "recheck" /\ cb'[c].queue = Q BY <1>2, <2>1, <2>2 DEF CbGoto, Callback
  <2>5. ~Counted(c) /\ Counted(c)' /\ \A d \in Callbacks : d # c => (Counted(d)' <=> Counted(d))
    BY <1>3, <2>1, <2>4 DEF Counted
  <2>6. ClaimsAt(s, i)' = ClaimsAt(s, i) \cup {c}
    BY <1>1, <1>3, <2>3, <2>4, <2>5 DEF ClaimsAt
  <2>7. \A t, j : t # s \/ j # i => ClaimsAt(t, j)' = ClaimsAt(t, j)
    BY <1>1, <1>3, <2>3, <2>4, <2>5 DEF ClaimsAt
  <2>a. c \notin ClaimsAt(s, i) /\ ClaimsAt(s, i) \in SUBSET Callbacks BY <2>5 DEF ClaimsAt
  <2>8. PICK S \in SUBSET Callbacks : S = ClaimsAt(s, i) /\ c \notin S BY <2>a
  <2>9. Cardinality(S \cup {c}) = Cardinality(S) + 1 /\ Cardinality(S) + 1 <= Cardinality(Callbacks)
    BY <2>8, CallbacksCounted
  <2>10. Cardinality(S) + 1 \in 0 .. (Modulus - 1)
    BY <2>9, CallbacksCounted, RegistryAssumption
  <2>11. AddInFlight(Q, 1) BY <2>1, <2>2
  <2>12. /\ Cardinality(ClaimsAt(s, i)') = Cardinality(ClaimsAt(s, i)) + 1
         /\ Cardinality(ClaimsAt(s, i)) + 1 \in 0 .. (Modulus - 1)
    BY <2>6, <2>8, <2>9, <2>10
  <2> QED BY <1>12, <2>2, <2>3, <2>7, <2>11, <2>12
<1>15. ASSUME UNCHANGED record, Counted(c)' <=> Counted(c), Counted(c) => cb'[c].queue = cb[c].queue
       PROVE  CountsRight'
  <2>1. \A d \in Callbacks : (Counted(d)' <=> Counted(d)) /\ (Counted(d) => cb'[d].queue = cb[d].queue)
    BY <1>3, <1>15 DEF Counted
  <2>2. \A s, i : ClaimsAt(s, i)' = ClaimsAt(s, i) BY <1>1, <2>1 DEF ClaimsAt
  <2> QED BY <1>11, <1>15, <2>2
<1>16. ASSUME Enter(c) \/ CheckGeneration(c) \/ CheckActive(c) PROVE CountsRight'
  <2>1. UNCHANGED record /\ cb[c].step \in {"enter", "check", "active"}
    BY <1>16 DEF Enter, CheckGeneration, CheckActive, registry
  <2>2. cb'[c].step \in {"check", "active", "count", "idle"}
    BY <1>2, <1>16 DEF Enter, CheckGeneration, CheckActive, CbGoto, CbReturn, NoCallback, Callback
  <2>3. ~Counted(c)' /\ ~Counted(c) BY <2>1, <2>2 DEF Counted
  <2> QED BY <1>15, <2>1, <2>3
<1>17. ASSUME RecheckGeneration(c) \/ RecheckActive(c) PROVE CountsRight'
  <2>1. Counted(c) BY <1>17 DEF RecheckGeneration, RecheckActive, Counted
  <2>2. GiveBack(c) \/ (UNCHANGED record /\ \E st \in {"reactive", "copy"} : CbGoto(c, st))
    BY <1>17 DEF RecheckGeneration, RecheckActive
  <2>3. ASSUME UNCHANGED record, NEW st \in {"reactive", "copy"}, CbGoto(c, st) PROVE CountsRight'
    <3>1. cb'[c].step = st /\ cb'[c].queue = cb[c].queue BY <1>2, <2>3 DEF CbGoto, Callback
    <3>2. Counted(c)' BY <3>1 DEF Counted
    <3> QED BY <1>15, <2>1, <2>3, <3>1, <3>2
  <2> QED BY <1>13, <2>1, <2>2, <2>3
<1>18. ASSUME Copy(c) PROVE CountsRight'
  <2>1. UNCHANGED record /\ cb[c].step = "copy" /\ CbGoto(c, "leave") BY <1>18 DEF Copy, registry
  <2>2. cb'[c].step = "leave" /\ cb'[c].queue = cb[c].queue BY <1>2, <2>1 DEF CbGoto, Callback
  <2>3. Counted(c)' /\ Counted(c) BY <2>1, <2>2 DEF Counted
  <2> QED BY <1>15, <2>1, <2>2, <2>3
<1>19. ASSUME Leave(c) PROVE CountsRight'
  <2>1. Counted(c) /\ GiveBack(c) BY <1>19 DEF Leave, GiveBack, Counted
  <2> QED BY <1>13, <2>1
<1>20. CountsRight' BY <1>14, <1>16, <1>17, <1>18, <1>19 DEF Receive, Claim
<1> QED BY <1>9, <1>10, <1>20 DEF Handshake

LEMMA HandshakeStep == RegistryInv /\ Handshake /\ [Next]_vars => Handshake'
<1> SUFFICES ASSUME RegistryInv, Handshake, [Next]_vars PROVE Handshake' OBVIOUS
<1>0. app \in AppState /\ Idle.step = "idle" BY DEF RegistryInv, TypeOK, AppState, Idle
<1>a. ASSUME UNCHANGED <<record, reserved, owner, cb, history>>, app'.step # "free" PROVE Handshake'
  BY <1>a, HandshakeKept DEF history
<1>1. CASE OpenSession BY <1>0, <1>1, <1>a DEF OpenSession
<1>2. ASSUME NEW s \in Sessions, CloseSession(s) \/ \E q \in Queues : Unsubscribe(s, q)
      PROVE  Handshake'
  <2>1. app'.step \in {"next", "deactivate"} BY <1>2 DEF CloseSession, Unsubscribe, Idle
  <2> QED BY <1>a, <1>2, <2>1 DEF CloseSession, Unsubscribe
<1>3. ASSUME NEW s \in Sessions, Subscribe(s) PROVE Handshake' BY <1>3, HandshakeSubscribe
<1>4. CASE CloseNext
  <2>1. app'.step \in {"deactivate", "idle"} BY <1>0, <1>4 DEF CloseNext, AppState
  <2> QED BY <1>a, <1>4, <2>1 DEF CloseNext
<1>5. CASE Deactivate \/ Release
  <2>1. SlotDeactivated /\ UNCHANGED <<reserved, owner, cb, abandoned, overtaken>>
    BY <1>5 DEF Deactivate, Release, SlotDeactivated, history
  <2>2. app'.step \in {"release", "drain"} BY <1>0, <1>5 DEF Deactivate, Release, AppState
  <2> QED BY <2>1, <2>2, DeactivateEffect, HandshakeKept DEF RegistryInv
<1>6. CASE Spin BY <1>6, HandshakeSpin
<1>7. CASE Free BY <1>7, HandshakeFree
<1>8. ASSUME NEW c \in Callbacks, Receive(c) PROVE Handshake' BY <1>8, HandshakeReceive
<1>9. ASSUME NEW c \in Callbacks, NEW q \in Queues, Dispatch(c, q) PROVE Handshake'
  <2>1. /\ cb[c].step = "idle" /\ UNCHANGED <<record, reserved, owner, app, abandoned, overtaken>>
    BY <1>9 DEF Dispatch, registry, NoCallback, history
  <2>2. cb \in [Callbacks -> Callback] BY DEF RegistryInv, TypeOK, Callback
  <2>3. cb'[c].step = "enter" /\ \A d \in Callbacks : d # c => cb'[d] = cb[d]
    BY <1>9, <2>2 DEF Dispatch
  <2>4. \A d \in Callbacks : d # c => (Counted(d)' <=> Counted(d)) BY <2>3 DEF Counted
  <2>5. ~Counted(c) /\ ~Counted(c)' BY <2>1, <2>3 DEF Counted
  <2>6. \A s, i : ClaimsAt(s, i)' = ClaimsAt(s, i) BY <2>1, <2>3, <2>4, <2>5 DEF ClaimsAt
  <2>7. CountsRight' BY <2>1, <2>6 DEF Handshake, CountsRight, Current, At
  <2>8. ClaimsCurrent' BY <2>1, <2>3 DEF Handshake, ClaimsCurrent, Current, At
  <2>9. CopiersPlaced' BY <2>1, <2>3 DEF Handshake, CopiersPlaced, At, Removed
  <2> QED BY <2>7, <2>8, <2>9 DEF Handshake
<1>10. CASE UNCHANGED vars
  <2>1. UNCHANGED <<record, reserved, owner, cb, app, abandoned, overtaken>> BY <1>10 DEF vars, history
  <2>2. CountsRight' BY <2>1 DEF Handshake, CountsRight, Current, At, ClaimsAt, Counted
  <2>3. ClaimsCurrent' BY <2>1 DEF Handshake, ClaimsCurrent, Current, At
  <2>4. CopiersPlaced' BY <2>1 DEF Handshake, CopiersPlaced, At, Removed
  <2> QED BY <2>2, <2>3, <2>4 DEF Handshake
<1> QED BY <1>1, <1>2, <1>3, <1>4, <1>5, <1>6, <1>7, <1>8, <1>9, <1>10 DEF Next, Remove

(* A callback that passed both checks of zenoh_pico_callback_claim copies  *)
(* into an allocated queue, whatever the undeclare promises, however slots *)
(* and memory are reused and however few loads the drain makes, unless the *)
(* drain gave up on that very queue or its slot was reserved over a claim  *)
(* still counted: the two ways the handshake can be broken are the only    *)
(* ones, for any number of sessions, slots and callbacks.                  *)
THEOREM CopyExplainedHolds == Spec => []CopyExplained
<1>1. RegistryInv /\ Handshake => CopyExplained
  <2> SUFFICES ASSUME RegistryInv, Handshake, NEW c \in Callbacks, cb[c].step = "copy",
                      NEW q, q = cb[c].queue, q \notin overtaken \cup abandoned
               PROVE  q \in live
    BY DEF CopyExplained
  <2>1. q \in Queues /\ q # Null BY DEF RegistryInv, Contexts, Queues, Null
  <2>2. At(q).queue = q BY DEF Handshake, CopiersPlaced
  <2>3. owner[q].session \in Sessions /\ owner[q].slot \in Slots
    BY <2>1, OwnerType DEF RegistryInv
  <2> QED BY <2>1, <2>2, <2>3 DEF RegistryInv, Placed, At
<1> QED BY RegistryInvariant, HandshakeInit, HandshakeStep, <1>1, PTL DEF Spec
================================================================================
