----------------------------- MODULE ZenohCarrierProofs ----------------------------
(***************************************************************************)
(* Proofs about ZenohCarrier, for every number of slots, keys,             *)
(* declarations and samples: the table and the facade agree, a polled      *)
(* frame is never lost, and the round-robin poll starves no subscription.  *)
(***************************************************************************)
EXTENDS ZenohCarrier, ModularArithmetic, SequenceTheorems, FunctionTheorems, FiniteSetTheorems,
        WellFoundedInduction, TLAPS

(* Each declaration is in one slot, and each key in at most one.           *)
TableInv ==
  /\ declared \subseteq 1..declares
  /\ \A i \in Occupied : slot[i].handle \in declared
  /\ \A h \in declared : \E i \in Occupied : slot[i].handle = h
  /\ \A i, j \in Occupied : slot[i].handle = slot[j].handle \/ slot[i].key = slot[j].key => i = j
  /\ gauge = Cardinality(Occupied)

(* What waits in the facade: samples of that declaration, in the order     *)
(* they arrived.                                                           *)
Queued ==
  /\ \A h \in Handles \ declared : inbox[h] = <<>>
  /\ \A h \in Handles : \A i \in DOMAIN inbox[h] :
       /\ inbox[h][i] \in 1..arrived /\ source[inbox[h][i]] = h
       /\ \A j \in DOMAIN inbox[h] : i < j => inbox[h][i] < inbox[h][j]

(* What was taken is older than what waits for the same declaration, the   *)
(* retained frame is younger than what was delivered, and a scan starts    *)
(* without one.                                                            *)
Polled ==
  /\ app.step = "scan" => pending = None
  /\ taken \subseteq 1..arrived
  /\ \A f \in taken : \A h \in Handles : \A i \in DOMAIN inbox[h] :
       source[f] = h => f < inbox[h][i]
  /\ \A i \in DOMAIN delivered :
       /\ delivered[i] # pending
       /\ pending # None /\ source[delivered[i]] = source[pending] => delivered[i] < pending
  /\ PolledNeverLost

(* The number of steps until the poll visits slot i.                       *)
Ahead(i) == IF i > cursor THEN i - cursor ELSE i - cursor + Size

(* A declaration served while another one waits is visited after it.       *)
RoundRobin ==
  /\ ~starved
  /\ \A g \in Handles : owed[g] \subseteq declared
  /\ \A g \in Handles : inbox[g] = <<>> => owed[g] = {}
  /\ \A i, j \in Occupied : slot[j].handle \in owed[slot[i].handle] => Ahead(i) < Ahead(j)

PollInv == TypeOK /\ TableInv /\ Queued /\ Polled /\ RoundRobin

-------------------------------------------------------------------------------
(* The operators of the model.                                             *)

\* The first free slot is a free slot.
LEMMA LowestIn ==
  ASSUME NEW S, S \subseteq Nat, S # {}
  PROVE  Lowest(S) \in S
<1> DEFINE R == {ss \in Nat \X Nat : ss[1] < ss[2]}
<1>1. IsWellFoundedOn(R, Nat) BY NatLessThanWellFounded DEF OpToRel
<1> HIDE DEF R
<1>2. PICK x \in S : \A y \in S : ~ (<<y, x>> \in R) BY <1>1, WFMin
<1>3. \A y \in S : ~(y < x) BY <1>2 DEF R
<1>4. \E i \in S : \A j \in S : i <= j BY <1>3
<1> QED BY <1>4 DEF Lowest

\* The poll goes to the next slot, and from the last one to the first.
LEMMA CursorNext ==
  ASSUME cursor \in Index
  PROVE  /\ NextCursor \in Index
         /\ NextCursor = IF cursor + 1 = Size THEN 0 ELSE cursor + 1
<1>1. Size \in Nat \ {0} /\ cursor \in Int BY ZenohCarrierAssumption DEF Index
<1>2. CASE cursor + 1 = Size
  <2>1. (Size * 1 + 0) % Size = 0 BY <1>1, ModChar
  <2>2. Size % Size = 0 BY <1>1, <2>1
  <2> QED BY <1>1, <1>2, <2>2 DEF NextCursor, Index
<1>3. CASE cursor + 1 # Size
  <2>1. cursor + 1 \in 0 .. (Size - 1) BY <1>1, <1>3 DEF Index
  <2> QED BY <1>1, <1>3, <2>1, ModSmall DEF NextCursor, Index
<1> QED BY <1>2, <1>3

\* One step brings every slot but the visited one nearer, and the visited one
\* to the end of the round.
LEMMA AheadNext ==
  ASSUME cursor \in Index, cursor' = NextCursor, NEW i \in Index
  PROVE  /\ Ahead(i) \in 1..Size /\ Ahead(i)' \in 1..Size
         /\ i = NextCursor => Ahead(i) = 1 /\ Ahead(i)' = Size
         /\ i # NextCursor => Ahead(i)' = Ahead(i) - 1
BY CursorNext, ZenohCarrierAssumption DEF Ahead, Index

LEMMA VisitedSlot ==
  ASSUME TypeOK
  PROVE  /\ NextCursor \in Index /\ Visited = slot[NextCursor].handle
         /\ Visited # None => NextCursor \in Occupied /\ Visited \in Handles
<1>1. NextCursor \in Index BY CursorNext DEF TypeOK
<1>2. Visited = slot[NextCursor].handle BY <1>1 DEF Visited, SlotAt
<1>3. slot[NextCursor].handle \in Handles \cup {None} BY <1>1 DEF TypeOK
<1> QED BY <1>1, <1>2, <1>3 DEF Occupied

\* A slot is written.
LEMMA SlotWritten ==
  ASSUME TypeOK, NEW i \in Index, NEW h \in Handles \cup {None}, NEW k \in Keys \cup {"none"},
         slot' = [slot EXCEPT ![i] = [handle |-> h, key |-> k]]
  PROVE  /\ slot' \in [Index -> [handle : Handles \cup {None}, key : Keys \cup {"none"}]]
         /\ slot'[i].handle = h /\ slot'[i].key = k
         /\ \A j \in Index : j # i => slot'[j] = slot[j]
         /\ Occupied' = IF h = None THEN Occupied \ {i} ELSE Occupied \cup {i}
<1>1. PICK r \in [handle : Handles \cup {None}, key : Keys \cup {"none"}] :
        r = [handle |-> h, key |-> k]
  OBVIOUS
<1>2. slot \in [Index -> [handle : Handles \cup {None}, key : Keys \cup {"none"}]] BY DEF TypeOK
<1>3. /\ slot' \in [Index -> [handle : Handles \cup {None}, key : Keys \cup {"none"}]]
      /\ slot'[i] = r
      /\ \A j \in Index : j # i => slot'[j] = slot[j]
  BY <1>1, <1>2
<1>4. r.handle = h /\ r.key = k BY <1>1
<1>5. Occupied' = IF h = None THEN Occupied \ {i} ELSE Occupied \cup {i}
  BY <1>3, <1>4 DEF Occupied
<1> QED BY <1>3, <1>4, <1>5

LEMMA OccupiedFinite ==
  /\ IsFiniteSet(Occupied) /\ Cardinality(Occupied) \in 0..Size
  /\ \A i \in Index \ Occupied : Cardinality(Occupied \cup {i}) = Cardinality(Occupied) + 1
  /\ \A i \in Occupied : Cardinality(Occupied \ {i}) = Cardinality(Occupied) - 1
<1>1. Size \in Nat \ {0} BY ZenohCarrierAssumption
<1>2. IsFiniteSet(Index) /\ Cardinality(Index) = Size
  BY <1>1, FS_Interval DEF Index
<1>3. Occupied \subseteq Index BY DEF Occupied
<1>4. IsFiniteSet(Occupied) /\ Cardinality(Occupied) <= Size BY <1>2, <1>3, FS_Subset
<1>5. Cardinality(Occupied) \in Nat BY <1>4, FS_CardinalityType
<1>6. \A i \in Index \ Occupied : Cardinality(Occupied \cup {i}) = Cardinality(Occupied) + 1
  BY <1>4, FS_AddElement
<1>7. \A i \in Occupied : Cardinality(Occupied \ {i}) = Cardinality(Occupied) - 1
  BY <1>4, FS_RemoveElement
<1> QED BY <1>1, <1>4, <1>5, <1>6, <1>7

-------------------------------------------------------------------------------
(* Subscribing and unsubscribing.                                          *)

LEMMA SubscribeEffect ==
  ASSUME TypeOK, NEW k \in Keys, Subscribe(k)
  PROVE  \E i \in Index \ Occupied :
           /\ declares + 1 \in Handles
           /\ slot' = [slot EXCEPT ![i] = [handle |-> declares + 1, key |-> k]]
<1>1. Index \ Occupied # {} /\ Index \subseteq Nat
  BY ZenohCarrierAssumption DEF Subscribe, Index, Occupied
<1>2. Lowest(Index \ Occupied) \in Index \ Occupied BY <1>1, LowestIn
<1>3. declares + 1 \in Handles BY ZenohCarrierAssumption DEF Subscribe, Handles, TypeOK
<1> QED BY <1>2, <1>3 DEF Subscribe

LEMMA TableAfterSubscribe ==
  ASSUME TypeOK, TableInv, NEW k \in Keys, Subscribe(k)
  PROVE  TableInv'
<1>1. PICK i \in Index \ Occupied :
        /\ declares + 1 \in Handles
        /\ slot' = [slot EXCEPT ![i] = [handle |-> declares + 1, key |-> k]]
  BY SubscribeEffect
<1> DEFINE h == declares + 1
<1>2. /\ slot'[i].handle = h /\ slot'[i].key = k /\ h # None
      /\ \A j \in Index : j # i => slot'[j] = slot[j]
      /\ Occupied' = Occupied \cup {i}
  <2>1. h \in Handles /\ h # None BY <1>1 DEF Handles, None
  <2> HIDE DEF h
  <2>2. slot' = [slot EXCEPT ![i] = [handle |-> h, key |-> k]] BY <1>1 DEF h
  <2> QED BY <1>1, <2>1, <2>2, SlotWritten
<1>3. /\ declares' = h /\ declared' = declared \cup {h} /\ gauge' = Cardinality(Occupied) + 1
      /\ ~HasKey(k) /\ declares \in Nat /\ h \notin declared
  BY DEF Subscribe, Wanted, TypeOK, TableInv
<1>4. \A j \in Occupied : j \in Index /\ j # i /\ slot'[j] = slot[j] /\ slot[j].key # k
                          /\ slot[j].handle # h
  BY <1>2, <1>3 DEF Occupied, HasKey, TableInv
<1>5. gauge' = Cardinality(Occupied') BY <1>1, <1>2, <1>3, OccupiedFinite
<1>6. declared' \subseteq 1..declares'
  <2>1. \A g \in declared : g \in 1..h BY <1>3 DEF TableInv
  <2> QED BY <1>3, <2>1
<1> HIDE DEF h
<1>7. \A j \in Occupied' : slot'[j].handle \in declared' BY <1>2, <1>3, <1>4 DEF TableInv
<1>8. \A g \in declared' : \E j \in Occupied' : slot'[j].handle = g
  BY <1>2, <1>3, <1>4 DEF TableInv
<1>9. \A j, l \in Occupied' :
        slot'[j].handle = slot'[l].handle \/ slot'[j].key = slot'[l].key => j = l
  BY <1>2, <1>4 DEF TableInv
<1> QED BY <1>5, <1>6, <1>7, <1>8, <1>9 DEF TableInv

LEMMA UnsubscribeEffect ==
  ASSUME TypeOK, NEW k \in Keys, Unsubscribe(k)
  PROVE  \E i \in Occupied :
           /\ slot[i].handle \in Handles /\ Drop({slot[i].handle})
           /\ Occupied' = Occupied \ {i} /\ \A j \in Index : j # i => slot'[j] = slot[j]
           /\ slot' \in [Index -> [handle : Handles \cup {None}, key : Keys \cup {"none"}]]
<1>1. PICK i \in Occupied : Drop({slot[i].handle}) /\ slot' = [slot EXCEPT ![i] = FreeSlot]
  BY DEF Unsubscribe
<1>2. i \in Index /\ slot[i].handle \in Handles BY DEF Occupied, TypeOK
<1>3. /\ Occupied' = Occupied \ {i} /\ \A j \in Index : j # i => slot'[j] = slot[j]
      /\ slot' \in [Index -> [handle : Handles \cup {None}, key : Keys \cup {"none"}]]
  BY <1>1, <1>2, SlotWritten DEF FreeSlot
<1> QED BY <1>1, <1>2, <1>3

LEMMA TableAfterUnsubscribe ==
  ASSUME TypeOK, TableInv, NEW k \in Keys, Unsubscribe(k)
  PROVE  TableInv'
<1>1. PICK i \in Occupied :
        /\ Drop({slot[i].handle}) /\ Occupied' = Occupied \ {i}
        /\ \A j \in Index : j # i => slot'[j] = slot[j]
  BY UnsubscribeEffect
<1>2. /\ declares' = declares /\ declared' = declared \ {slot[i].handle}
      /\ gauge' = Cardinality(Occupied')
  BY <1>1, OccupiedFinite DEF Unsubscribe, Drop
<1>3. \A j \in Occupied' : j \in Occupied /\ j # i /\ slot'[j] = slot[j] BY <1>1 DEF Occupied
<1>4. \A j \in Occupied' : slot'[j].handle \in declared' BY <1>2, <1>3 DEF TableInv
<1>5. \A g \in declared' : \E j \in Occupied' : slot'[j].handle = g
  BY <1>1, <1>2, <1>3 DEF TableInv
<1>6. \A j, l \in Occupied' :
        slot'[j].handle = slot'[l].handle \/ slot'[j].key = slot'[l].key => j = l
  BY <1>3 DEF TableInv
<1>7. declared' \subseteq 1..declares' BY <1>2 DEF TableInv
<1> QED BY <1>2, <1>4, <1>5, <1>6, <1>7 DEF TableInv

(* Every step keeps the table: the others leave it alone or empty it.      *)
Untouched == Connect \/ Poll \/ WaitStart \/ Wait \/ (\E h \in Handles : Arrive(h)) \/ RouterLost \/ RouterBack

LEMMA TableUntouched ==
  ASSUME Untouched
  PROVE  /\ slot' = slot /\ declares' = declares /\ declared' = declared
         /\ gauge' = gauge \/ gauge' = Cardinality(Occupied)
BY DEF Untouched, Connect, Poll, Scan, PollPending, PollStart, ScanFrame, ScanFull, ScanOn, ScanEnd, WaitStart,
   Wait, ObserveRouter, ObserveNone, WaitTimeout, Arrive, RouterLost, RouterBack, table, facade

LEMMA TableStep ==
  ASSUME TypeOK, TableInv, Next
  PROVE  TableInv'
<1>1. CASE Untouched
  <2>1. Occupied' = Occupied BY <1>1, TableUntouched DEF Occupied
  <2>2. gauge' = Cardinality(Occupied') BY <1>1, <2>1, TableUntouched DEF TableInv
  <2>3. slot' = slot /\ declares' = declares /\ declared' = declared BY <1>1, TableUntouched
  <2> QED BY <2>1, <2>2, <2>3 DEF TableInv
<1>2. CASE Disconnect
  <2>1. Occupied' = {} /\ declared' = {} /\ gauge' = 0
    BY <1>2 DEF Disconnect, Drop, Occupied, FreeSlot
  <2> QED BY <2>1, FS_EmptySet DEF TableInv
<1>3. ASSUME NEW k \in Keys, Subscribe(k) PROVE TableInv' BY <1>3, TableAfterSubscribe
<1>4. ASSUME NEW k \in Keys, Unsubscribe(k) PROVE TableInv' BY <1>4, TableAfterUnsubscribe
<1> QED BY <1>1, <1>2, <1>3, <1>4 DEF Next, Untouched

-------------------------------------------------------------------------------
(* The facade's queues.                                                    *)

\* A frame is taken from the queue of one declaration.
LEMMA TakeEffect ==
  ASSUME TypeOK, NEW h \in Handles, inbox[h] # <<>>, inbox' = [inbox EXCEPT ![h] = Tail(@)]
  PROVE  /\ Head(inbox[h]) \in Frames /\ Head(inbox[h]) = inbox[h][1] /\ 1 \in DOMAIN inbox[h]
         /\ inbox' \in [Handles -> Seq(Frames)]
         /\ \A g \in Handles : g # h => inbox'[g] = inbox[g]
         /\ \A i \in DOMAIN inbox'[h] :
              i \in Nat \ {0} /\ i + 1 \in DOMAIN inbox[h] /\ inbox'[h][i] = inbox[h][i + 1]
<1>1. PICK q \in Seq(Frames) : q = inbox[h] /\ q # <<>> BY DEF TypeOK
<1>2. /\ Tail(q) \in Seq(Frames) /\ Len(Tail(q)) = Len(q) - 1 /\ Head(q) \in Frames
      /\ \A i \in 1 .. (Len(q) - 1) : Tail(q)[i] = q[i + 1]
      /\ Head(q) = q[1]
  BY <1>1, HeadTailProperties
<1>3. /\ Len(q) \in Nat /\ DOMAIN q = 1 .. Len(q) /\ DOMAIN Tail(q) = 1 .. (Len(q) - 1)
      /\ Len(q) # 0
  BY <1>1, <1>2, LenProperties, EmptySeq
<1>4. inbox \in [Handles -> Seq(Frames)] BY DEF TypeOK
<1>5. inbox'[h] = Tail(q) /\ \A g \in Handles : g # h => inbox'[g] = inbox[g] BY <1>1, <1>4
<1>6. inbox' \in [Handles -> Seq(Frames)] BY <1>1, <1>2, <1>4
<1>7. \A i \in 1 .. (Len(q) - 1) : i \in Nat \ {0} /\ i + 1 \in 1 .. Len(q) BY <1>3
<1> QED BY <1>1, <1>2, <1>3, <1>5, <1>6, <1>7

\* A sample is put into the queue of one declaration.
LEMMA PutEffect ==
  ASSUME TypeOK, NEW h \in Handles, NEW f \in Frames, inbox' = [inbox EXCEPT ![h] = Append(@, f)]
  PROVE  /\ inbox' \in [Handles -> Seq(Frames)] /\ inbox'[h] # <<>>
         /\ \A g \in Handles : g # h => inbox'[g] = inbox[g]
         /\ \E n \in Nat : /\ DOMAIN inbox[h] = 1 .. n /\ DOMAIN inbox'[h] = 1 .. (n + 1)
                           /\ inbox'[h][n + 1] = f
                           /\ \A i \in 1 .. n : inbox'[h][i] = inbox[h][i]
<1>1. PICK q \in Seq(Frames) : q = inbox[h] BY DEF TypeOK
<1>2. /\ Append(q, f) \in Seq(Frames) /\ Append(q, f) # <<>> /\ Len(Append(q, f)) = Len(q) + 1
      /\ \A i \in 1 .. Len(q) : Append(q, f)[i] = q[i]
      /\ Append(q, f)[Len(q) + 1] = f
  BY AppendProperties
<1>3. Len(q) \in Nat /\ DOMAIN q = 1 .. Len(q) /\ DOMAIN Append(q, f) = 1 .. (Len(q) + 1)
  BY <1>2, LenProperties
<1>4. inbox \in [Handles -> Seq(Frames)] BY DEF TypeOK
<1>5. inbox'[h] = Append(q, f) /\ \A g \in Handles : g # h => inbox'[g] = inbox[g] BY <1>1, <1>4
<1>6. inbox' \in [Handles -> Seq(Frames)] BY <1>1, <1>2, <1>4
<1> QED BY <1>1, <1>2, <1>3, <1>5, <1>6

\* What arrives is new, and its source is recorded; it is queued or only counted.
LEMMA ArriveEffect ==
  ASSUME TypeOK, NEW h \in Handles, Arrive(h)
  PROVE  /\ arrived' = arrived + 1 /\ arrived' \in Frames /\ h \in declared
         /\ source' \in [Frames -> Handles \cup {None}] /\ source'[arrived'] = h
         /\ \A f \in 1..arrived : f \in Frames /\ source'[f] = source[f]
         /\ inbox' = inbox \/ inbox' = [inbox EXCEPT ![h] = Append(@, arrived')]
<1>1. arrived' = arrived + 1 /\ arrived < MaxFrames /\ arrived \in Nat /\ h \in declared
  BY DEF Arrive, TypeOK
<1>2. arrived' \in Frames /\ \A f \in 1..arrived : f \in Frames /\ f # arrived'
  BY <1>1, ZenohCarrierAssumption DEF Frames
<1>3. source' = [source EXCEPT ![arrived'] = h] /\ source \in [Frames -> Handles \cup {None}]
  BY DEF Arrive, TypeOK
<1>4. inbox' = inbox \/ inbox' = [inbox EXCEPT ![h] = Append(@, arrived')] BY DEF Arrive
<1> QED BY <1>1, <1>2, <1>3, <1>4

LEMMA ArrivePut ==
  ASSUME TypeOK, NEW h \in Handles, arrived' \in Frames,
         inbox' = [inbox EXCEPT ![h] = Append(@, arrived')]
  PROVE  /\ inbox' \in [Handles -> Seq(Frames)] /\ inbox'[h] # <<>>
         /\ \A g \in Handles : g # h => inbox'[g] = inbox[g]
         /\ \E n \in Nat : /\ DOMAIN inbox[h] = 1 .. n /\ DOMAIN inbox'[h] = 1 .. (n + 1)
                           /\ inbox'[h][n + 1] = arrived'
                           /\ \A i \in 1 .. n : inbox'[h][i] = inbox[h][i]
<1>1. PICK f \in Frames : f = arrived' OBVIOUS
<1>2. inbox' = [inbox EXCEPT ![h] = Append(@, f)] BY <1>1
<1> QED BY <1>1, <1>2, PutEffect

\* What the facade forgets.
LEMMA DropEffect ==
  ASSUME TypeOK, NEW H, Drop(H)
  PROVE  /\ inbox' \in [Handles -> Seq(Frames)] /\ owed' \in [Handles -> SUBSET Handles]
         /\ \A h \in Handles : inbox'[h] = (IF h \in H THEN <<>> ELSE inbox[h])
         /\ \A h \in Handles : owed'[h] = (IF h \in H THEN {} ELSE owed[h] \ H)
         /\ declared' = declared \ H /\ full' = full \ H /\ big' = big \ H
<1>1. <<>> \in Seq(Frames) BY EmptySeq
<1> QED BY <1>1 DEF Drop, TypeOK

(* The steps that neither take, put nor drop a frame.                      *)
Idle ==
  \/ Connect \/ WaitStart \/ Wait \/ RouterLost \/ RouterBack
  \/ ScanFull \/ ScanOn \/ ScanEnd \/ \E fits \in BOOLEAN : PollPending(fits) \/ PollStart(fits)

LEMMA IdleEffect ==
  ASSUME Idle
  PROVE  inbox' = inbox /\ arrived' = arrived /\ source' = source /\ declared' = declared
BY DEF Idle, Connect, PollPending, PollStart, ScanFull, ScanOn, ScanEnd, WaitStart,
   Wait, ObserveRouter, ObserveNone, WaitTimeout, RouterLost, RouterBack, facade

LEMMA QueuedStep ==
  ASSUME TypeOK, Queued, Next
  PROVE  Queued'
<1>1. CASE Idle BY <1>1, IdleEffect DEF Queued
<1>2. CASE ScanFrame
  <2>1. /\ Visited \in Handles /\ inbox[Visited] # <<>> /\ arrived' = arrived /\ source' = source
        /\ declared' = declared /\ inbox' = [inbox EXCEPT ![Visited] = Tail(@)]
    BY <1>2, VisitedSlot DEF ScanFrame
  <2>2. PICK h \in Handles : h = Visited BY <2>1
  <2>3. /\ \A g \in Handles : g # h => inbox'[g] = inbox[g]
        /\ \A i \in DOMAIN inbox'[h] :
             i \in Nat \ {0} /\ i + 1 \in DOMAIN inbox[h] /\ inbox'[h][i] = inbox[h][i + 1]
    BY <2>1, <2>2, TakeEffect
  <2>4. h \in declared BY <2>1, <2>2 DEF Queued
  <2>5. ASSUME NEW i \in DOMAIN inbox'[h]
        PROVE  /\ inbox'[h][i] \in 1..arrived /\ source[inbox'[h][i]] = h
               /\ \A j \in DOMAIN inbox'[h] : i < j => inbox'[h][i] < inbox'[h][j]
    BY <2>3 DEF Queued
  <2>6. \A g \in Handles \ declared : inbox'[g] = <<>> BY <2>3, <2>4 DEF Queued
  <2>7. ASSUME NEW g \in Handles, NEW i \in DOMAIN inbox'[g]
        PROVE  /\ inbox'[g][i] \in 1..arrived /\ source[inbox'[g][i]] = g
               /\ \A j \in DOMAIN inbox'[g] : i < j => inbox'[g][i] < inbox'[g][j]
    BY <2>3, <2>5 DEF Queued
  <2> QED BY <2>1, <2>6, <2>7 DEF Queued
<1>3. ASSUME NEW h \in Handles, Arrive(h) PROVE Queued'
  <2>1. /\ arrived' = arrived + 1 /\ arrived' \in Frames /\ h \in declared
        /\ source'[arrived'] = h
        /\ \A f \in 1..arrived : f \in Frames /\ source'[f] = source[f]
        /\ inbox' = inbox \/ inbox' = [inbox EXCEPT ![h] = Append(@, arrived')]
    BY <1>3, ArriveEffect
  <2>2. arrived \in Nat /\ declared' = declared BY <1>3 DEF Arrive, TypeOK
  <2>3. \A g \in Handles : \A i \in DOMAIN inbox[g] :
          inbox[g][i] \in 1..arrived' /\ source'[inbox[g][i]] = g
    BY <2>1, <2>2 DEF Queued
  <2>4. CASE inbox' = inbox BY <2>2, <2>3, <2>4 DEF Queued
  <2>5. CASE inbox' = [inbox EXCEPT ![h] = Append(@, arrived')]
    <3>1. /\ \A g \in Handles : g # h => inbox'[g] = inbox[g]
          /\ \E n \in Nat : /\ DOMAIN inbox[h] = 1 .. n /\ DOMAIN inbox'[h] = 1 .. (n + 1)
                            /\ inbox'[h][n + 1] = arrived'
                            /\ \A i \in 1 .. n : inbox'[h][i] = inbox[h][i]
      BY <2>1, <2>5, ArrivePut
    <3>2. PICK n \in Nat : /\ DOMAIN inbox[h] = 1 .. n /\ DOMAIN inbox'[h] = 1 .. (n + 1)
                           /\ inbox'[h][n + 1] = arrived'
                           /\ \A i \in 1 .. n : inbox'[h][i] = inbox[h][i]
      BY <3>1
    <3>3. ASSUME NEW i \in DOMAIN inbox'[h]
          PROVE  inbox'[h][i] \in 1..arrived' /\ source'[inbox'[h][i]] = h
      <4>1. CASE i = n + 1 BY <2>1, <2>2, <3>2, <4>1
      <4>2. CASE i \in 1 .. n BY <2>3, <3>2, <4>2
      <4> QED BY <3>2, <4>1, <4>2
    <3>4. ASSUME NEW i \in DOMAIN inbox'[h], NEW j \in DOMAIN inbox'[h], i < j
          PROVE  inbox'[h][i] < inbox'[h][j]
      <4>1. i \in 1 .. n /\ inbox'[h][i] = inbox[h][i] /\ inbox[h][i] \in 1 .. arrived
        BY <3>2, <3>4 DEF Queued
      <4>2. CASE j = n + 1 BY <2>1, <2>2, <3>2, <4>1, <4>2
      <4>3. CASE j \in 1 .. n BY <3>2, <3>4, <4>1, <4>3 DEF Queued
      <4> QED BY <3>2, <4>2, <4>3
    <3>5. \A g \in Handles \ declared : inbox'[g] = <<>> BY <2>1, <3>1 DEF Queued
    <3>6. ASSUME NEW g \in Handles, NEW i \in DOMAIN inbox'[g]
          PROVE  /\ inbox'[g][i] \in 1..arrived' /\ source'[inbox'[g][i]] = g
                 /\ \A j \in DOMAIN inbox'[g] : i < j => inbox'[g][i] < inbox'[g][j]
      <4>1. CASE g = h BY <3>3, <3>4, <4>1
      <4>2. CASE g # h BY <2>3, <3>1, <4>2 DEF Queued
      <4> QED BY <4>1, <4>2
    <3> QED BY <2>2, <3>5, <3>6 DEF Queued
  <2> QED BY <2>1, <2>4, <2>5
<1>4. ASSUME NEW H, Drop(H), arrived' = arrived, source' = source PROVE Queued'
  <2>1. /\ \A h \in Handles : inbox'[h] = (IF h \in H THEN <<>> ELSE inbox[h])
        /\ declared' = declared \ H
    BY <1>4, DropEffect
  <2>2. \A h \in Handles \ declared' : inbox'[h] = <<>> BY <2>1 DEF Queued
  <2>3. ASSUME NEW h \in Handles, NEW i \in DOMAIN inbox'[h] PROVE inbox'[h] = inbox[h]
    BY <2>1
  <2> QED BY <1>4, <2>2, <2>3 DEF Queued
<1>5. CASE Disconnect BY <1>4, <1>5 DEF Disconnect
<1>6. ASSUME NEW k \in Keys, Subscribe(k) PROVE Queued'
  BY <1>6 DEF Subscribe, Queued
<1>7. ASSUME NEW k \in Keys, Unsubscribe(k) PROVE Queued' BY <1>4, <1>7 DEF Unsubscribe
<1> QED BY <1>1, <1>2, <1>3, <1>5, <1>6, <1>7 DEF Next, Idle, Poll, Scan

-------------------------------------------------------------------------------
(* What was polled.                                                        *)

Order(d, src) ==
  \A i, j \in DOMAIN d :
    i < j => /\ d[i] # d[j]
             /\ src[d[i]] = src[d[j]] => d[i] < d[j]
Elements(d) == {d[i] : i \in DOMAIN d}

\* A frame younger than its declaration's delivered ones is delivered last.
LEMMA DeliverEffect ==
  ASSUME NEW src, NEW f \in Frames, delivered \in Seq(Frames), Order(delivered, src),
         \A i \in DOMAIN delivered :
           delivered[i] # f /\ (src[delivered[i]] = src[f] => delivered[i] < f)
  PROVE  /\ Append(delivered, f) \in Seq(Frames)
         /\ Order(Append(delivered, f), src)
         /\ Elements(Append(delivered, f)) = Elements(delivered) \cup {f}
<1>1. PICK d : d = Append(delivered, f) OBVIOUS
<1>2. /\ d \in Seq(Frames) /\ Len(d) = Len(delivered) + 1
      /\ \A i \in 1 .. Len(delivered) : d[i] = delivered[i]
      /\ d[Len(delivered) + 1] = f
  BY <1>1, AppendProperties
<1>3. PICK n \in Nat : n = Len(delivered) /\ DOMAIN delivered = 1 .. n BY LenProperties
<1>4. DOMAIN d = 1 .. (n + 1) /\ d[n + 1] = f /\ \A i \in 1 .. n : d[i] = delivered[i]
  BY <1>2, <1>3, LenProperties
<1>5. ASSUME NEW i \in DOMAIN d, NEW j \in DOMAIN d, i < j
      PROVE  d[i] # d[j] /\ (src[d[i]] = src[d[j]] => d[i] < d[j])
  <2>1. i \in 1 .. n /\ d[i] = delivered[i] BY <1>4, <1>5
  <2>2. CASE j = n + 1 BY <1>3, <1>4, <2>1, <2>2
  <2>3. CASE j \in 1 .. n BY <1>3, <1>4, <1>5, <2>1, <2>3 DEF Order
  <2> QED BY <1>4, <2>2, <2>3
<1>6. \A g \in Elements(d) : g \in Elements(delivered) \cup {f}
  <2>1. ASSUME NEW i \in DOMAIN d PROVE d[i] \in Elements(delivered) \cup {f}
    <3>1. CASE i = n + 1 BY <1>4, <3>1
    <3>2. CASE i \in 1 .. n BY <1>3, <1>4, <3>2 DEF Elements
    <3> QED BY <1>4, <3>1, <3>2
  <2> QED BY <2>1 DEF Elements
<1>7. \A g \in Elements(delivered) \cup {f} : g \in Elements(d)
  <2>1. f \in Elements(d) BY <1>4 DEF Elements
  <2>2. ASSUME NEW i \in DOMAIN delivered PROVE delivered[i] \in Elements(d)
    BY <1>3, <1>4 DEF Elements
  <2> QED BY <2>1, <2>2 DEF Elements
<1> QED BY <1>1, <1>2, <1>5, <1>6, <1>7 DEF Order

LEMMA PolledParts ==
  Polled <=> /\ app.step = "scan" => pending = None
             /\ taken \subseteq 1..arrived
             /\ \A f \in taken : \A h \in Handles : \A i \in DOMAIN inbox[h] :
                  source[f] = h => f < inbox[h][i]
             /\ \A i \in DOMAIN delivered :
                  /\ delivered[i] # pending
                  /\ pending # None /\ source[delivered[i]] = source[pending] => delivered[i] < pending
             /\ taken = Elements(delivered) \cup ({pending} \ {None})
             /\ Order(delivered, source)
BY DEF Polled, PolledNeverLost, Elements, Order

\* The caller gets frame f, or it stays retained.
LEMMA CopyEffect ==
  ASSUME NEW f \in Frames, NEW fits, Copy(f, fits)
  PROVE  \/ pending' = None /\ delivered' = Append(delivered, f)
         \/ pending' = f /\ delivered' = delivered
BY DEF Copy

(* A copy of a frame that is younger than all delivered ones of its        *)
(* declaration keeps the account.                                          *)
LEMMA PolledAfterCopy ==
  ASSUME TypeOK, NEW f \in Frames, NEW fits, Copy(f, fits), Order(delivered, source),
         \A i \in DOMAIN delivered :
           delivered[i] # f /\ (source[delivered[i]] = source[f] => delivered[i] < f),
         source' = source, taken' = Elements(delivered) \cup {f}
  PROVE  /\ Order(delivered, source)' /\ delivered' \in Seq(Frames)
         /\ taken' = Elements(delivered') \cup ({pending'} \ {None})
         /\ \A i \in DOMAIN delivered' :
              /\ delivered'[i] # pending'
              /\ pending' # None /\ source'[delivered'[i]] = source'[pending'] => delivered'[i] < pending'
<1>1. f # None /\ delivered \in Seq(Frames) BY DEF Frames, None, TypeOK
<1>2. CASE pending' = None /\ delivered' = Append(delivered, f)
  <2>1. /\ delivered' \in Seq(Frames) /\ Order(delivered', source)
        /\ Elements(delivered') = Elements(delivered) \cup {f}
    BY <1>1, <1>2, DeliverEffect
  <2>2. \A i \in DOMAIN delivered' : delivered'[i] # None
    <3>1. PICK d \in Seq(Frames) : d = delivered' BY <2>1
    <3>2. \A i \in DOMAIN d : d[i] \in Frames BY LenProperties, ElementOfSeq
    <3> QED BY <3>1, <3>2 DEF Frames, None
  <2>3. Order(delivered, source)' BY <2>1
  <2> QED BY <1>2, <2>1, <2>2, <2>3
<1>3. CASE pending' = f /\ delivered' = delivered
  <2>1. Order(delivered, source)' BY <1>3
  <2> QED BY <1>1, <1>3, <2>1
<1> QED BY <1>2, <1>3, CopyEffect

LEMMA PolledKept ==
  ASSUME Polled, UNCHANGED <<pending, taken, delivered, inbox, arrived, source>>,
         app'.step = "scan" => pending = None
  PROVE  Polled'
BY DEF Polled, PolledNeverLost

LEMMA PolledStep ==
  ASSUME TypeOK, TableInv, Queued, Polled, Next
  PROVE  Polled'
<1>0. (Polled <=> /\ app.step = "scan" => pending = None
                  /\ taken \subseteq 1..arrived
                  /\ \A f \in taken : \A h \in Handles : \A i \in DOMAIN inbox[h] :
                       source[f] = h => f < inbox[h][i]
                  /\ \A i \in DOMAIN delivered :
                       /\ delivered[i] # pending
                       /\ pending # None /\ source[delivered[i]] = source[pending]
                            => delivered[i] < pending
                  /\ taken = Elements(delivered) \cup ({pending} \ {None})
                  /\ Order(delivered, source))'
  BY PolledParts, PTL
<1>1. CASE Connect \/ WaitStart \/ Wait \/ RouterLost \/ RouterBack \/ \E k \in Keys : Subscribe(k)
  <2>1. UNCHANGED <<pending, taken, delivered, inbox, arrived, source>>
    BY <1>1 DEF Connect, WaitStart, Wait, ObserveRouter, ObserveNone, WaitTimeout,
      RouterLost, RouterBack, Subscribe, facade, service
  <2>2. app' = app \/ app' = AppIdle \/ app' = [AppIdle EXCEPT !.step = "wait"]
    BY <1>1 DEF Connect, WaitStart, Wait, ObserveRouter, ObserveNone, WaitTimeout, Return,
      RouterLost, RouterBack, Subscribe
  <2>3. app'.step = "scan" => app' = app BY <2>2 DEF AppIdle
  <2> QED BY <2>1, <2>3, PolledKept DEF Polled
<1>2. CASE ScanFull \/ ScanOn \/ ScanEnd \/ \E fits \in BOOLEAN : PollStart(fits)
  BY <1>2, PolledKept
  DEF ScanFull, ScanOn, ScanEnd, Scanning, PollStart, Return, AppIdle, facade, service, table, Polled
<1>3. ASSUME NEW fits \in BOOLEAN, PollPending(fits) PROVE Polled'
  <2>1. /\ app.step = "idle" /\ app' = app /\ pending \in Frames /\ Copy(pending, fits)
        /\ UNCHANGED <<inbox, arrived, source, taken>>
    BY <1>3 DEF PollPending, AppIdle, TypeOK, facade
  <2>2. PICK f \in Frames : f = pending BY <2>1
  <2>3. f # None BY DEF Frames, None
  <2>4. /\ Order(delivered, source) /\ taken' = Elements(delivered) \cup {f}
        /\ \A i \in DOMAIN delivered :
             delivered[i] # f /\ (source[delivered[i]] = source[f] => delivered[i] < f)
    BY <2>1, <2>2, <2>3, PolledParts
  <2>5. /\ Order(delivered, source)' /\ taken' = Elements(delivered') \cup ({pending'} \ {None})
        /\ \A i \in DOMAIN delivered' :
             /\ delivered'[i] # pending'
             /\ pending' # None /\ source'[delivered'[i]] = source'[pending'] => delivered'[i] < pending'
    BY <2>1, <2>2, <2>4, PolledAfterCopy
  <2>6. /\ app'.step # "scan" /\ taken' \subseteq 1..arrived'
        /\ \A g \in taken' : \A h \in Handles : \A i \in DOMAIN inbox'[h] :
             source'[g] = h => g < inbox'[h][i]
    BY <2>1 DEF Polled
  <2> QED BY <1>0, <2>5, <2>6
<1>4. CASE ScanFrame
  <2>1. /\ Visited \in Handles /\ inbox[Visited] # <<>> /\ UNCHANGED <<arrived, source>>
        /\ inbox' = [inbox EXCEPT ![Visited] = Tail(@)] /\ app.step = "scan" /\ app' = AppIdle
        /\ taken' = taken \cup {Head(inbox[Visited])} /\ Copy(Head(inbox[Visited]), app.fits)
    BY <1>4, VisitedSlot DEF ScanFrame, Scanning, Return
  <2>2. PICK h \in Handles : h = Visited BY <2>1
  <2>3. /\ Head(inbox[h]) \in Frames /\ Head(inbox[h]) = inbox[h][1] /\ 1 \in DOMAIN inbox[h]
        /\ \A g \in Handles : g # h => inbox'[g] = inbox[g]
        /\ \A i \in DOMAIN inbox'[h] :
             i \in Nat \ {0} /\ i + 1 \in DOMAIN inbox[h] /\ inbox'[h][i] = inbox[h][i + 1]
    BY <2>1, <2>2, TakeEffect
  <2>4. PICK f \in Frames : f = Head(inbox[h]) BY <2>3
  <2>5. f \in 1..arrived /\ source[f] = h BY <2>3, <2>4 DEF Queued
  <2>6. \A i \in DOMAIN inbox'[h] : f < inbox'[h][i] BY <2>3, <2>4 DEF Queued
  <2>7. \A g \in taken : source[g] = h => g < f BY <2>3, <2>4 DEF Polled
  <2>8. pending = None /\ taken = Elements(delivered) /\ Order(delivered, source)
    BY <2>1, PolledParts
  <2>9. \A i \in DOMAIN delivered :
          delivered[i] # f /\ (source[delivered[i]] = source[f] => delivered[i] < f)
    <3>1. ASSUME NEW i \in DOMAIN delivered
          PROVE  delivered[i] \in taken /\ delivered[i] \in Int /\ f \in Int
      <4>1. delivered[i] \in taken BY <2>8 DEF Elements
      <4> QED BY <4>1, ZenohCarrierAssumption DEF Polled, Frames, TypeOK
    <3> QED BY <2>5, <2>7, <3>1
  <2>10. taken' = Elements(delivered) \cup {f} /\ Copy(f, app.fits) BY <2>1, <2>2, <2>4, <2>8
  <2>11. /\ Order(delivered, source)' /\ taken' = Elements(delivered') \cup ({pending'} \ {None})
         /\ \A i \in DOMAIN delivered' :
              /\ delivered'[i] # pending'
              /\ pending' # None /\ source'[delivered'[i]] = source'[pending'] => delivered'[i] < pending'
    BY <2>1, <2>8, <2>9, <2>10, PolledAfterCopy
  <2>12. app'.step # "scan" BY <2>1 DEF AppIdle
  <2>13. taken' \subseteq 1..arrived' BY <2>1, <2>5, <2>8, <2>10 DEF Polled
  <2>14. ASSUME NEW g \in taken', NEW e \in Handles, NEW i \in DOMAIN inbox'[e], source'[g] = e
         PROVE  g < inbox'[e][i]
    <3>1. CASE e # h
      <4>1. g # f BY <2>1, <2>5, <2>14, <3>1
      <4> QED BY ZenonT(60), <2>1, <2>3, <2>8, <2>10, <2>14, <3>1, <4>1 DEF Polled
    <3>2. CASE e = h /\ g = f BY <2>6, <3>2
    <3>3. CASE e = h /\ g # f
      BY <2>1, <2>3, <2>8, <2>10, <2>14, <3>3 DEF Polled
    <3> QED BY <3>1, <3>2, <3>3
  <2> QED BY <1>0, <2>11, <2>12, <2>13, <2>14
<1>5. ASSUME NEW h \in Handles, Arrive(h) PROVE Polled'
  <2>1. /\ arrived' = arrived + 1 /\ arrived' \in Frames /\ source'[arrived'] = h
        /\ \A f \in 1..arrived : f \in Frames /\ source'[f] = source[f]
        /\ inbox' = inbox \/ inbox' = [inbox EXCEPT ![h] = Append(@, arrived')]
    BY <1>5, ArriveEffect
  <2>2. UNCHANGED <<app, pending, taken, delivered>> /\ arrived \in Nat
    BY <1>5 DEF Arrive, service, TypeOK
  <2>3. \A f \in taken : f \in 1..arrived /\ source'[f] = source[f] BY <2>1 DEF Polled
  <2>4. (\A i \in DOMAIN delivered : delivered[i] \in taken) /\ (pending # None => pending \in taken)
    BY PolledParts DEF Elements
  <2>5. ASSUME NEW f \in taken, NEW g \in Handles, NEW i \in DOMAIN inbox'[g], source'[f] = g
        PROVE  f < inbox'[g][i]
    <3>1. CASE inbox' = inbox BY <2>3, <2>5, <3>1 DEF Polled
    <3>2. CASE inbox' = [inbox EXCEPT ![h] = Append(@, arrived')]
      <4>3. PICK n \in Nat : /\ DOMAIN inbox[h] = 1 .. n /\ DOMAIN inbox'[h] = 1 .. (n + 1)
                             /\ inbox'[h][n + 1] = arrived'
                             /\ \A l \in 1 .. n : inbox'[h][l] = inbox[h][l]
        BY <2>1, <3>2, ArrivePut
      <4>4. \A e \in Handles : e # h => inbox'[e] = inbox[e] BY <2>1, <3>2, ArrivePut
      <4>5. CASE g # h BY <2>3, <2>5, <4>4, <4>5 DEF Polled
      <4>6. CASE g = h /\ i = n + 1 BY <2>1, <2>2, <2>3, <4>3, <4>6
      <4>7. CASE g = h /\ i \in 1 .. n BY <2>3, <2>5, <4>3, <4>7 DEF Polled
      <4> QED BY <4>3, <4>5, <4>6, <4>7
    <3> QED BY <2>1, <3>1, <3>2
  <2>6. Order(delivered, source') BY <2>3, <2>4, PolledParts DEF Order
  <2>7. taken' \subseteq 1..arrived' BY <2>1, <2>2, <2>3
  <2>8. \A i \in DOMAIN delivered :
          /\ delivered[i] # pending
          /\ pending # None /\ source'[delivered[i]] = source'[pending] => delivered[i] < pending
    BY <2>3, <2>4 DEF Polled
  <2>9. Order(delivered, source)' BY <2>2, <2>6
  <2>10. taken' = Elements(delivered') \cup ({pending'} \ {None}) BY <2>2, PolledParts
  <2>11. app'.step = "scan" => pending' = None BY <2>2 DEF Polled
  <2> QED BY <1>0, <2>2, <2>5, <2>7, <2>8, <2>9, <2>10, <2>11
<1>6. ASSUME NEW k \in Keys, Unsubscribe(k) PROVE Polled'
  <2>1. PICK h \in Handles : Drop({h}) BY <1>6, UnsubscribeEffect
  <2>2. UNCHANGED <<app, pending, taken, delivered, arrived, source>> BY <1>6 DEF Unsubscribe
  <2>3. \A g \in Handles : inbox'[g] = (IF g \in {h} THEN <<>> ELSE inbox[g]) BY <2>1, DropEffect
  <2>4. ASSUME NEW g \in Handles, NEW i \in DOMAIN inbox'[g] PROVE inbox'[g] = inbox[g] BY <2>3
  <2> QED BY <2>2, <2>4 DEF Polled, PolledNeverLost
<1>7. CASE Disconnect
  <2>1. taken' = {} /\ delivered' = <<>> /\ pending' = None BY <1>7 DEF Disconnect
  <2>2. DOMAIN delivered' = {} BY <2>1
  <2> QED BY <2>1, <2>2 DEF Polled, PolledNeverLost
<1> QED BY <1>1, <1>2, <1>3, <1>4, <1>5, <1>6, <1>7 DEF Next, Poll, Scan

-------------------------------------------------------------------------------
(* Round robin.                                                            *)

(* Declaration h, in the slot the poll visits, is served while others      *)
(* wait: none of them was passed over for h before, and h goes to the end. *)
LEMMA RoundRobinAfterServe ==
  ASSUME TypeOK, TableInv, Queued, RoundRobin, NEW rest, Visited # None, Serve(Visited, rest),
         UNCHANGED <<slot, declared>>, cursor' = NextCursor, inbox' = rest,
         \A g \in Handles : g # Visited => rest[g] = inbox[g]
  PROVE  RoundRobin'
<1>1. NextCursor \in Index /\ slot[NextCursor].handle = Visited /\ NextCursor \in Occupied
      /\ Visited \in Handles
  BY VisitedSlot
<1>2. PICK c \in Occupied : c = NextCursor /\ c \in Index /\ slot[c].handle = Visited
  BY <1>1
<1>3. PICK h \in Handles : h = Visited /\ h \in declared BY <1>1 DEF TableInv
<1> DEFINE W == {g \in Handles \ {h} : rest[g] # <<>>}
<1>4. /\ starved' = (starved \/ \E g \in W : h \in owed[g])
      /\ owed' = [g \in Handles |-> IF g \in W THEN owed[g] \cup {h} ELSE {}]
  BY <1>3 DEF Serve
<1>5. \A i \in Index : /\ Ahead(i) \in 1..Size /\ Ahead(i)' \in 1..Size
                       /\ i = c => Ahead(i) = 1 /\ Ahead(i)' = Size
                       /\ i # c => Ahead(i)' = Ahead(i) - 1
  BY <1>2, AheadNext DEF TypeOK
<1>6. \A g \in W : g \in declared /\ \E i \in Occupied : slot[i].handle = g /\ i # c
  <2>1. ASSUME NEW g \in W PROVE g \in declared BY <1>3 DEF Queued
  <2> QED BY <1>2, <1>3, <2>1 DEF TableInv
<1>7. \A g \in W : h \notin owed[g]
  <2>1. ASSUME NEW g \in W, h \in owed[g] PROVE FALSE
    <3>1. PICK i \in Occupied : slot[i].handle = g BY <1>6
    <3>2. Ahead(i) < Ahead(c) BY <1>2, <1>3, <2>1, <3>1 DEF RoundRobin
    <3>3. i \in Index BY DEF Occupied
    <3> QED BY <1>2, <1>5, <3>2, <3>3, ZenohCarrierAssumption
  <2> QED BY <2>1
<1>8. ~starved' BY <1>4, <1>7 DEF RoundRobin
<1>9. \A g \in Handles : owed'[g] = IF g \in W THEN owed[g] \cup {h} ELSE {} BY <1>4
<1>10. \A g \in Handles : owed'[g] \subseteq declared BY <1>3, <1>9 DEF RoundRobin
<1>11. \A g \in Handles : rest[g] = <<>> => owed'[g] = {} BY <1>9
<1>12. ASSUME NEW i \in Occupied, NEW j \in Occupied, slot[j].handle \in owed'[slot[i].handle]
       PROVE  Ahead(i)' < Ahead(j)'
  <2>1. i \in Index /\ j \in Index /\ slot[i].handle \in Handles BY DEF Occupied, TypeOK
  <2>2. slot[i].handle \in W /\ slot[j].handle \in owed[slot[i].handle] \cup {h}
    BY <1>9, <1>12, <2>1
  <2>3. i # c BY <1>2, <1>3, <2>2
  <2>4. Ahead(i)' = Ahead(i) - 1 /\ Ahead(i) \in 1..Size BY <1>5, <2>1, <2>3
  <2>5. CASE slot[j].handle = h
    <3>1. j = c BY <1>2, <1>3, <2>5 DEF TableInv
    <3>2. Ahead(j)' = Size BY <1>5, <2>1, <3>1
    <3> QED BY <2>4, <3>2, ZenohCarrierAssumption
  <2>6. CASE slot[j].handle # h
    <3>1. j # c BY <1>2, <1>3, <2>6
    <3>2. Ahead(j)' = Ahead(j) - 1 /\ Ahead(j) \in 1..Size BY <1>5, <2>1, <3>1
    <3>3. Ahead(i) < Ahead(j) BY <2>2, <2>6 DEF RoundRobin
    <3> QED BY <2>4, <3>2, <3>3, ZenohCarrierAssumption
  <2> QED BY <2>5, <2>6
<1>13. Occupied' = Occupied BY DEF Occupied
<1> QED BY <1>8, <1>10, <1>11, <1>12, <1>13 DEF RoundRobin

LEMMA RoundRobinKept ==
  ASSUME TypeOK, TableInv, RoundRobin, UNCHANGED <<starved, owed, cursor>>, declared \subseteq declared',
         \A i \in Occupied : i \in Occupied' /\ slot'[i] = slot[i],
         \A i \in Occupied' \ Occupied : slot'[i].handle \in Handles \ declared,
         \A g \in Handles : inbox'[g] = <<>> => inbox[g] = <<>>,
         \A g \in Handles \ declared : inbox[g] = <<>>
  PROVE  RoundRobin'
<1>1. \A i : Ahead(i)' = Ahead(i) BY DEF Ahead
<1>2. ~starved' BY DEF RoundRobin
<1>3. ASSUME NEW i \in Occupied', NEW j \in Occupied', slot'[j].handle \in owed'[slot'[i].handle]
      PROVE  Ahead(i) < Ahead(j)
  <2>1. i \in Occupied
    <3>1. ASSUME i \notin Occupied PROVE FALSE
      <4>1. slot'[i].handle \in Handles \ declared BY <3>1
      <4>2. owed[slot'[i].handle] = {} BY <4>1 DEF RoundRobin
      <4> QED BY <1>3, <4>2
    <3> QED BY <3>1
  <2>2. slot'[i] = slot[i] /\ slot[i].handle \in Handles BY <2>1 DEF Occupied, TypeOK
  <2>3. slot'[j].handle \in declared BY <1>3, <2>2 DEF RoundRobin
  <2>4. j \in Occupied /\ slot'[j] = slot[j] BY <2>3
  <2> QED BY <1>3, <2>1, <2>2, <2>4 DEF RoundRobin
<1> QED BY <1>1, <1>2, <1>3 DEF RoundRobin

LEMMA RoundRobinStep ==
  ASSUME TypeOK, TableInv, Queued, RoundRobin, Next
  PROVE  RoundRobin'
<1>0. ASSUME UNCHANGED <<starved, owed, cursor, declared, slot, inbox>> PROVE RoundRobin'
  BY <1>0, RoundRobinKept DEF Occupied, Queued
<1>1. CASE Connect \/ WaitStart \/ Wait \/ RouterLost \/ RouterBack \/ ScanEnd
           \/ \E fits \in BOOLEAN : PollPending(fits) \/ PollStart(fits)
  BY <1>0, <1>1
  DEF Connect, WaitStart, Wait, ObserveRouter, ObserveNone, WaitTimeout, RouterLost, RouterBack,
      ScanEnd, PollPending, PollStart, facade, service, table
<1>2. CASE ScanFrame
  <2>1. /\ Visited # None /\ Serve(Visited, inbox') /\ UNCHANGED <<slot, declared>>
        /\ cursor' = NextCursor /\ inbox' = [inbox EXCEPT ![Visited] = Tail(@)]
    BY <1>2 DEF ScanFrame, table
  <2>2. \A g \in Handles : g # Visited => inbox'[g] = inbox[g] BY <2>1 DEF TypeOK
  <2> QED BY <2>1, <2>2, RoundRobinAfterServe
<1>3. CASE ScanFull
  <2>1. /\ Visited # None /\ Serve(Visited, inbox) /\ UNCHANGED <<slot, declared, inbox>>
        /\ cursor' = NextCursor
    BY <1>3 DEF ScanFull, table
  <2> QED BY <2>1, RoundRobinAfterServe
<1>4. CASE ScanOn
  <2>1. /\ Visited # None => inbox[Visited] = <<>>
        /\ cursor' = NextCursor /\ UNCHANGED <<slot, declared, inbox, owed, starved>>
    BY <1>4 DEF ScanOn, table, service
  <2>2. NextCursor \in Index /\ slot[NextCursor].handle = Visited BY VisitedSlot
  <2>3. ASSUME NEW i \in Occupied, NEW j \in Occupied, slot[j].handle \in owed[slot[i].handle]
        PROVE  Ahead(i)' < Ahead(j)'
    <3>1. i \in Index /\ j \in Index /\ slot[i].handle \in Handles BY DEF Occupied, TypeOK
    <3>2. Ahead(i) < Ahead(j) BY <2>3 DEF RoundRobin
    <3>3. inbox[slot[i].handle] # <<>> BY <2>3, <3>1 DEF RoundRobin
    <3>4. i # NextCursor BY <2>1, <2>2, <3>3 DEF Occupied
    <3>5. Ahead(i)' = Ahead(i) - 1 /\ Ahead(i) \in 1..Size BY <2>1, <3>1, <3>4, AheadNext DEF TypeOK
    <3>6. Ahead(j) \in 1..Size /\ (j = NextCursor => Ahead(j) = 1)
          /\ (j # NextCursor => Ahead(j)' = Ahead(j) - 1)
      BY <2>1, <3>1, AheadNext DEF TypeOK
    <3> QED BY <3>2, <3>5, <3>6, ZenohCarrierAssumption
  <2>4. Occupied' = Occupied BY <2>1 DEF Occupied
  <2>5. ~starved' BY <2>1 DEF RoundRobin
  <2> QED BY <2>1, <2>3, <2>4, <2>5 DEF RoundRobin
<1>5. ASSUME NEW h \in Handles, Arrive(h) PROVE RoundRobin'
  <2>1. /\ UNCHANGED <<starved, owed, cursor, declared, slot>> /\ Occupied' = Occupied
        /\ inbox' = inbox \/ inbox' = [inbox EXCEPT ![h] = Append(@, arrived')]
        /\ arrived' \in Frames
    BY <1>5, ArriveEffect DEF Arrive, service, table, Occupied
  <2>2. \A g \in Handles : inbox'[g] = <<>> => inbox[g] = <<>>
    <3>1. CASE inbox' = inbox BY <3>1
    <3>2. CASE inbox' = [inbox EXCEPT ![h] = Append(@, arrived')]
      BY <2>1, <3>2, ArrivePut
    <3> QED BY <2>1, <3>1, <3>2
  <2> QED BY <2>1, <2>2, RoundRobinKept DEF Queued
<1>6. ASSUME NEW k \in Keys, Subscribe(k) PROVE RoundRobin'
  <2>1. PICK i \in Index \ Occupied :
          /\ declares + 1 \in Handles
          /\ slot' = [slot EXCEPT ![i] = [handle |-> declares + 1, key |-> k]]
    BY <1>6, SubscribeEffect
  <2>2. PICK h \in Handles : h = declares + 1 /\ h # None
    BY <2>1 DEF Handles, None
  <2>3. slot' = [slot EXCEPT ![i] = [handle |-> h, key |-> k]] BY <2>1, <2>2
  <2>4. /\ slot'[i].handle = h /\ Occupied' = Occupied \cup {i}
        /\ \A j \in Index : j # i => slot'[j] = slot[j]
    BY ZenonT(60), <2>1, <2>2, <2>3, SlotWritten
  <2>5. h \notin declared BY <2>2 DEF TableInv, TypeOK
  <2>6. UNCHANGED <<starved, owed, cursor, inbox>> /\ declared \subseteq declared'
    BY <1>6 DEF Subscribe, service
  <2>7. \A j \in Occupied : j \in Occupied' /\ slot'[j] = slot[j] BY <2>1, <2>4 DEF Occupied
  <2>8. \A j \in Occupied' \ Occupied : slot'[j].handle \in Handles \ declared
    BY <2>2, <2>4, <2>5
  <2> QED BY <2>6, <2>7, <2>8, RoundRobinKept DEF Queued
<1>7. ASSUME NEW k \in Keys, Unsubscribe(k) PROVE RoundRobin'
  <2>1. PICK i \in Occupied :
          /\ slot[i].handle \in Handles /\ Drop({slot[i].handle})
          /\ Occupied' = Occupied \ {i} /\ \A j \in Index : j # i => slot'[j] = slot[j]
    BY <1>7, UnsubscribeEffect
  <2>2. PICK h \in Handles : h = slot[i].handle BY <2>1
  <2>3. Drop({h}) BY <2>1, <2>2
  <2>4. /\ \A g \in Handles : inbox'[g] = (IF g \in {h} THEN <<>> ELSE inbox[g])
        /\ \A g \in Handles : owed'[g] = (IF g \in {h} THEN {} ELSE owed[g] \ {h})
        /\ declared' = declared \ {h}
    BY <2>3, DropEffect
  <2>5. UNCHANGED <<cursor, starved>> BY <1>7 DEF Unsubscribe
  <2>6. \A j : Ahead(j)' = Ahead(j) BY <2>5 DEF Ahead
  <2>7. ASSUME NEW j \in Occupied', NEW l \in Occupied', slot'[l].handle \in owed'[slot'[j].handle]
        PROVE  Ahead(j) < Ahead(l)
    <3>1. /\ j \in Occupied /\ l \in Occupied /\ slot'[j] = slot[j] /\ slot'[l] = slot[l]
          /\ slot[j].handle \in Handles
      BY <2>1 DEF Occupied, TypeOK
    <3>2. slot[l].handle \in owed'[slot[j].handle] BY <2>7, <3>1
    <3>3. slot[l].handle \in owed[slot[j].handle] BY <2>4, <3>1, <3>2
    <3> QED BY <3>1, <3>3 DEF RoundRobin
  <2>8. ~starved' BY <2>5 DEF RoundRobin
  <2>9. \A g \in Handles : owed'[g] \subseteq declared' BY <2>4 DEF RoundRobin
  <2>10. \A g \in Handles : inbox'[g] = <<>> => owed'[g] = {} BY <2>4 DEF RoundRobin
  <2> QED BY <2>6, <2>7, <2>8, <2>9, <2>10 DEF RoundRobin
<1>8. CASE Disconnect
  <2>1. \A g \in Handles : owed'[g] = (IF g \in declared THEN {} ELSE owed[g] \ declared)
    BY <1>8, DropEffect DEF Disconnect
  <2>2. \A g \in Handles : owed'[g] = {} BY <2>1 DEF RoundRobin
  <2>3. ~starved' /\ Occupied' = {} BY <1>8 DEF Disconnect, RoundRobin, Occupied, FreeSlot
  <2> QED BY <2>2, <2>3 DEF RoundRobin
<1> QED BY <1>1, <1>2, <1>3, <1>4, <1>5, <1>6, <1>7, <1>8 DEF Next, Poll, Scan

-------------------------------------------------------------------------------
(* Types.                                                                  *)

Flags == observed \in BOOLEAN /\ loss \in BOOLEAN /\ routers \in BOOLEAN /\ starved \in BOOLEAN
Counts ==
  /\ phase \in {"idle", "connected", "subscribed", "disconnected"} /\ cursor \in Index
  /\ gauge \in 0..Size /\ reconnects \in Nat
  /\ declares \in 0..MaxDeclares /\ arrived \in 0..MaxFrames /\ losses \in 0..MaxLosses
AppType == app \in [step : {"idle", "scan", "wait"}, left : 0..Size, fits : BOOLEAN]
SlotType == slot \in [Index -> [handle : Handles \cup {None}, key : Keys \cup {"none"}]]
FacadeType ==
  /\ declared \subseteq Handles /\ inbox \in [Handles -> Seq(Frames)]
  /\ full \subseteq Handles /\ big \subseteq Handles /\ source \in [Frames -> Handles \cup {None}]
ServiceType ==
  /\ pending \in Frames \cup {None} /\ taken \subseteq Frames /\ delivered \in Seq(Frames)
  /\ owed \in [Handles -> SUBSET Handles]

LEMMA TypeParts ==
  TypeOK <=> Flags /\ Counts /\ AppType /\ SlotType /\ FacadeType /\ ServiceType
BY Zenon DEF TypeOK, Flags, Counts, AppType, SlotType, FacadeType, ServiceType

LEMMA FlagsStep ==
  ASSUME Flags, Next
  PROVE  Flags'
BY Zenon DEF Flags, Next, Connect, Subscribe, Unsubscribe, Disconnect, Poll, Scan, PollPending, PollStart,
   ScanFrame, ScanFull, ScanOn, ScanEnd, Serve, WaitStart, Wait, ObserveRouter, ObserveNone, WaitTimeout, Restored,
   Arrive, RouterLost, RouterBack, router, service

LEMMA CountsStep ==
  ASSUME TypeOK, TableInv, Next
  PROVE  Counts'
<1>1. gauge' \in 0..Size
  <2>1. gauge' = Cardinality(Occupied)' BY TableStep DEF TableInv
  <2>2. (Cardinality(Occupied) \in 0..Size)' BY OccupiedFinite, PTL
  <2> QED BY <2>1, <2>2
<1>2. NextCursor \in Index /\ 0 \in Index BY CursorNext, ZenohCarrierAssumption DEF TypeOK, Index
<1>3. cursor' \in Index
  BY <1>2 DEF TypeOK, Next, Connect, Subscribe, Unsubscribe, Disconnect, Poll, Scan, PollPending, PollStart,
    ScanFrame, ScanFull, ScanOn, ScanEnd, WaitStart, Wait, ObserveRouter, ObserveNone, WaitTimeout,
    Arrive, RouterLost, RouterBack
<1>4. phase' \in {"idle", "connected", "subscribed", "disconnected"} /\ declares' \in 0..MaxDeclares
  <2>1. CASE Connect \/ Disconnect \/ \E k \in Keys : Unsubscribe(k)
    BY <2>1 DEF Connect, Disconnect, Unsubscribe, TypeOK
  <2>2. ASSUME NEW k \in Keys, Subscribe(k)
        PROVE  phase' \in {"idle", "connected", "subscribed", "disconnected"} /\ declares' \in 0..MaxDeclares
    <3>1. phase' = "subscribed" /\ declares' = declares + 1 /\ declares < MaxDeclares
      BY <2>2 DEF Subscribe
    <3> QED BY <3>1, ZenohCarrierAssumption DEF TypeOK
  <2> QED BY <2>1, <2>2
    DEF TypeOK, Next, Poll, Scan, PollPending, PollStart, ScanFrame, ScanFull, ScanOn, ScanEnd,
      WaitStart, Wait, ObserveRouter, ObserveNone, WaitTimeout, Arrive, RouterLost, RouterBack, table
<1>5. arrived' \in 0..MaxFrames
  <2>1. ASSUME NEW h \in Handles, Arrive(h) PROVE arrived' \in 0..MaxFrames
    BY <2>1, ZenohCarrierAssumption DEF Arrive, TypeOK
  <2> QED BY <2>1
    DEF TypeOK, Next, Connect, Subscribe, Unsubscribe, Disconnect, Poll, Scan, PollPending, PollStart,
      ScanFrame, ScanFull, ScanOn, ScanEnd, WaitStart, Wait, ObserveRouter, ObserveNone, WaitTimeout,
      RouterLost, RouterBack
<1>6. reconnects' \in Nat /\ losses' \in 0..MaxLosses
  <2>1. CASE RouterLost BY <2>1, ZenohCarrierAssumption DEF RouterLost, TypeOK
  <2>2. CASE ObserveRouter BY <2>2 DEF ObserveRouter, Restored, TypeOK
  <2> QED BY <2>1, <2>2
    DEF TypeOK, Next, Connect, Subscribe, Unsubscribe, Disconnect, Poll, Scan, PollPending, PollStart,
      ScanFrame, ScanFull, ScanOn, ScanEnd, WaitStart, Wait, ObserveNone, WaitTimeout,
      Arrive, RouterBack, router
<1> QED BY <1>1, <1>3, <1>4, <1>5, <1>6 DEF Counts

LEMMA AppTypeStep ==
  ASSUME AppType, Next
  PROVE  AppType'
<1>0. AppIdle \in [step : {"idle", "scan", "wait"}, left : 0..Size, fits : BOOLEAN]
  BY ZenohCarrierAssumption DEF AppIdle
<1>1. CASE ScanOn
  <2>1. app' = [app EXCEPT !.left = @ - 1] /\ app.left > 0 BY <1>1 DEF ScanOn, Scanning
  <2>2. app.left - 1 \in 0..Size BY <2>1, ZenohCarrierAssumption DEF AppType
  <2> QED BY <2>1, <2>2 DEF AppType
<1>2. ASSUME NEW fits \in BOOLEAN, PollStart(fits) PROVE AppType'
  BY <1>2, ZenohCarrierAssumption DEF PollStart, AppType
<1>3. CASE WaitStart BY <1>0, <1>3 DEF WaitStart, AppType
<1>4. CASE app' = AppIdle BY <1>0, <1>4 DEF AppType
<1>5. CASE app' = app BY <1>5 DEF AppType
<1> QED BY <1>1, <1>2, <1>3, <1>4, <1>5
  DEF Next, Connect, Subscribe, Unsubscribe, Disconnect, Poll, Scan, PollPending, ScanFrame, ScanFull, ScanEnd,
    Wait, ObserveRouter, ObserveNone, WaitTimeout, Return, Arrive, RouterLost, RouterBack

LEMMA SlotTypeStep ==
  ASSUME TypeOK, Next
  PROVE  SlotType'
<1>1. CASE Untouched BY <1>1, TableUntouched DEF SlotType, TypeOK
<1>2. CASE Disconnect BY <1>2 DEF Disconnect, FreeSlot, SlotType
<1>3. ASSUME NEW k \in Keys, Subscribe(k) PROVE SlotType'
  <2>1. PICK i \in Index \ Occupied :
          /\ declares + 1 \in Handles
          /\ slot' = [slot EXCEPT ![i] = [handle |-> declares + 1, key |-> k]]
    BY <1>3, SubscribeEffect
  <2>2. PICK h \in Handles : h = declares + 1 BY <2>1
  <2>3. slot' = [slot EXCEPT ![i] = [handle |-> h, key |-> k]] BY <2>1, <2>2
  <2> QED BY <2>3, SlotWritten DEF SlotType
<1>4. ASSUME NEW k \in Keys, Unsubscribe(k) PROVE SlotType' BY <1>4, UnsubscribeEffect DEF SlotType
<1> QED BY <1>1, <1>2, <1>3, <1>4 DEF Next, Untouched

LEMMA FacadeTypeStep ==
  ASSUME TypeOK, Next
  PROVE  FacadeType'
<1>0. FacadeType BY TypeParts
<1>1. CASE Connect \/ WaitStart \/ Wait \/ RouterLost \/ RouterBack \/ ScanEnd
           \/ \E fits \in BOOLEAN : PollPending(fits) \/ PollStart(fits)
  BY <1>0, <1>1
  DEF FacadeType, Connect, WaitStart, Wait, ObserveRouter, ObserveNone, WaitTimeout, RouterLost, RouterBack,
      ScanEnd, PollPending, PollStart, facade
<1>2. CASE ScanFull \/ ScanOn BY <1>0, <1>2 DEF FacadeType, ScanFull, ScanOn
<1>3. CASE ScanFrame
  <2>1. /\ Visited \in Handles /\ inbox[Visited] # <<>> /\ inbox' = [inbox EXCEPT ![Visited] = Tail(@)]
        /\ UNCHANGED <<declared, full, big, source>>
    BY <1>3, VisitedSlot DEF ScanFrame
  <2>2. PICK h \in Handles : h = Visited BY <2>1
  <2>3. inbox' \in [Handles -> Seq(Frames)] BY <2>1, <2>2, TakeEffect
  <2> QED BY <1>0, <2>1, <2>3 DEF FacadeType
<1>4. ASSUME NEW h \in Handles, Arrive(h) PROVE FacadeType'
  <2>1. /\ arrived' \in Frames /\ source' \in [Frames -> Handles \cup {None}]
        /\ inbox' = inbox \/ inbox' = [inbox EXCEPT ![h] = Append(@, arrived')]
    BY <1>4, ArriveEffect
  <2>4. inbox' \in [Handles -> Seq(Frames)] BY <1>0, <2>1, ArrivePut DEF FacadeType
  <2>5. declared' = declared /\ full' \subseteq full \cup {h} /\ big' \subseteq big \cup {h}
    BY <1>4 DEF Arrive
  <2> QED BY <1>0, <2>1, <2>4, <2>5 DEF FacadeType
<1>5. ASSUME NEW H, Drop(H), source' = source PROVE FacadeType'
  BY <1>0, <1>5, DropEffect DEF FacadeType
<1>6. CASE Disconnect BY <1>5, <1>6 DEF Disconnect
<1>7. ASSUME NEW k \in Keys, Subscribe(k) PROVE FacadeType'
  <2>1. declares + 1 \in Handles BY <1>7, SubscribeEffect
  <2>2. declared' = declared \cup {declares + 1} /\ UNCHANGED <<inbox, full, big, source>>
    BY <1>7 DEF Subscribe
  <2> QED BY <1>0, <2>1, <2>2 DEF FacadeType
<1>8. ASSUME NEW k \in Keys, Unsubscribe(k) PROVE FacadeType'
  <2>1. (\E h : Drop({h})) /\ source' = source BY <1>8, UnsubscribeEffect DEF Unsubscribe
  <2> QED BY <1>5, <2>1
<1> QED BY <1>1, <1>2, <1>3, <1>4, <1>6, <1>7, <1>8 DEF Next, Poll, Scan

LEMMA ServiceTypeStep ==
  ASSUME TypeOK, Next
  PROVE  ServiceType'
<1>0. ServiceType BY TypeParts
<1>1. CASE Connect \/ WaitStart \/ Wait \/ RouterLost \/ RouterBack \/ ScanEnd \/ ScanOn
           \/ (\E fits \in BOOLEAN : PollStart(fits)) \/ (\E k \in Keys : Subscribe(k))
           \/ \E h \in Handles : Arrive(h)
  BY <1>0, <1>1
  DEF ServiceType, Connect, WaitStart, Wait, ObserveRouter, ObserveNone, WaitTimeout, RouterLost, RouterBack,
      ScanEnd, ScanOn, PollStart, Subscribe, Arrive, service
<1>2. ASSUME NEW f \in Frames, NEW fits, Copy(f, fits)
      PROVE  pending' \in Frames \cup {None} /\ delivered' \in Seq(Frames)
  <2>1. Append(delivered, f) \in Seq(Frames) BY <1>0, AppendProperties DEF ServiceType
  <2> QED BY <1>0, <1>2, <2>1, CopyEffect DEF ServiceType
<1>3. ASSUME NEW fits \in BOOLEAN, PollPending(fits) PROVE ServiceType'
  <2>1. PICK f \in Frames : f = pending BY <1>0, <1>3 DEF PollPending, ServiceType
  <2>2. Copy(f, fits) /\ UNCHANGED <<taken, owed>> BY <1>3, <2>1 DEF PollPending
  <2>3. pending' \in Frames \cup {None} /\ delivered' \in Seq(Frames) BY <1>2, <2>2
  <2> QED BY <1>0, <2>2, <2>3 DEF ServiceType
<1>4. ASSUME NEW h \in Handles, NEW rest, Serve(h, rest) PROVE owed' \in [Handles -> SUBSET Handles]
  BY <1>0, <1>4 DEF Serve, ServiceType
<1>5. CASE ScanFull
  <2>1. owed' \in [Handles -> SUBSET Handles] /\ UNCHANGED <<pending, taken, delivered>>
    BY <1>4, <1>5, VisitedSlot DEF ScanFull
  <2> QED BY <1>0, <2>1 DEF ServiceType
<1>6. CASE ScanFrame
  <2>1. PICK h \in Handles : h = Visited /\ inbox[h] # <<>> BY <1>6, VisitedSlot DEF ScanFrame
  <2>2. PICK f \in Frames : f = Head(inbox[h])
    <3>1. inbox[h] \in Seq(Frames) BY DEF TypeOK
    <3> QED BY <2>1, <3>1, HeadTailProperties
  <2>3. Copy(f, app.fits) /\ taken' = taken \cup {f} /\ Serve(h, inbox')
    BY <1>6, <2>1, <2>2 DEF ScanFrame
  <2>4. pending' \in Frames \cup {None} /\ delivered' \in Seq(Frames) BY <1>2, <2>3
  <2>5. owed' \in [Handles -> SUBSET Handles] BY <1>4, <2>3
  <2> QED BY <1>0, <2>3, <2>4, <2>5 DEF ServiceType
<1>7. CASE Disconnect
  <2>1. <<>> \in Seq(Frames) BY EmptySeq
  <2>2. owed' \in [Handles -> SUBSET Handles] BY <1>7, DropEffect DEF Disconnect
  <2> QED BY <1>7, <2>1, <2>2 DEF Disconnect, ServiceType
<1>8. ASSUME NEW k \in Keys, Unsubscribe(k) PROVE ServiceType'
  <2>1. \E h : Drop({h}) BY <1>8, UnsubscribeEffect
  <2>2. owed' \in [Handles -> SUBSET Handles] BY <2>1, DropEffect
  <2> QED BY <1>0, <1>8, <2>2 DEF Unsubscribe, ServiceType
<1> QED BY <1>1, <1>3, <1>5, <1>6, <1>7, <1>8 DEF Next, Poll, Scan

-------------------------------------------------------------------------------
(* The theorems.                                                           *)

LEMMA InitPollInv == Init => PollInv
<1> SUFFICES ASSUME Init PROVE PollInv OBVIOUS
<1>0. <<>> \in Seq(Frames) /\ DOMAIN <<>> = {} BY EmptySeq
<1>1. Flags BY Zenon DEF Init, Flags
<1>2. Counts /\ SlotType BY ZenohCarrierAssumption DEF Init, Counts, SlotType, Index, FreeSlot
<1>3. AppType BY ZenohCarrierAssumption DEF Init, AppType, AppIdle
<1>4. FacadeType /\ ServiceType BY <1>0 DEF Init, FacadeType, ServiceType
<1>5. Occupied = {} BY DEF Init, Occupied, FreeSlot
<1>6. TableInv BY <1>5, FS_EmptySet DEF Init, TableInv
<1>7. Queued BY <1>0 DEF Init, Queued
<1>8. Polled BY <1>0 DEF Init, Polled, PolledNeverLost
<1>9. RoundRobin BY <1>5 DEF Init, RoundRobin
<1> QED BY <1>1, <1>2, <1>3, <1>4, <1>6, <1>7, <1>8, <1>9, TypeParts DEF PollInv

LEMMA StepPollInv == PollInv /\ [Next]_vars => PollInv'
<1> SUFFICES ASSUME PollInv, [Next]_vars PROVE PollInv' OBVIOUS
<1>1. CASE Next
  <2>1. TypeOK /\ Flags /\ AppType BY TypeParts DEF PollInv
  <2>2. Flags' /\ Counts' /\ AppType' /\ SlotType' /\ FacadeType' /\ ServiceType'
    BY <1>1, <2>1, FlagsStep, CountsStep, AppTypeStep, SlotTypeStep, FacadeTypeStep, ServiceTypeStep
    DEF PollInv
  <2>3. (TypeOK <=> Flags /\ Counts /\ AppType /\ SlotType /\ FacadeType /\ ServiceType)'
    BY TypeParts, PTL
  <2> QED BY <1>1, <2>2, <2>3, TableStep, QueuedStep, PolledStep, RoundRobinStep DEF PollInv
<1>2. CASE UNCHANGED vars
  <2>1. TypeOK'
    BY <1>2 DEF PollInv, TypeOK, vars, table, router, facade, service
  <2>2. TableInv' /\ Queued'
    BY <1>2 DEF PollInv, TableInv, Occupied, Queued, vars, table, facade
  <2>3. Polled' BY <1>2, PolledKept DEF PollInv, Polled, vars, facade, service
  <2>4. RoundRobin' BY <1>2 DEF PollInv, RoundRobin, Ahead, Occupied, vars, table, facade, service
  <2> QED BY <2>1, <2>2, <2>3, <2>4 DEF PollInv
<1> QED BY <1>1, <1>2

(* The five parts hold together in every state the carrier reaches.        *)
THEOREM PollInvariant == Spec => []PollInv
BY InitPollInv, StepPollInv, PTL DEF Spec

(* Every variable keeps its type; the diagnostics' gauge never exceeds the *)
(* table and the poll cursor never leaves it.                              *)
THEOREM TypeCorrect == Spec => []TypeOK
<1>1. PollInv => TypeOK BY DEF PollInv
<1> QED BY PollInvariant, <1>1, PTL

(* ZenohCarrier.swift's table and the facade's declarations agree after    *)
(* every subscribe, unsubscribe and disconnect, and the gauge counts them. *)
THEOREM TableMatchesFacadeHolds == Spec => []TableMatchesFacade
<1>1. PollInv => TableMatchesFacade
  <2> SUFFICES ASSUME PollInv PROVE TableMatchesFacade OBVIOUS
  <2>1. TableInv BY DEF PollInv
  <2>2. Held = declared
    <3>1. \A h \in Held : h \in declared BY <2>1 DEF Held, TableInv
    <3>2. \A h \in declared : h \in Held BY <2>1 DEF Held, TableInv
    <3> QED BY <3>1, <3>2
  <2>3. Cardinality(Occupied) = Cardinality(declared)
    <3> DEFINE f == [i \in Occupied |-> slot[i].handle]
    <3>1. f \in Bijection(Occupied, declared)
      <4>1. f \in [Occupied -> declared] BY <2>1 DEF TableInv
      <4>2. \A i, j \in Occupied : f[i] = f[j] => i = j BY <2>1 DEF TableInv
      <4>3. \A h \in declared : \E i \in Occupied : f[i] = h BY <2>1 DEF TableInv
      <4> QED BY <4>1, <4>2, <4>3, Fun_IsBij
    <3> QED BY <3>1, OccupiedFinite, FS_Bijection DEF ExistsBijection
  <2> QED BY <2>1, <2>2, <2>3 DEF TableMatchesFacade, TableInv
<1> QED BY PollInvariant, <1>1, PTL

(* What pollOneEvent takes from the facade reaches the caller or stays     *)
(* retained, once, and in the order of its subscription, however often the *)
(* caller's storage is too small.                                          *)
THEOREM PolledNeverLostHolds == Spec => []PolledNeverLost
<1>1. PollInv => PolledNeverLost BY DEF PollInv, Polled
<1> QED BY PollInvariant, <1>1, PTL

(* The round-robin cursor of pollOneEvent serves no subscription twice     *)
(* while another one has a frame waiting, for any number of slots and      *)
(* whatever is subscribed and unsubscribed in between.                     *)
THEOREM NobodyStarvesHolds == Spec => []NobodyStarves
<1>1. PollInv => NobodyStarves BY DEF PollInv, RoundRobin, NobodyStarves
<1> QED BY PollInvariant, <1>1, PTL
================================================================================
