------------------------------- MODULE ZenohQueue -------------------------------
(***************************************************************************)
(* The bounded receive queue of one Zenoh subscription                     *)
(* (Transports/zenoh-pico/main/zenoh_pico_queue.c, admit and poll).        *)
(*                                                                         *)
(* Any number of Zenoh callbacks (Producers) admit frames; one application *)
(* task polls.  There is no lock: a producer claims a write position with  *)
(* a compare-and-swap, fills the slot and publishes it; the consumer       *)
(* copies a published head slot out, un-publishes it and advances.  Each   *)
(* atomic access of the C code is one action.                              *)
(*                                                                         *)
(* Indices are unsigned integers of width Modulus (2^32 in the code) that  *)
(* wrap.  A frame is its number and a size class; its key bytes and its    *)
(* payload bytes are written and read separately, as the two memcpy calls  *)
(* do, so a torn or overwritten frame is visible.                          *)
(***************************************************************************)
EXTENDS Integers, Sequences, FiniteSets

CONSTANTS Producers,   \* the callbacks that may run at the same time
          Capacity,    \* ZENOH_PICO_QUEUE_CAPACITY
          Modulus,     \* the number of values of a uint32_t index
          StartIndex,  \* both indices of the empty queue at the start
          MaxFrames,   \* bound: how many frames the producers offer
          FrameSizes,  \* the size classes of the frames that arrive
          BufferSizes  \* the caller's buffers: "small" holds only small frames

ASSUME QueueAssumption ==
  /\ IsFiniteSet(Producers)
  /\ Capacity \in Nat \ {0}
  /\ Modulus \in Nat \ {0}
  /\ Modulus % Capacity = 0          \* a power-of-two capacity divides 2^32
  /\ StartIndex \in 0..(Modulus - 1)
  /\ MaxFrames \in Nat
  /\ MaxFrames + Capacity <= Modulus \* no producer stalls across a whole wrap
  /\ FrameSizes \subseteq {"small", "wide", "oversized"}
  /\ BufferSizes \subseteq {"small", "full"}

VARIABLES
  write_index, read_index, slots,          \* ZenohPicoQueue and its frames
  dropped, oversized,                      \* the cumulative counters
  report_full, report_oversized,           \* the one-shot notifications
  pc, frame, write,                        \* each producer's step and locals
  cpc, buffer, out,                        \* the consumer's step and locals
  offered, admitted, delivered, seen,      \* history: see below
  full_reports, oversized_reports,         \* history: notifications returned
  told_full, told_oversized                \* history: counters when last told

(***************************************************************************)
(* History.  offered counts the frames given to producers, admitted is the *)
(* sequence of frames that won a position, delivered the sequence of what  *)
(* poll copied out.  Claimed and Consumed are the unwrapped indices, and   *)
(* seen[p] is the value of Claimed when p last read write_index.           *)
(* told_full and told_oversized are the counters dropped and oversized at  *)
(* the poll that last returned the notification of each.                   *)
(***************************************************************************)
queueVars == <<write_index, read_index, slots, dropped, oversized, report_full, report_oversized>>
producerVars == <<pc, frame, write, seen, offered, admitted>>
reportVars == <<full_reports, oversized_reports, told_full, told_oversized>>
consumerVars == <<cpc, buffer, out, delivered, reportVars>>
vars == <<queueVars, producerVars, consumerVars>>

Claimed  == StartIndex + Len(admitted)
Consumed == StartIndex + Len(delivered)

Frame == [id : 1..MaxFrames, size : FrameSizes]
NoFrame == [id |-> 0, size |-> "small"]
Whole(f) == [key |-> f, payload |-> f]
Message == [key : Frame \cup {NoFrame}, payload : Frame \cup {NoFrame}]
Slot == [key : Frame \cup {NoFrame}, payload : Frame \cup {NoFrame}, published : {0, 1}]

ProducerStep == {"idle", "load", "check", "drop", "report_full", "cas", "copy_key",
                 "copy_payload", "publish", "note", "report_oversized"}
ConsumerStep == {"idle", "take_full", "take_oversized", "head", "copy_out", "unpublish", "advance"}

\* uint32_t arithmetic, and a faulty variant that does not wrap.
Wrap_Unbounded(n) == n
Wrap(n) == n % Modulus
SlotOf(index) == index % Capacity

Init ==
  /\ write_index = StartIndex /\ read_index = StartIndex
  /\ slots = [i \in 0..(Capacity - 1) |-> [key |-> NoFrame, payload |-> NoFrame, published |-> 0]]
  /\ dropped = 0 /\ oversized = 0 /\ report_full = 0 /\ report_oversized = 0
  /\ pc = [p \in Producers |-> "idle"]
  /\ frame = [p \in Producers |-> NoFrame]
  /\ write = [p \in Producers |-> 0]
  /\ seen = [p \in Producers |-> StartIndex]
  /\ offered = 0 /\ admitted = <<>>
  /\ cpc = "idle" /\ buffer = "full" /\ out = Whole(NoFrame)
  /\ delivered = <<>> /\ full_reports = 0 /\ oversized_reports = 0
  /\ told_full = 0 /\ told_oversized = 0

Goto(p, step) == pc' = [pc EXCEPT ![p] = step]

-------------------------------------------------------------------------------
(* zenoh_pico_queue_admit, run by producer p.                              *)

\* A frame beyond the composed bounds is counted as oversized, not queued.
Offer(p, size) ==
  /\ pc[p] = "idle" /\ offered < MaxFrames
  /\ offered' = offered + 1
  /\ frame' = [frame EXCEPT ![p] = [id |-> offered + 1, size |-> size]]
  /\ Goto(p, IF size = "oversized" THEN "note" ELSE "load")
  /\ UNCHANGED <<queueVars, consumerVars, write, seen, admitted>>

ReadWriteIndex(p) ==
  /\ write' = [write EXCEPT ![p] = write_index]
  /\ seen' = [seen EXCEPT ![p] = Claimed]

LoadWrite(p) ==
  /\ pc[p] = "load"
  /\ ReadWriteIndex(p)
  /\ Goto(p, "check")
  /\ UNCHANGED <<queueVars, consumerVars, frame, offered, admitted>>

\* Faulty variant: one slot too many.
LooksFull_Late(p) == Wrap(write[p] - read_index) > Capacity
LooksFull(p) == Wrap(write[p] - read_index) >= Capacity

CheckFull(p) ==
  /\ pc[p] = "check"
  /\ Goto(p, IF LooksFull(p) THEN "drop" ELSE "cas")
  /\ UNCHANGED <<queueVars, consumerVars, frame, write, seen, offered, admitted>>

CountDrop(p) ==
  /\ pc[p] = "drop"
  /\ dropped' = dropped + 1
  /\ Goto(p, "report_full")
  /\ UNCHANGED <<write_index, read_index, slots, oversized, report_full, report_oversized,
                 consumerVars, frame, write, seen, offered, admitted>>

ReportFull(p) ==
  /\ pc[p] = "report_full"
  /\ report_full' = 1
  /\ Goto(p, "idle")
  /\ UNCHANGED <<write_index, read_index, slots, dropped, oversized, report_oversized,
                 consumerVars, frame, write, seen, offered, admitted>>

\* Faulty variant: a plain store instead of the compare-and-swap.
ClaimPosition_Store(p) ==
  /\ pc[p] = "cas"
  /\ write_index' = Wrap(write[p] + 1)
  /\ admitted' = Append(admitted, Whole(frame[p]))
  /\ Goto(p, "copy_key")
  /\ UNCHANGED <<read_index, slots, dropped, oversized, report_full, report_oversized,
                 consumerVars, frame, write, seen, offered>>

\* The compare-and-swap: a failure reloads write and repeats the full check.
ClaimPosition(p) ==
  /\ pc[p] = "cas" /\ write_index = write[p]
  /\ write_index' = Wrap(write[p] + 1)
  /\ admitted' = Append(admitted, Whole(frame[p]))
  /\ Goto(p, "copy_key")
  /\ UNCHANGED <<read_index, slots, dropped, oversized, report_full, report_oversized,
                 consumerVars, frame, write, seen, offered>>

\* Faulty variant: give up on a lost race.
LosePosition_GiveUp(p) ==
  /\ pc[p] = "cas" /\ write_index # write[p]
  /\ Goto(p, "idle")
  /\ UNCHANGED <<queueVars, consumerVars, frame, write, seen, offered, admitted>>

LosePosition(p) ==
  /\ pc[p] = "cas" /\ write_index # write[p]
  /\ ReadWriteIndex(p)
  /\ Goto(p, "check")
  /\ UNCHANGED <<queueVars, consumerVars, frame, offered, admitted>>

\* Steps that write the claimed slot and nothing else of the queue.
FillSlot(p, from, to, newSlot) ==
  /\ pc[p] = from
  /\ slots' = [slots EXCEPT ![SlotOf(write[p])] = newSlot]
  /\ Goto(p, to)
  /\ UNCHANGED <<write_index, read_index, dropped, oversized, report_full, report_oversized,
                 consumerVars, frame, write, seen, offered, admitted>>

\* Faulty variant: the slot is published before its payload is copied.
CopyKey_Published(p) == FillSlot(p, "copy_key", "copy_payload",
                                 [slots[SlotOf(write[p])] EXCEPT !.key = frame[p], !.published = 1])
CopyKey(p) == FillSlot(p, "copy_key", "copy_payload",
                       [slots[SlotOf(write[p])] EXCEPT !.key = frame[p]])
CopyPayload(p) == FillSlot(p, "copy_payload", "publish",
                           [slots[SlotOf(write[p])] EXCEPT !.payload = frame[p]])
\* Faulty variant: the publication flag is forgotten.
Publish_Forgotten(p) == FillSlot(p, "publish", "idle", slots[SlotOf(write[p])])
Publish(p) == FillSlot(p, "publish", "idle",
                       [slots[SlotOf(write[p])] EXCEPT !.published = 1])

\* zenoh_pico_queue_note_oversized.
NoteOversized(p) ==
  /\ pc[p] = "note"
  /\ oversized' = oversized + 1
  /\ Goto(p, "report_oversized")
  /\ UNCHANGED <<write_index, read_index, slots, dropped, report_full, report_oversized,
                 consumerVars, frame, write, seen, offered, admitted>>

ReportOversized(p) ==
  /\ pc[p] = "report_oversized"
  /\ report_oversized' = 1
  /\ Goto(p, "idle")
  /\ UNCHANGED <<write_index, read_index, slots, dropped, oversized, report_full,
                 consumerVars, frame, write, seen, offered, admitted>>

-------------------------------------------------------------------------------
(* zenoh_pico_queue_poll, run by the one application task.                 *)

HeadSlot == slots[SlotOf(read_index)]
FitsBuffer(slot) == buffer = "full" \/ (slot.key.size = "small" /\ slot.payload.size = "small")

PollStart(size) ==
  /\ cpc = "idle"
  /\ buffer' = size
  /\ cpc' = IF read_index = write_index THEN "take_full" ELSE "head"
  /\ UNCHANGED <<queueVars, producerVars, out, delivered, reportVars>>

\* Taking a notification: returned when it was set, and then told.
Told(report, counter, told) == IF report = 1 THEN counter ELSE told

\* Faulty variant: taking the drop notification clears the oversized one too.
TakeFull_Both ==
  /\ cpc = "take_full"
  /\ report_full' = 0
  /\ report_oversized' = IF report_full = 1 THEN 0 ELSE report_oversized
  /\ full_reports' = full_reports + report_full
  /\ told_full' = Told(report_full, dropped, told_full)
  /\ cpc' = IF report_full = 1 THEN "idle" ELSE "take_oversized"
  /\ UNCHANGED <<write_index, read_index, slots, dropped, oversized,
                 producerVars, buffer, out, delivered, oversized_reports, told_oversized>>

\* The queue looked drained: return a pending notification, the drop first.
TakeFull ==
  /\ cpc = "take_full"
  /\ report_full' = 0
  /\ full_reports' = full_reports + report_full
  /\ told_full' = Told(report_full, dropped, told_full)
  /\ cpc' = IF report_full = 1 THEN "idle" ELSE "take_oversized"
  /\ UNCHANGED <<write_index, read_index, slots, dropped, oversized, report_oversized,
                 producerVars, buffer, out, delivered, oversized_reports, told_oversized>>

TakeOversized ==
  /\ cpc = "take_oversized"
  /\ report_oversized' = 0
  /\ oversized_reports' = oversized_reports + report_oversized
  /\ told_oversized' = Told(report_oversized, oversized, told_oversized)
  /\ cpc' = "idle"
  /\ UNCHANGED <<write_index, read_index, slots, dropped, oversized, report_full,
                 producerVars, buffer, out, delivered, full_reports, told_full>>

\* Faulty variant: the publication flag is not checked.
CheckHead_Unchecked ==
  /\ cpc = "head"
  /\ IF FitsBuffer(HeadSlot)
       THEN cpc' = "copy_out" /\ out' = [out EXCEPT !.key = HeadSlot.key]
       ELSE cpc' = "idle" /\ UNCHANGED out
  /\ UNCHANGED <<queueVars, producerVars, buffer, delivered, reportVars>>

\* An unpublished head reads as empty, and a frame larger than the buffer is
\* refused and stays queued; otherwise the key is copied out.
CheckHead ==
  /\ cpc = "head"
  /\ IF HeadSlot.published = 1 /\ FitsBuffer(HeadSlot)
       THEN cpc' = "copy_out" /\ out' = [out EXCEPT !.key = HeadSlot.key]
       ELSE cpc' = "idle" /\ UNCHANGED out
  /\ UNCHANGED <<queueVars, producerVars, buffer, delivered, reportVars>>

CopyOut ==
  /\ cpc = "copy_out"
  /\ out' = [out EXCEPT !.payload = HeadSlot.payload]
  /\ cpc' = "unpublish"
  /\ UNCHANGED <<queueVars, producerVars, buffer, delivered, reportVars>>

Unpublish ==
  /\ cpc = "unpublish"
  /\ slots' = [slots EXCEPT ![SlotOf(read_index)].published = 0]
  /\ cpc' = "advance"
  /\ UNCHANGED <<write_index, read_index, dropped, oversized, report_full, report_oversized,
                 producerVars, buffer, out, delivered, reportVars>>

Advance ==
  /\ cpc = "advance"
  /\ read_index' = Wrap(read_index + 1)
  /\ delivered' = Append(delivered, out)
  /\ cpc' = "idle"
  /\ UNCHANGED <<write_index, slots, dropped, oversized, report_full, report_oversized,
                 producerVars, buffer, out, reportVars>>

-------------------------------------------------------------------------------
\* Finishing an admit that was started: every step of p but the next offer.
Admit(p) ==
  \/ LoadWrite(p) \/ CheckFull(p) \/ CountDrop(p) \/ ReportFull(p)
  \/ ClaimPosition(p) \/ LosePosition(p)
  \/ CopyKey(p) \/ CopyPayload(p) \/ Publish(p)
  \/ NoteOversized(p) \/ ReportOversized(p)

Poll ==
  \/ \E size \in BufferSizes : PollStart(size)
  \/ TakeFull \/ TakeOversized \/ CheckHead \/ CopyOut \/ Unpublish \/ Advance

Next ==
  \/ \E p \in Producers : Admit(p) \/ \E size \in FrameSizes : Offer(p, size)
  \/ Poll

Spec == Init /\ [][Next]_vars

\* A callback that started returns, and the application keeps polling, again and
\* again with buffers that hold any frame (the carrier's own are of full size).
Fairness ==
  /\ WF_vars(Poll) /\ SF_vars(PollStart("full"))
  /\ \A p \in Producers : WF_vars(Admit(p))
FairSpec == Spec /\ Fairness

-------------------------------------------------------------------------------
\* zenoh_pico_queue_depth, as the application task reads it between polls.
Depth == LET depth == Wrap(write_index - read_index)
         IN  IF depth > Capacity THEN Capacity ELSE depth

\* How many producers are at one of the given steps.
At(steps) == Cardinality({p \in Producers : pc[p] \in steps})

Filling(p) == pc[p] \in {"copy_key", "copy_payload", "publish"}
Reading == cpc \in {"copy_out", "unpublish", "advance"}

\* Every variable has its type; indices stay inside the width of the integer.
TypeOK ==
  /\ write_index \in 0..(Modulus - 1) /\ read_index \in 0..(Modulus - 1)
  /\ slots \in [0..(Capacity - 1) -> Slot]
  /\ dropped \in Nat /\ oversized \in Nat
  /\ report_full \in {0, 1} /\ report_oversized \in {0, 1}
  /\ pc \in [Producers -> ProducerStep]
  /\ frame \in [Producers -> Frame \cup {NoFrame}]
  /\ write \in [Producers -> 0..(Modulus - 1)]
  /\ seen \in [Producers -> Nat]
  /\ offered \in 0..MaxFrames
  /\ admitted \in Seq(Message) /\ delivered \in Seq(Message)
  /\ cpc \in ConsumerStep /\ buffer \in {"small", "full"} /\ out \in Message
  /\ full_reports \in Nat /\ oversized_reports \in Nat
  /\ told_full \in Nat /\ told_oversized \in Nat

(* Two producers never fill the same slot, and none fills the slot the     *)
(* consumer is copying out ("two producers never share a slot", and the    *)
(* un-publish before the advance in zenoh_pico_queue_poll).                *)
SlotExclusive ==
  /\ \A p, q \in Producers :
       Filling(p) /\ Filling(q) /\ SlotOf(write[p]) = SlotOf(write[q]) => p = q
  /\ \A p \in Producers : Filling(p) /\ Reading => SlotOf(write[p]) # SlotOf(read_index)

(* What poll has delivered is exactly the oldest admitted frames, each     *)
(* once, whole and in order: no admitted frame is lost, duplicated,        *)
(* overtaken, or handed out with another frame's payload.                  *)
DeliveredInOrder ==
  /\ Len(delivered) <= Len(admitted)
  /\ \A i \in 1..Len(delivered) : delivered[i] = admitted[i]

(* The depth the application reads is the number of admitted frames not    *)
(* yet delivered, also across the wrap of the indices, so the clamp in     *)
(* zenoh_pico_queue_depth never hides an overfull queue.                   *)
DepthExact == Depth = Len(admitted) - Len(delivered)

(* No loss stays untold and none is made up: every frame dropped (or       *)
(* oversized) since the poll that last returned the notification has left  *)
(* its flag set, or its producer is about to set it; and the notifications *)
(* returned and pending never outnumber the counted frames.                *)
ReportsBacked ==
  /\ full_reports + report_full + At({"report_full"}) <= dropped
  /\ dropped > told_full => report_full = 1 \/ At({"report_full"}) > 0
  /\ oversized_reports + report_oversized + At({"report_oversized"}) <= oversized
  /\ oversized > told_oversized => report_oversized = 1 \/ At({"report_oversized"}) > 0

(* Every offered frame is accounted for: it is queued or delivered, a      *)
(* counted drop, a counted oversized frame, or still inside its admit.     *)
FramesAccounted ==
  offered = Len(admitted) + dropped + oversized + At({"load", "check", "drop", "cas", "note"})

(* A frame is dropped as QUEUE_FULL only when the queue is full: "dropping *)
(* the newest frame and counting the drop when the queue is full".         *)
DropOnlyWhenFull ==
  [][\A p \in Producers :
       pc[p] = "check" /\ pc'[p] = "drop" => Claimed - Consumed >= Capacity]_vars

(* The queue implements the abstract first-in first-out buffer.  A drop    *)
(* takes effect where the full check decides it.                           *)
Fifo == INSTANCE BoundedFifo WITH
  Items <- Message,
  items <- SubSeq(admitted, Len(delivered) + 1, Len(admitted)),
  taken <- delivered,
  lost  <- dropped + At({"drop"})

\* With any number of producers it is a buffer that may lose an offer.
LossyFifo == Fifo!LossySpec

(* Every admitted frame is eventually delivered to an application that     *)
(* keeps polling with buffers of full size among others.                   *)
EventuallyDelivered ==
  \A n \in 1..MaxFrames : Len(admitted) >= n ~> Len(delivered) >= n
================================================================================
