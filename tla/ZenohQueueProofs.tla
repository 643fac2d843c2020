---------------------------- MODULE ZenohQueueProofs ----------------------------
(***************************************************************************)
(* What ZenohQueue guarantees for every number of producers, every         *)
(* capacity and every index width.                                         *)
(***************************************************************************)
EXTENDS ZenohQueue, ModularArithmetic, FiniteSetTheorems, SequenceTheorems, TLAPS

-------------------------------------------------------------------------------
(* Types.                                                                  *)

\* The constants' types, without the divisibility that slows the solver.
LEMMA ConstantTypes ==
  /\ Capacity \in Nat \ {0} /\ Modulus \in Nat \ {0} /\ MaxFrames \in Nat
  /\ StartIndex \in 0..(Modulus - 1) /\ MaxFrames + Capacity <= Modulus
  /\ FrameSizes \subseteq {"small", "wide", "oversized"}
  /\ BufferSizes \subseteq {"small", "full"}
  BY QueueAssumption

\* A wrapped index and a slot number are in range.
LEMMA WrapType == \A n \in Int : Wrap(n) \in 0..(Modulus - 1)
  BY QueueAssumption, ModRange DEF Wrap

LEMMA SlotType == \A n \in Int : SlotOf(n) \in 0..(Capacity - 1)
  BY QueueAssumption, ModRange DEF SlotOf

\* The frames built by the model have their types.
LEMMA WholeType == \A f \in Frame \cup {NoFrame} : Whole(f) \in Message
  BY DEF Whole, Message

LEMMA InitType == Init => TypeOK
<1> SUFFICES ASSUME Init PROVE TypeOK OBVIOUS
<1>1. NoFrame \in Frame \cup {NoFrame} OBVIOUS
<1>2. Whole(NoFrame) \in Message BY <1>1, WholeType
<1>3. slots \in [0..(Capacity - 1) -> Slot] BY <1>1 DEF Init, Slot
<1>4. /\ write_index \in 0..(Modulus - 1) /\ read_index \in 0..(Modulus - 1)
      /\ write \in [Producers -> 0..(Modulus - 1)]
      /\ seen \in [Producers -> Nat]
  BY QueueAssumption DEF Init
<1>5. admitted \in Seq(Message) /\ delivered \in Seq(Message) BY DEF Init
<1> QED BY <1>2, <1>3, <1>4, <1>5, QueueAssumption DEF Init, TypeOK, ProducerStep, ConsumerStep

\* A step that fills the claimed slot keeps the slots' type.
LEMMA FillType ==
  ASSUME TypeOK, NEW p \in Producers, NEW newSlot \in Slot,
         NEW from \in ProducerStep, NEW to \in ProducerStep, FillSlot(p, from, to, newSlot)
  PROVE  TypeOK'
<1>1. SlotOf(write[p]) \in 0..(Capacity - 1) BY SlotType, ConstantTypes DEF TypeOK
<1>2. slots' \in [0..(Capacity - 1) -> Slot] BY <1>1 DEF FillSlot, TypeOK
<1>3. pc' \in [Producers -> ProducerStep] BY DEF FillSlot, TypeOK, Goto
<1> QED BY <1>2, <1>3 DEF FillSlot, TypeOK, consumerVars, reportVars

LEMMA StepType == TypeOK /\ [Next]_vars => TypeOK'
<1> SUFFICES ASSUME TypeOK, [Next]_vars PROVE TypeOK' OBVIOUS
<1> USE ConstantTypes
<1>1. ASSUME NEW p \in Producers, NEW size \in FrameSizes, Offer(p, size) PROVE TypeOK'
  <2>1. [id |-> offered + 1, size |-> size] \in Frame BY <1>1 DEF Offer, Frame, TypeOK
  <2>2. frame' \in [Producers -> Frame \cup {NoFrame}] BY <1>1, <2>1 DEF Offer, TypeOK
  <2>3. pc' \in [Producers -> ProducerStep] BY <1>1 DEF Offer, Goto, TypeOK, ProducerStep
  <2>4. offered' \in 0..MaxFrames BY <1>1 DEF Offer, TypeOK
  <2> QED BY <1>1, <2>2, <2>3, <2>4 DEF Offer, TypeOK, queueVars, consumerVars, reportVars
<1>2. ASSUME NEW p \in Producers, LoadWrite(p) \/ LosePosition(p) PROVE TypeOK'
  <2>1. Claimed \in Nat BY LenProperties DEF Claimed, TypeOK
  <2>2. ReadWriteIndex(p) /\ Goto(p, "check") BY <1>2 DEF LoadWrite, LosePosition
  <2>3. write' \in [Producers -> 0..(Modulus - 1)] BY <2>2 DEF ReadWriteIndex, TypeOK
  <2>4. seen' \in [Producers -> Nat] BY <2>1, <2>2 DEF ReadWriteIndex, TypeOK
  <2>5. pc' \in [Producers -> ProducerStep] BY <2>2 DEF Goto, TypeOK, ProducerStep
  <2> QED BY <1>2, <2>3, <2>4, <2>5 DEF LoadWrite, LosePosition, TypeOK,
          queueVars, consumerVars, reportVars
<1>3. ASSUME NEW p \in Producers, CheckFull(p) PROVE TypeOK'
  <2>1. pc' \in [Producers -> ProducerStep] BY <1>3 DEF CheckFull, Goto, TypeOK, ProducerStep
  <2> QED BY <1>3, <2>1 DEF CheckFull, TypeOK, queueVars, consumerVars, reportVars
<1>4. ASSUME NEW p \in Producers,
             CountDrop(p) \/ ReportFull(p) \/ NoteOversized(p) \/ ReportOversized(p)
      PROVE  TypeOK'
  <2>1. pc' \in [Producers -> ProducerStep]
    BY <1>4 DEF CountDrop, ReportFull, NoteOversized, ReportOversized, Goto, TypeOK, ProducerStep
  <2>2. dropped' \in {dropped, dropped + 1} /\ oversized' \in {oversized, oversized + 1}
    BY <1>4 DEF CountDrop, ReportFull, NoteOversized, ReportOversized
  <2>4. dropped' \in Nat /\ oversized' \in Nat BY <2>2 DEF TypeOK
  <2>3. report_full' \in {0, 1} /\ report_oversized' \in {0, 1}
    BY <1>4 DEF CountDrop, ReportFull, NoteOversized, ReportOversized, TypeOK
  <2> QED BY <1>4, <2>1, <2>3, <2>4
          DEF CountDrop, ReportFull, NoteOversized, ReportOversized, TypeOK, consumerVars, reportVars
<1>5. ASSUME NEW p \in Producers, ClaimPosition(p) PROVE TypeOK'
  <2>1. pc' \in [Producers -> ProducerStep] BY <1>5 DEF ClaimPosition, Goto, TypeOK, ProducerStep
  <2>2. write_index' \in 0..(Modulus - 1) BY <1>5, WrapType DEF ClaimPosition, TypeOK
  <2>3. Whole(frame[p]) \in Message BY WholeType DEF TypeOK
  <2>4. admitted' \in Seq(Message) BY <1>5, <2>3, AppendProperties DEF ClaimPosition, TypeOK
  <2> QED BY <1>5, <2>1, <2>2, <2>4 DEF ClaimPosition, TypeOK, consumerVars, reportVars
<1>6. ASSUME NEW p \in Producers, CopyKey(p) \/ CopyPayload(p) \/ Publish(p) PROVE TypeOK'
  <2>0. SlotOf(write[p]) \in 0..(Capacity - 1) BY SlotType DEF TypeOK
  <2>1. slots[SlotOf(write[p])] \in Slot /\ frame[p] \in Frame \cup {NoFrame}
    BY <2>0 DEF TypeOK
  <2>2. /\ [slots[SlotOf(write[p])] EXCEPT !.key = frame[p]] \in Slot
        /\ [slots[SlotOf(write[p])] EXCEPT !.payload = frame[p]] \in Slot
        /\ [slots[SlotOf(write[p])] EXCEPT !.published = 1] \in Slot
    BY <2>1 DEF Slot
  <2>3. {"idle", "copy_key", "copy_payload", "publish"} \subseteq ProducerStep BY DEF ProducerStep
  <2> QED BY <1>6, <2>2, <2>3, FillType DEF CopyKey, CopyPayload, Publish
<1>7. ASSUME NEW size \in BufferSizes, PollStart(size) PROVE TypeOK'
  BY <1>7 DEF PollStart, TypeOK, ConsumerStep, queueVars, producerVars, reportVars
<1>8. ASSUME TakeFull \/ TakeOversized PROVE TypeOK'
  <2>4. /\ full_reports' \in {full_reports, full_reports + report_full}
        /\ oversized_reports' \in {oversized_reports, oversized_reports + report_oversized}
    BY <1>8 DEF TakeFull, TakeOversized
  <2>5. /\ full_reports \in Nat /\ oversized_reports \in Nat
        /\ report_full \in {0, 1} /\ report_oversized \in {0, 1}
    BY DEF TypeOK
  <2>1. full_reports' \in Nat /\ oversized_reports' \in Nat BY <2>4, <2>5
  <2>3. told_full' \in Nat /\ told_oversized' \in Nat
    BY <1>8 DEF TakeFull, TakeOversized, Told, TypeOK
  <2>2. cpc' \in ConsumerStep BY <1>8 DEF TakeFull, TakeOversized, ConsumerStep
  <2> QED BY <1>8, <2>1, <2>2, <2>3 DEF TakeFull, TakeOversized, TypeOK, producerVars
<1>9. SlotOf(read_index) \in 0..(Capacity - 1) /\ HeadSlot \in Slot
  <2>1. read_index \in Int BY DEF TypeOK
  <2>2. SlotOf(read_index) \in 0..(Capacity - 1) BY <2>1, SlotType
  <2> QED BY <2>2 DEF TypeOK, HeadSlot
<1>10. ASSUME CheckHead \/ CopyOut PROVE TypeOK'
  <2>1. out' \in Message BY <1>10, <1>9 DEF CheckHead, CopyOut, Message, Slot, TypeOK
  <2>2. cpc' \in ConsumerStep BY <1>10 DEF CheckHead, CopyOut, ConsumerStep
  <2> QED BY <1>10, <2>1, <2>2 DEF CheckHead, CopyOut, TypeOK, queueVars, producerVars, reportVars
<1>11. ASSUME Unpublish PROVE TypeOK'
  <2>1. [slots[SlotOf(read_index)] EXCEPT !.published = 0] \in Slot BY <1>9 DEF HeadSlot, Slot
  <2>2. slots' \in [0..(Capacity - 1) -> Slot] BY <1>9, <1>11, <2>1 DEF Unpublish, TypeOK
  <2> QED BY <1>11, <2>2 DEF Unpublish, TypeOK, ConsumerStep, producerVars, reportVars
<1>12. ASSUME Advance PROVE TypeOK'
  <2>1. read_index' \in 0..(Modulus - 1) BY <1>12, WrapType DEF Advance, TypeOK
  <2>2. delivered' \in Seq(Message) BY <1>12, AppendProperties DEF Advance, TypeOK
  <2> QED BY <1>12, <2>1, <2>2 DEF Advance, TypeOK, ConsumerStep, producerVars, reportVars
<1>13. CASE UNCHANGED vars
  BY <1>13 DEF vars, queueVars, producerVars, consumerVars, reportVars, TypeOK
<1> QED BY <1>1, <1>2, <1>3, <1>4, <1>5, <1>6, <1>7, <1>8, <1>10, <1>11, <1>12, <1>13
        DEF Next, Admit, Poll

(* Every variable of the queue keeps its type: indices stay within the     *)
(* width of the integer, slots hold whole or partly written frames.        *)
THEOREM TypeCorrect == Spec => []TypeOK
  BY InitType, StepType, PTL DEF Spec
-------------------------------------------------------------------------------
(* Accounting.                                                             *)

\* How a producer's move between steps changes the count of producers at some steps.
LEMMA CountMove ==
  ASSUME TypeOK, NEW p \in Producers, NEW to \in ProducerStep, Goto(p, to), NEW steps
  PROVE  /\ At(steps) \in Nat /\ At(steps)' \in Nat
         /\ At(steps)' = At(steps) + (IF to \in steps THEN 1 ELSE 0)
                                   - (IF pc[p] \in steps THEN 1 ELSE 0)
<1> DEFINE before == {q \in Producers : pc[q] \in steps}
           after == {q \in Producers : pc'[q] \in steps}
           rest == {q \in Producers \ {p} : pc[q] \in steps}
<1>1. IsFiniteSet(Producers) BY QueueAssumption
<1>2. rest \subseteq Producers /\ p \notin rest OBVIOUS
<1>3. IsFiniteSet(rest) BY <1>1, <1>2, FS_Subset
<1>4. Cardinality(rest) \in Nat BY <1>3, FS_CardinalityType
<1>5. Cardinality(rest \cup {p}) = Cardinality(rest) + 1 BY <1>2, <1>3, FS_AddElement
<1>6. before = IF pc[p] \in steps THEN rest \cup {p} ELSE rest OBVIOUS
<1>7. after = IF to \in steps THEN rest \cup {p} ELSE rest BY DEF Goto, TypeOK
<1>8. At(steps) = Cardinality(before) /\ At(steps)' = Cardinality(after) BY DEF At
<1> HIDE DEF before, after, rest
<1> QED BY <1>4, <1>5, <1>6, <1>7, <1>8

\* A step that moves no producer changes no count.
LEMMA CountStays ==
  ASSUME UNCHANGED pc, NEW steps
  PROVE  At(steps)' = At(steps)
  BY DEF At

\* At the start no producer is at a step other than idle.
LEMMA CountInit ==
  ASSUME Init, NEW steps, "idle" \notin steps
  PROVE  At(steps) = 0
<1>1. {p \in Producers : pc[p] \in steps} = {} BY DEF Init
<1> QED BY <1>1, FS_EmptySet DEF At

LEMMA CountType == \A steps : At(steps) \in Nat
<1> SUFFICES ASSUME NEW steps PROVE At(steps) \in Nat OBVIOUS
<1>1. IsFiniteSet({p \in Producers : pc[p] \in steps}) BY QueueAssumption, FS_Subset
<1> QED BY <1>1, FS_CardinalityType DEF At

\* The steps at which a frame is neither queued nor counted yet.
Undecided == {"load", "check", "drop", "cas", "note"}

LEMMA StepAccounted == TypeOK /\ FramesAccounted /\ [Next]_vars => FramesAccounted'
<1> SUFFICES ASSUME TypeOK, FramesAccounted, [Next]_vars PROVE FramesAccounted' OBVIOUS
<1> USE DEF Undecided
<1>1. /\ offered \in Nat /\ dropped \in Nat /\ oversized \in Nat /\ Len(admitted) \in Nat
      /\ At(Undecided) \in Nat
  BY ConstantTypes, CountType, LenProperties DEF TypeOK
<1>2. offered = Len(admitted) + dropped + oversized + At(Undecided) BY DEF FramesAccounted
<1>3. SUFFICES offered' = Len(admitted') + dropped' + oversized' + At(Undecided)'
  BY DEF FramesAccounted
<1>4. ASSUME NEW p \in Producers, NEW size \in FrameSizes, Offer(p, size)
      PROVE  offered' = Len(admitted') + dropped' + oversized' + At(Undecided)'
  <2>1. PICK to \in {"note", "load"} : Goto(p, to) BY <1>4 DEF Offer
  <2>2. At(Undecided)' = At(Undecided) + 1
    BY <2>1, <1>4, CountMove DEF Offer, ProducerStep
  <2> QED BY <1>1, <1>2, <1>4, <2>2 DEF Offer, queueVars
<1>5. ASSUME NEW p \in Producers,
             LoadWrite(p) \/ CheckFull(p) \/ LosePosition(p)
      PROVE  offered' = Len(admitted') + dropped' + oversized' + At(Undecided)'
  <2>1. PICK to \in {"check", "drop", "cas"} : Goto(p, to)
    BY <1>5 DEF LoadWrite, CheckFull, LosePosition
  <2>2. pc[p] \in Undecided BY <1>5 DEF LoadWrite, CheckFull, LosePosition
  <2>3. At(Undecided)' = At(Undecided) BY <1>1, <2>1, <2>2, CountMove DEF ProducerStep
  <2> QED BY <1>2, <1>5, <2>3 DEF LoadWrite, CheckFull, LosePosition, queueVars
<1>6. ASSUME NEW p \in Producers, CountDrop(p) \/ NoteOversized(p) \/ ClaimPosition(p)
      PROVE  offered' = Len(admitted') + dropped' + oversized' + At(Undecided)'
  <2>1. PICK to \in {"report_full", "report_oversized", "copy_key"} : Goto(p, to)
    BY <1>6 DEF CountDrop, NoteOversized, ClaimPosition
  <2>2. pc[p] \in Undecided BY <1>6 DEF CountDrop, NoteOversized, ClaimPosition
  <2>3. At(Undecided)' = At(Undecided) - 1 BY <1>1, <2>1, <2>2, CountMove DEF ProducerStep
  <2>4. Len(Append(admitted, Whole(frame[p]))) = Len(admitted) + 1
    BY WholeType, AppendProperties DEF TypeOK
  <2>5. Len(admitted') + dropped' + oversized' = Len(admitted) + dropped + oversized + 1
    <3>1. CASE CountDrop(p) BY <1>1, <3>1 DEF CountDrop
    <3>2. CASE NoteOversized(p) BY <1>1, <3>2 DEF NoteOversized
    <3>3. CASE ClaimPosition(p) BY <1>1, <2>4, <3>3 DEF ClaimPosition
    <3> QED BY <1>6, <3>1, <3>2, <3>3
  <2>6. offered' = offered BY <1>6 DEF CountDrop, NoteOversized, ClaimPosition
  <2>7. At(Undecided)' \in Int BY <1>1, <2>3
  <2> QED BY <1>1, <1>2, <2>3, <2>5, <2>6, <2>7
<1>7. ASSUME NEW p \in Producers,
             ReportFull(p) \/ ReportOversized(p) \/ CopyKey(p) \/ CopyPayload(p) \/ Publish(p)
      PROVE  offered' = Len(admitted') + dropped' + oversized' + At(Undecided)'
  <2>1. PICK to \in {"idle", "copy_payload", "publish"} : Goto(p, to)
    BY <1>7 DEF ReportFull, ReportOversized, CopyKey, CopyPayload, Publish, FillSlot
  <2>2. pc[p] \notin Undecided
    BY <1>7 DEF ReportFull, ReportOversized, CopyKey, CopyPayload, Publish, FillSlot
  <2>3. At(Undecided)' = At(Undecided) BY <1>1, <2>1, <2>2, CountMove DEF ProducerStep
  <2> QED BY <1>2, <1>7, <2>3 DEF ReportFull, ReportOversized, CopyKey, CopyPayload, Publish, FillSlot
<1>8. ASSUME UNCHANGED producerVars, UNCHANGED <<dropped, oversized>>
      PROVE  offered' = Len(admitted') + dropped' + oversized' + At(Undecided)'
  BY <1>2, <1>8, CountStays DEF producerVars
<1>9. ASSUME Poll PROVE UNCHANGED producerVars /\ UNCHANGED <<dropped, oversized>>
  BY <1>9 DEF Poll, PollStart, TakeFull, TakeOversized, CheckHead, CopyOut, Unpublish, Advance, queueVars
<1>10. CASE UNCHANGED vars BY <1>8, <1>10 DEF vars, queueVars
<1> QED BY <1>4, <1>5, <1>6, <1>7, <1>8, <1>9, <1>10 DEF Next, Admit

(* Every frame offered to a callback is queued, delivered, a counted drop, *)
(* a counted oversized frame or still being decided, whatever the number   *)
(* of callbacks that race in zenoh_pico_queue_admit.                       *)
THEOREM AlwaysAccounted == Spec => []FramesAccounted
<1>1. Init => FramesAccounted
  <2> SUFFICES ASSUME Init PROVE FramesAccounted OBVIOUS
  <2>1. At({"load", "check", "drop", "cas", "note"}) = 0 BY CountInit
  <2> QED BY <2>1 DEF Init, FramesAccounted
<1> QED BY <1>1, TypeCorrect, StepAccounted, PTL DEF Spec

LEMMA StepReports == TypeOK /\ ReportsBacked /\ [Next]_vars => ReportsBacked'
<1> SUFFICES ASSUME TypeOK, ReportsBacked, [Next]_vars PROVE ReportsBacked' OBVIOUS
<1> DEFINE F == At({"report_full"})
           O == At({"report_oversized"})
<1>1. /\ F \in Nat /\ O \in Nat /\ dropped \in Nat /\ oversized \in Nat
      /\ full_reports \in Nat /\ oversized_reports \in Nat
      /\ told_full \in Nat /\ told_oversized \in Nat
      /\ report_full \in {0, 1} /\ report_oversized \in {0, 1}
  BY CountType DEF TypeOK
<1>2. F' \in Nat /\ O' \in Nat
  <2>1. /\ IsFiniteSet({p \in Producers : pc'[p] \in {"report_full"}})
        /\ IsFiniteSet({p \in Producers : pc'[p] \in {"report_oversized"}})
    BY QueueAssumption, FS_Subset
  <2> QED BY <2>1, FS_CardinalityType DEF At
<1>3. /\ full_reports + report_full + F <= dropped
      /\ dropped > told_full => report_full = 1 \/ F > 0
      /\ oversized_reports + report_oversized + O <= oversized
      /\ oversized > told_oversized => report_oversized = 1 \/ O > 0
  BY DEF ReportsBacked
<1>4. /\ full_reports' + report_full' + F' <= dropped'
      /\ dropped' > told_full' => report_full' = 1 \/ F' > 0
      /\ oversized_reports' + report_oversized' + O' <= oversized'
      /\ oversized' > told_oversized' => report_oversized' = 1 \/ O' > 0
      => ReportsBacked'
  BY DEF ReportsBacked
<1>5. ASSUME NEW p \in Producers, NEW to \in ProducerStep, Goto(p, to)
      PROVE  /\ F' = F + (IF to = "report_full" THEN 1 ELSE 0)
                        - (IF pc[p] = "report_full" THEN 1 ELSE 0)
             /\ O' = O + (IF to = "report_oversized" THEN 1 ELSE 0)
                        - (IF pc[p] = "report_oversized" THEN 1 ELSE 0)
  BY <1>5, CountMove
<1>6. ASSUME UNCHANGED pc PROVE F' = F /\ O' = O BY <1>6, CountStays
<1> HIDE DEF F, O
<1> DEFINE Same == UNCHANGED <<full_reports, oversized_reports, told_full, told_oversized,
                              dropped, oversized, report_full, report_oversized>>
<1>7. ASSUME NEW p \in Producers, CountDrop(p) PROVE ReportsBacked'
  <2>1. F' = F + 1 /\ O' = O BY <1>1, <1>5, <1>7 DEF CountDrop, ProducerStep
  <2>2. dropped' = dropped + 1
        /\ UNCHANGED <<full_reports, oversized_reports, told_full, told_oversized, oversized, report_full, report_oversized>>
    BY <1>7 DEF CountDrop, consumerVars, reportVars
  <2> QED BY <1>1, <1>3, <1>4, <2>1, <2>2
<1>8. ASSUME NEW p \in Producers, NoteOversized(p) PROVE ReportsBacked'
  <2>1. F' = F /\ O' = O + 1 BY <1>1, <1>5, <1>8 DEF NoteOversized, ProducerStep
  <2>2. oversized' = oversized + 1
        /\ UNCHANGED <<full_reports, oversized_reports, told_full, told_oversized, dropped, report_full, report_oversized>>
    BY <1>8 DEF NoteOversized, consumerVars, reportVars
  <2> QED BY <1>1, <1>3, <1>4, <2>1, <2>2
<1>9. ASSUME NEW p \in Producers, ReportFull(p) PROVE ReportsBacked'
  <2>1. F' = F - 1 /\ O' = O BY <1>1, <1>5, <1>9 DEF ReportFull, ProducerStep
  <2>2. report_full' = 1
        /\ UNCHANGED <<full_reports, oversized_reports, told_full, told_oversized, dropped, oversized, report_oversized>>
    BY <1>9 DEF ReportFull, consumerVars, reportVars
  <2> QED BY <1>1, <1>2, <1>3, <1>4, <2>1, <2>2
<1>10. ASSUME NEW p \in Producers, ReportOversized(p) PROVE ReportsBacked'
  <2>1. F' = F /\ O' = O - 1 BY <1>1, <1>5, <1>10 DEF ReportOversized, ProducerStep
  <2>2. report_oversized' = 1
        /\ UNCHANGED <<full_reports, oversized_reports, told_full, told_oversized, dropped, oversized, report_full>>
    BY <1>10 DEF ReportOversized, consumerVars, reportVars
  <2> QED BY <1>1, <1>2, <1>3, <1>4, <2>1, <2>2
<1>11. ASSUME NEW p \in Producers,
              \/ \E size \in FrameSizes : Offer(p, size)
              \/ LoadWrite(p) \/ CheckFull(p) \/ LosePosition(p) \/ ClaimPosition(p)
              \/ CopyKey(p) \/ CopyPayload(p) \/ Publish(p)
       PROVE  ReportsBacked'
  <2>1. PICK to \in ProducerStep \ {"report_full", "report_oversized"} : Goto(p, to)
    BY <1>11 DEF Offer, LoadWrite, CheckFull, LosePosition, ClaimPosition,
                 CopyKey, CopyPayload, Publish, FillSlot, ProducerStep
  <2>2. pc[p] \notin {"report_full", "report_oversized"}
    BY <1>11 DEF Offer, LoadWrite, CheckFull, LosePosition, ClaimPosition,
                 CopyKey, CopyPayload, Publish, FillSlot
  <2>3. F' = F /\ O' = O BY <1>1, <1>5, <2>1, <2>2
  <2>4. Same
    BY <1>11 DEF Offer, LoadWrite, CheckFull, LosePosition, ClaimPosition,
                 CopyKey, CopyPayload, Publish, FillSlot, queueVars, consumerVars, reportVars
  <2> QED BY <1>3, <1>4, <2>3, <2>4
<1>12. CASE TakeFull
  <2>1. F' = F /\ O' = O BY <1>6, <1>12 DEF TakeFull, producerVars
  <2>2. /\ full_reports' + report_full' = full_reports + report_full
        /\ UNCHANGED <<oversized_reports, told_oversized, dropped, oversized, report_oversized>>
        /\ IF report_full = 1 THEN told_full' = dropped
                              ELSE UNCHANGED <<told_full, report_full>>
    BY <1>1, <1>12 DEF TakeFull, Told
  <2> QED BY <1>1, <1>3, <1>4, <2>1, <2>2
<1>13. CASE TakeOversized
  <2>1. F' = F /\ O' = O BY <1>6, <1>13 DEF TakeOversized, producerVars
  <2>2. /\ oversized_reports' + report_oversized' = oversized_reports + report_oversized
        /\ UNCHANGED <<full_reports, told_full, dropped, oversized, report_full>>
        /\ IF report_oversized = 1 THEN told_oversized' = oversized
                                   ELSE UNCHANGED <<told_oversized, report_oversized>>
    BY <1>1, <1>13 DEF TakeOversized, Told
  <2> QED BY <1>1, <1>3, <1>4, <2>1, <2>2
<1>14. ASSUME \/ \E size \in BufferSizes : PollStart(size)
              \/ CheckHead \/ CopyOut \/ Unpublish \/ Advance \/ UNCHANGED vars
       PROVE  ReportsBacked'
  <2>1. Same /\ UNCHANGED pc
    BY <1>14 DEF PollStart, CheckHead, CopyOut, Unpublish, Advance, vars, queueVars,
                 producerVars, consumerVars, reportVars
  <2> QED BY <1>3, <1>4, <1>6, <2>1
<1> QED BY <1>7, <1>8, <1>9, <1>10, <1>11, <1>12, <1>13, <1>14 DEF Next, Admit, Poll

(* No loss stays untold and none is made up: every frame dropped (or       *)
(* oversized) since the poll that last returned the notification is still  *)
(* pending, and poll never reports more often than frames were lost,       *)
(* however many callbacks set the flags while poll takes them.             *)
THEOREM AlwaysReported == Spec => []ReportsBacked
<1>1. Init => ReportsBacked
  <2> SUFFICES ASSUME Init PROVE ReportsBacked OBVIOUS
  <2>1. At({"report_full"}) = 0 /\ At({"report_oversized"}) = 0 BY CountInit
  <2> QED BY <2>1 DEF Init, ReportsBacked
<1> QED BY <1>1, TypeCorrect, StepReports, PTL DEF Spec

-------------------------------------------------------------------------------
(* The inductive invariant.  A position is an unwrapped index: Consumed to *)
(* Claimed - 1 are queued, and Claimed to Consumed + Capacity - 1 are the  *)
(* free ones.  Position n lives in slot SlotOf(n).                         *)

Entry(sequence, n) == sequence[n - StartIndex + 1]
Loaded(p) == pc[p] \in {"check", "cas", "copy_key", "copy_payload", "publish"}

\* The indices are the wrapped positions, and the window never exceeds the capacity.
WindowInv ==
  /\ write_index = Wrap(Claimed) /\ read_index = Wrap(Consumed)
  /\ Consumed <= Claimed /\ Claimed <= Consumed + Capacity

\* What a producer's local write index stands for; a filling producer owns a queued position.
ProducerInv ==
  /\ \A p \in Producers :
       /\ Loaded(p) => /\ write[p] = Wrap(seen[p])
                       /\ StartIndex <= seen[p] /\ seen[p] <= Claimed
       /\ pc[p] = "cas" => seen[p] < Consumed + Capacity
       /\ Filling(p) => /\ Consumed <= seen[p] /\ seen[p] < Claimed
                        /\ Entry(admitted, seen[p]) = Whole(frame[p])
  /\ \A p, q \in Producers : Filling(p) /\ Filling(q) /\ seen[p] = seen[q] => p = q

\* A published slot of the window holds its whole entry and belongs to no producer;
\* a free slot is unpublished; a filling producer has written what its step says.
SlotInv ==
  /\ \A n \in Consumed..(Claimed - 1) :
       slots[SlotOf(n)].published = 1 =>
         /\ slots[SlotOf(n)].key = Entry(admitted, n).key /\ slots[SlotOf(n)].payload = Entry(admitted, n).payload
         /\ \A p \in Producers : Filling(p) => seen[p] # n
  /\ \A n \in Claimed..(Consumed + Capacity - 1) : slots[SlotOf(n)].published = 0
  /\ \A p \in Producers :
       /\ pc[p] \in {"copy_payload", "publish"} => slots[SlotOf(seen[p])].key = frame[p]
       /\ pc[p] = "publish" => slots[SlotOf(seen[p])].payload = frame[p]

\* The consumer reads the head position, which no producer is filling.
ConsumerInv ==
  /\ cpc \in {"head", "copy_out", "unpublish", "advance"} => Consumed < Claimed
  /\ cpc \in {"copy_out", "unpublish"} => slots[SlotOf(Consumed)].published = 1
  /\ cpc = "copy_out" => out.key = Entry(admitted, Consumed).key
  /\ cpc \in {"unpublish", "advance"} => out = Entry(admitted, Consumed)
  /\ cpc = "advance" => slots[SlotOf(Consumed)].published = 0
  /\ Reading => \A p \in Producers : Filling(p) => seen[p] # Consumed

PrefixInv == \A i \in 1..Len(delivered) : delivered[i] = admitted[i]

IInv == WindowInv /\ ProducerInv /\ SlotInv /\ ConsumerInv /\ PrefixInv

\* Facts about wrapped positions, with the arithmetic of % used up here.
LEMMA WrapSucc == \A n \in Nat : Wrap(Wrap(n) + 1) = Wrap(n + 1)
<1> SUFFICES ASSUME NEW n \in Nat PROVE Wrap(Wrap(n) + 1) = Wrap(n + 1) OBVIOUS
<1>1. Modulus \in Nat \ {0} /\ n \in Int /\ 1 \in Int BY ConstantTypes
<1>2. ((n % Modulus) + 1) % Modulus = (n + 1) % Modulus BY <1>1, ModAdd, Zenon
<1> QED BY <1>2 DEF Wrap

LEMMA WrapEqual ==
  ASSUME NEW a \in Nat, NEW b \in Nat, a < b + Modulus, b < a + Modulus, Wrap(a) = Wrap(b)
  PROVE  a = b
<1>1. Modulus \in Nat \ {0} /\ a \in Int /\ b \in Int BY ConstantTypes
<1>2. a % Modulus = b % Modulus BY DEF Wrap
<1> QED BY <1>1, <1>2, ModUnique, Zenon

LEMMA WrapDifference ==
  ASSUME NEW a \in Nat, NEW b \in Nat
  PROVE  Wrap(Wrap(a) - Wrap(b)) = Wrap(a - b)
<1>1. Modulus \in Nat \ {0} BY ConstantTypes
<1>2. a % Modulus \in Int /\ b % Modulus \in Int BY <1>1, ModRange
<1>4. a \in Int /\ b \in Int /\ -b \in Int OBVIOUS
<1>3. ((a % Modulus) - (b % Modulus)) % Modulus = ((a % Modulus) - b) % Modulus
  BY <1>1, <1>2, <1>4, ModSub, Zenon
<1>5. ((a % Modulus) + (-b)) % Modulus = (a + (-b)) % Modulus BY <1>1, <1>4, ModAdd, Zenon
<1>6. (a % Modulus) + (-b) = (a % Modulus) - b /\ a + (-b) = a - b BY <1>2
<1> QED BY <1>3, <1>5, <1>6 DEF Wrap

\* The full test on positions at most MaxFrames apart: exact when the write
\* position is not behind, and "full" when it is.
LEMMA FullTest ==
  ASSUME NEW a \in Nat, NEW b \in Nat, a <= b + MaxFrames, b <= a + MaxFrames
  PROVE  Wrap(Wrap(a) - Wrap(b)) < Capacity => b <= a /\ a < b + Capacity
<1> USE ConstantTypes
<1>1. Wrap(Wrap(a) - Wrap(b)) = Wrap(a - b) BY WrapDifference
<1>2. CASE b <= a
  <2>1. a - b \in 0..(Modulus - 1) BY <1>2
  <2>2. Wrap(a - b) = a - b BY <2>1, ModSmall DEF Wrap
  <2> QED BY <1>1, <1>2, <2>2
<1>3. CASE a < b
  <2> DEFINE d == a - b
  <2>1. d \in Int /\ d + Modulus \in 0..(Modulus - 1) /\ d + Modulus >= Capacity BY <1>3
  <2> HIDE DEF d
  <2>2. (d + Modulus * 1) % Modulus = d % Modulus
    <3>1. Modulus \in Nat \ {0} /\ 1 \in Int OBVIOUS
    <3> QED BY <2>1, <3>1, ModShift, Zenon
  <2>3. d + Modulus * 1 = d + Modulus BY <2>1
  <2>4. (d + Modulus) % Modulus = d + Modulus BY <2>1, ModSmall
  <2>5. Wrap(a - b) = d + Modulus BY <2>2, <2>3, <2>4 DEF Wrap, d
  <2>6. ~(d + Modulus < Capacity) BY <2>1
  <2> QED BY <1>1, <2>5, <2>6
<1> QED BY <1>2, <1>3

LEMMA SlotWrap == \A n \in Nat : SlotOf(Wrap(n)) = SlotOf(n)
<1> SUFFICES ASSUME NEW n \in Nat PROVE SlotOf(Wrap(n)) = SlotOf(n) OBVIOUS
<1>1. Modulus \in Nat \ {0} /\ Capacity \in Nat \ {0} /\ Modulus % Capacity = 0 BY QueueAssumption
<1>2. n \in Int OBVIOUS
<1>3. (n % Modulus) % Capacity = n % Capacity BY <1>1, <1>2, ModNested, Zenon
<1> QED BY <1>3 DEF SlotOf, Wrap

LEMMA SlotInjective ==
  ASSUME NEW a \in Nat, NEW b \in Nat, a < b + Capacity, b < a + Capacity, SlotOf(a) = SlotOf(b)
  PROVE  a = b
<1>1. Capacity \in Nat \ {0} /\ a \in Int /\ b \in Int BY ConstantTypes
<1>2. a % Capacity = b % Capacity BY DEF SlotOf
<1> QED BY <1>1, <1>2, ModUnique, Zenon

LEMMA SlotPeriod == \A n \in Nat : SlotOf(n + Capacity) = SlotOf(n)
<1> SUFFICES ASSUME NEW n \in Nat PROVE SlotOf(n + Capacity) = SlotOf(n) OBVIOUS
<1>1. Capacity \in Nat \ {0} /\ n \in Int /\ 1 \in Int BY ConstantTypes
<1>2. (n + Capacity * 1) % Capacity = n % Capacity BY <1>1, ModShift, Zenon
<1>3. Capacity * 1 = Capacity BY <1>1
<1> QED BY <1>2, <1>3 DEF SlotOf

\* Positions are naturals, and no more than MaxFrames of them are ever claimed.
LEMMA Positions ==
  ASSUME TypeOK, FramesAccounted
  PROVE  /\ Claimed \in Nat /\ Consumed \in Nat /\ StartIndex \in Nat
         /\ StartIndex <= Consumed /\ StartIndex <= Claimed /\ Claimed <= StartIndex + MaxFrames
         /\ Len(admitted) \in Nat /\ Len(delivered) \in Nat
         /\ Claimed = StartIndex + Len(admitted) /\ Consumed = StartIndex + Len(delivered)
<1>1. Len(admitted) \in Nat /\ Len(delivered) \in Nat BY LenProperties DEF TypeOK
<1>2. At({"load", "check", "drop", "cas", "note"}) \in Nat BY CountType
<1>3. Len(admitted) <= MaxFrames BY <1>1, <1>2, ConstantTypes DEF FramesAccounted, TypeOK
<1> QED BY <1>1, <1>3, ConstantTypes DEF Claimed, Consumed

-------------------------------------------------------------------------------
(* The invariant is preserved.                                             *)

LEMMA InitInv == Init => IInv
<1> SUFFICES ASSUME Init PROVE IInv OBVIOUS
<1>1. Len(admitted) = 0 /\ Len(delivered) = 0 /\ admitted = <<>> /\ delivered = <<>> BY DEF Init
<1>2. Claimed = StartIndex /\ Consumed = StartIndex /\ StartIndex \in Nat
  BY <1>1, ConstantTypes DEF Claimed, Consumed
<1>3. StartIndex = Wrap(StartIndex) BY ConstantTypes, ModSmall DEF Wrap
<1>4. WindowInv BY <1>2, <1>3, ConstantTypes DEF WindowInv, Init
<1>5. ProducerInv BY DEF ProducerInv, Init, Loaded, Filling
<1>6. SlotInv
  <2>1. \A n \in Nat : slots[SlotOf(n)].published = 0 BY SlotType DEF Init
  <2>2. \A p \in Producers : pc[p] = "idle" BY DEF Init
  <2> QED BY <1>2, <2>1, <2>2, ConstantTypes DEF SlotInv
<1>7. ConsumerInv BY DEF ConsumerInv, Init, Reading
<1>8. PrefixInv BY <1>1 DEF PrefixInv
<1> QED BY <1>4, <1>5, <1>6, <1>7, <1>8 DEF IInv

\* A producer's step outside the queue's positions and slots.
LEMMA QuietStep ==
  ASSUME TypeOK, IInv, NEW p \in Producers,
         UNCHANGED <<write_index, read_index, slots, admitted, delivered, cpc, out>>,
         \A q \in Producers : q # p =>
           pc'[q] = pc[q] /\ write'[q] = write[q] /\ seen'[q] = seen[q] /\ frame'[q] = frame[q],
         pc'[p] \notin {"copy_key", "copy_payload", "publish"},
         pc'[p] \in {"check", "cas"} =>
           write'[p] = Wrap(seen'[p]) /\ StartIndex <= seen'[p] /\ seen'[p] <= Claimed,
         pc'[p] = "cas" => seen'[p] < Consumed + Capacity
  PROVE  IInv'
<1>1. Claimed' = Claimed /\ Consumed' = Consumed BY DEF Claimed, Consumed
<1>2. \A n : Entry(admitted', n) = Entry(admitted, n) OBVIOUS
<1>3. \A q \in Producers : Filling(q)' => Filling(q) /\ q # p BY DEF Filling
<1>4. WindowInv' BY <1>1 DEF IInv, WindowInv
<1>5. ProducerInv'
  <2>1. \A q \in Producers : q # p => (Loaded(q)' <=> Loaded(q)) BY DEF Loaded
  <2>2. Loaded(p)' => pc'[p] \in {"check", "cas"} BY DEF Loaded
  <2> QED BY <1>1, <1>2, <1>3, <2>1, <2>2 DEF IInv, ProducerInv
<1>6. SlotInv' BY <1>1, <1>2, <1>3 DEF IInv, SlotInv
<1>7. ConsumerInv' BY <1>1, <1>2, <1>3 DEF IInv, ConsumerInv, Reading
<1>8. PrefixInv' BY DEF IInv, PrefixInv
<1> QED BY <1>4, <1>5, <1>6, <1>7, <1>8 DEF IInv

\* Claiming the next position: the slot it gets is free.
LEMMA ClaimStep ==
  ASSUME TypeOK, FramesAccounted, IInv, NEW p \in Producers, ClaimPosition(p)
  PROVE  IInv'
<1> USE ConstantTypes
<1>1. /\ Claimed \in Nat /\ Consumed \in Nat /\ StartIndex \in Nat
      /\ StartIndex <= Consumed /\ StartIndex <= Claimed /\ Claimed <= StartIndex + MaxFrames
      /\ Len(admitted) \in Nat /\ Len(delivered) \in Nat
      /\ Claimed = StartIndex + Len(admitted) /\ Consumed = StartIndex + Len(delivered)
  BY Positions
<1>2. seen[p] \in Nat /\ StartIndex <= seen[p] /\ seen[p] <= Claimed /\ write[p] = Wrap(seen[p])
      /\ seen[p] < Consumed + Capacity /\ write_index = Wrap(Claimed) /\ write_index = write[p]
      /\ Consumed <= Claimed /\ read_index = Wrap(Consumed)
  BY DEF ClaimPosition, IInv, WindowInv, ProducerInv, Loaded, TypeOK
<1>3. seen[p] = Claimed
  <2>1. seen[p] < Claimed + Modulus /\ Claimed < seen[p] + Modulus BY <1>1, <1>2
  <2>2. Wrap(seen[p]) = Wrap(Claimed) BY <1>2
  <2> QED BY <1>1, <1>2, <2>1, <2>2, WrapEqual
<1>4. /\ Len(admitted') = Len(admitted) + 1
      /\ \A i \in 1..Len(admitted) : admitted'[i] = admitted[i]
      /\ admitted'[Len(admitted) + 1] = Whole(frame[p])
  BY WholeType, AppendProperties DEF ClaimPosition, TypeOK
<1>5. Claimed' = Claimed + 1 /\ Consumed' = Consumed
  BY <1>1, <1>4 DEF ClaimPosition, Claimed, Consumed, consumerVars, reportVars
<1>6. /\ \A n \in StartIndex..(Claimed - 1) : Entry(admitted', n) = Entry(admitted, n)
      /\ Entry(admitted', Claimed) = Whole(frame[p])
  <2>1. \A n \in StartIndex..(Claimed - 1) : n - StartIndex + 1 \in 1..Len(admitted) BY <1>1
  <2>2. Claimed - StartIndex + 1 = Len(admitted) + 1 BY <1>1
  <2> QED BY <1>1, <1>4, <2>1, <2>2 DEF Entry
<1>7. /\ \A q \in Producers : q # p => pc'[q] = pc[q]
      /\ pc'[p] = "copy_key" /\ pc[p] = "cas"
      /\ UNCHANGED <<read_index, slots, frame, write, seen, delivered, cpc, out>>
  BY DEF ClaimPosition, Goto, TypeOK, consumerVars, reportVars
<1>8. \A q \in Producers : /\ q # p => (Filling(q)' <=> Filling(q)) /\ (Loaded(q)' <=> Loaded(q))
                           /\ Filling(q) => seen[q] \in Consumed..(Claimed - 1)
  <2>1. \A q \in Producers : q # p => (Filling(q)' <=> Filling(q)) /\ (Loaded(q)' <=> Loaded(q))
    BY <1>7 DEF Filling, Loaded
  <2>2. \A q \in Producers : seen[q] \in Nat BY DEF TypeOK
  <2>3. \A q \in Producers : Filling(q) => Consumed <= seen[q] /\ seen[q] < Claimed
    BY DEF IInv, ProducerInv
  <2>4. \A q \in Producers : Filling(q) => seen[q] \in Consumed..(Claimed - 1)
    BY <1>1, <2>2, <2>3
  <2> QED BY <2>1, <2>4
<1>9. WindowInv'
  <2>1. write_index' = Wrap(Claimed + 1) BY <1>1, <1>2, WrapSucc DEF ClaimPosition
  <2>2. Consumed <= Claimed + 1 /\ Claimed + 1 <= Consumed + Capacity BY <1>1, <1>2, <1>3
  <2>3. read_index' = Wrap(Consumed) BY <1>2, <1>7
  <2> QED BY <1>5, <2>1, <2>2, <2>3 DEF WindowInv
<1>10. ProducerInv'
  <2>1. ASSUME NEW q \in Producers, q # p
        PROVE  /\ Loaded(q)' => /\ write'[q] = Wrap(seen'[q])
                                /\ StartIndex <= seen'[q] /\ seen'[q] <= Claimed'
               /\ pc'[q] = "cas" => seen'[q] < Consumed' + Capacity
               /\ Filling(q)' => /\ Consumed' <= seen'[q] /\ seen'[q] < Claimed'
                                 /\ Entry(admitted', seen'[q]) = Whole(frame'[q])
    <3>1. seen[q] \in Nat BY DEF TypeOK
    <3>2. Filling(q) => Entry(admitted', seen[q]) = Whole(frame[q])
      BY <1>1, <1>6, <1>8 DEF IInv, ProducerInv
    <3>3. /\ Loaded(q) => write[q] = Wrap(seen[q]) /\ StartIndex <= seen[q] /\ seen[q] <= Claimed
          /\ pc[q] = "cas" => seen[q] < Consumed + Capacity
          /\ Filling(q) => Consumed <= seen[q] /\ seen[q] < Claimed
      BY DEF IInv, ProducerInv
    <3>5. Claimed \in Nat /\ Claimed' = Claimed + 1 BY <1>1, <1>5
    <3>4. /\ seen[q] <= Claimed => seen[q] <= Claimed'
          /\ seen[q] < Claimed => seen[q] < Claimed'
      BY <3>1, <3>5
    <3> QED BY <1>5, <1>7, <1>8, <2>1, <3>2, <3>3, <3>4
  <2>2. /\ write'[p] = Wrap(seen'[p]) /\ StartIndex <= seen'[p] /\ seen'[p] <= Claimed'
        /\ Consumed' <= seen'[p] /\ seen'[p] < Claimed'
    <3>1. seen'[p] = Claimed /\ write'[p] = Wrap(seen'[p]) BY <1>2, <1>3, <1>7
    <3>2. Claimed \in Nat /\ Claimed' = Claimed + 1 BY <1>1, <1>5
    <3>3. Claimed < Claimed' /\ Claimed <= Claimed' BY <3>2
    <3>4. StartIndex <= Claimed /\ Consumed <= Claimed BY <1>1, <1>2
    <3> QED BY <1>5, <3>1, <3>3, <3>4
  <2>3. Entry(admitted', seen'[p]) = Whole(frame'[p]) BY <1>3, <1>6, <1>7
  <2>4. ASSUME NEW q \in Producers, NEW r \in Producers, Filling(q)', Filling(r)', seen'[q] = seen'[r]
        PROVE  q = r
    <3>1. CASE q # p /\ r # p BY <1>7, <1>8, <2>4, <3>1 DEF IInv, ProducerInv
    <3>2. \A s \in Producers : s # p /\ Filling(s)' => seen[s] # seen[p] BY <1>1, <1>3, <1>8
    <3> QED BY <1>7, <2>4, <3>1, <3>2
  <2>5. pc'[p] # "cas" BY <1>7
  <2> QED BY <2>1, <2>2, <2>3, <2>4, <2>5 DEF ProducerInv
<1>11. SlotInv'
  <2>1. slots[SlotOf(Claimed)].published = 0 BY <1>1, <1>2, <1>3 DEF IInv, SlotInv
  <2>2. ASSUME NEW n \in Consumed'..(Claimed' - 1), slots'[SlotOf(n)].published = 1
        PROVE  /\ slots'[SlotOf(n)].key = Entry(admitted', n).key /\ slots'[SlotOf(n)].payload = Entry(admitted', n).payload
               /\ \A q \in Producers : Filling(q)' => seen'[q] # n
    <3>1. n # Claimed BY <1>7, <2>1, <2>2
    <3>2. n \in Consumed..(Claimed - 1) /\ n \in StartIndex..(Claimed - 1) BY <1>1, <1>5, <3>1
    <3> QED BY <1>3, <1>6, <1>7, <1>8, <2>2, <3>1, <3>2 DEF IInv, SlotInv
  <2>3. ASSUME NEW n \in Claimed'..(Consumed' + Capacity - 1) PROVE slots'[SlotOf(n)].published = 0
    <3>1. n \in Claimed..(Consumed + Capacity - 1) BY <1>1, <1>5
    <3> QED BY <1>7, <3>1 DEF IInv, SlotInv
  <2>4. ASSUME NEW q \in Producers
        PROVE  /\ pc'[q] \in {"copy_payload", "publish"} => slots'[SlotOf(seen'[q])].key = frame'[q]
               /\ pc'[q] = "publish" => slots'[SlotOf(seen'[q])].payload = frame'[q]
    BY <1>7 DEF IInv, SlotInv
  <2> QED BY <2>2, <2>3, <2>4 DEF SlotInv
<1>12. ConsumerInv'
  <2>1. cpc \in {"head", "copy_out", "unpublish", "advance"} =>
          Entry(admitted', Consumed) = Entry(admitted, Consumed) /\ Consumed < Claimed
    BY <1>1, <1>6 DEF IInv, ConsumerInv
  <2>2. Reading => \A q \in Producers : Filling(q)' => seen[q] # Consumed
    BY <1>1, <1>3, <1>8, <2>1 DEF IInv, ConsumerInv, Reading
  <2> QED BY <1>1, <1>5, <1>7, <2>1, <2>2 DEF IInv, ConsumerInv, Reading
<1>13. PrefixInv'
  <2>1. 1..Len(delivered) \subseteq 1..Len(admitted) BY <1>1, <1>2
  <2> QED BY <1>4, <1>7, <2>1 DEF IInv, PrefixInv
<1> QED BY <1>9, <1>10, <1>11, <1>12, <1>13 DEF IInv

\* Writing the claimed slot disturbs no other position of the window.
LEMMA OtherSlots ==
  ASSUME TypeOK, FramesAccounted, IInv, NEW p \in Producers, Filling(p), NEW newSlot \in Slot,
         slots' = [slots EXCEPT ![SlotOf(write[p])] = newSlot]
  PROVE  /\ slots'[SlotOf(seen[p])] = newSlot
         /\ \A n \in Consumed..(Consumed + Capacity - 1) :
              n # seen[p] => slots'[SlotOf(n)] = slots[SlotOf(n)]
         /\ seen[p] \in Consumed..(Claimed - 1) /\ seen[p] \in Consumed..(Consumed + Capacity - 1)
<1> USE ConstantTypes
<1>1. Claimed \in Nat /\ Consumed \in Nat /\ Consumed <= Claimed /\ Claimed <= Consumed + Capacity
  BY Positions DEF IInv, WindowInv
<1>2. seen[p] \in Nat /\ write[p] = Wrap(seen[p]) /\ Consumed <= seen[p] /\ seen[p] < Claimed
  BY DEF IInv, ProducerInv, Loaded, Filling, TypeOK
<1>3. SlotOf(write[p]) = SlotOf(seen[p]) BY <1>2, SlotWrap
<1>4. SlotOf(seen[p]) \in 0..(Capacity - 1) BY <1>2, SlotType
<1>5. ASSUME NEW n \in Consumed..(Consumed + Capacity - 1), n # seen[p]
      PROVE  slots'[SlotOf(n)] = slots[SlotOf(n)]
  <2>1. n \in Nat /\ n < seen[p] + Capacity /\ seen[p] < n + Capacity BY <1>1, <1>2
  <2>2. SlotOf(n) # SlotOf(seen[p]) BY <1>2, <1>5, <2>1, SlotInjective
  <2>3. SlotOf(n) \in 0..(Capacity - 1) BY <2>1, SlotType
  <2> QED BY <1>3, <1>4, <2>2, <2>3 DEF TypeOK
<1> QED BY <1>1, <1>2, <1>3, <1>4, <1>5 DEF TypeOK

\* Filling the claimed slot, publishing it last.
LEMMA FillStep ==
  ASSUME TypeOK, FramesAccounted, IInv, NEW p \in Producers,
         CopyKey(p) \/ CopyPayload(p) \/ Publish(p)
  PROVE  IInv'
<1> USE ConstantTypes
<1> DEFINE mine == slots[SlotOf(write[p])]
           newSlot == slots'[SlotOf(write[p])]
<1>1. /\ Claimed \in Nat /\ Consumed \in Nat /\ StartIndex \in Nat /\ StartIndex <= Consumed
      /\ Consumed <= Claimed /\ Claimed <= Consumed + Capacity
  BY Positions DEF IInv, WindowInv
<1>2. /\ UNCHANGED <<write_index, read_index, frame, write, seen, admitted, delivered, cpc, out>>
      /\ \A q \in Producers : q # p => pc'[q] = pc[q]
  BY DEF CopyKey, CopyPayload, Publish, FillSlot, Goto, TypeOK, consumerVars, reportVars
<1>3. Filling(p) BY DEF Filling, CopyKey, CopyPayload, Publish, FillSlot
<1>4. SlotOf(write[p]) \in 0..(Capacity - 1) /\ mine \in Slot /\ frame[p] \in Frame \cup {NoFrame}
  <2>1. write[p] \in Int BY DEF TypeOK
  <2>2. SlotOf(write[p]) \in 0..(Capacity - 1) BY <2>1, SlotType
  <2> QED BY <2>2 DEF TypeOK
<1>5. /\ newSlot \in Slot
      /\ slots' = [slots EXCEPT ![SlotOf(write[p])] = newSlot]
      /\ \/ pc[p] = "copy_key" /\ pc'[p] = "copy_payload" /\ newSlot.key = frame[p]
            /\ newSlot.published = mine.published
         \/ pc[p] = "copy_payload" /\ pc'[p] = "publish" /\ newSlot.key = mine.key
            /\ newSlot.payload = frame[p] /\ newSlot.published = mine.published
         \/ pc[p] = "publish" /\ pc'[p] = "idle" /\ newSlot.key = mine.key
            /\ newSlot.payload = mine.payload /\ newSlot.published = 1
  <2>1. CASE CopyKey(p)
    BY <1>4, <2>1 DEF CopyKey, FillSlot, Slot, Goto, TypeOK
  <2>2. CASE CopyPayload(p)
    BY <1>4, <2>2 DEF CopyPayload, FillSlot, Slot, Goto, TypeOK
  <2>3. CASE Publish(p)
    BY <1>4, <2>3 DEF Publish, FillSlot, Slot, Goto, TypeOK
  <2> QED BY <2>1, <2>2, <2>3
<1>6. seen[p] \in Nat /\ write[p] = Wrap(seen[p]) /\ SlotOf(write[p]) = SlotOf(seen[p])
  BY <1>3, SlotWrap DEF IInv, ProducerInv, Loaded, Filling, TypeOK
<1> HIDE DEF mine, newSlot
<1>7. /\ slots'[SlotOf(seen[p])] = newSlot
      /\ \A n \in Consumed..(Consumed + Capacity - 1) :
           n # seen[p] => slots'[SlotOf(n)] = slots[SlotOf(n)]
      /\ seen[p] \in Consumed..(Claimed - 1) /\ seen[p] \in Consumed..(Consumed + Capacity - 1)
  BY <1>3, <1>5, OtherSlots
<1>8. mine = slots[SlotOf(seen[p])] BY <1>6 DEF mine
<1>9. mine.published = 0
  <2>1. mine.published # 1 BY <1>3, <1>7, <1>8 DEF IInv, SlotInv
  <2> QED BY <1>4, <2>1 DEF Slot, mine
<1>10. Claimed' = Claimed /\ Consumed' = Consumed BY <1>2 DEF Claimed, Consumed
<1>11. \A q \in Producers : /\ Filling(q)' => Filling(q)
                            /\ Loaded(q)' => Loaded(q)
                            /\ Filling(q) => seen[q] \in Consumed..(Claimed - 1)
                            /\ Filling(q) /\ q # p => seen[q] # seen[p]
  BY <1>1, <1>2, <1>3, <1>5 DEF Filling, Loaded, IInv, ProducerInv, TypeOK
<1>12. WindowInv' BY <1>2, <1>10 DEF IInv, WindowInv
<1>13. ProducerInv'
  <2>1. \A q \in Producers : pc'[q] = "cas" => pc[q] = "cas" BY <1>2, <1>5
  <2> QED BY <1>2, <1>10, <1>11, <2>1 DEF IInv, ProducerInv
<1>14. SlotInv'
  <2>1. ASSUME NEW n \in Consumed'..(Claimed' - 1), slots'[SlotOf(n)].published = 1
        PROVE  /\ slots'[SlotOf(n)].key = Entry(admitted', n).key
               /\ slots'[SlotOf(n)].payload = Entry(admitted', n).payload
               /\ \A q \in Producers : Filling(q)' => seen'[q] # n
    <3>1. n \in Consumed..(Claimed - 1) /\ n \in Consumed..(Consumed + Capacity - 1) BY <1>1, <1>10
    <3>2. CASE n # seen[p]
      BY <1>2, <1>7, <1>11, <2>1, <3>1, <3>2 DEF IInv, SlotInv
    <3>3. CASE n = seen[p]
      <4>1. pc[p] = "publish" /\ newSlot.key = mine.key /\ newSlot.payload = mine.payload
            /\ pc'[p] = "idle"
        BY <1>5, <1>7, <1>9, <2>1, <3>3
      <4>2. mine.key = frame[p] /\ mine.payload = frame[p] BY <1>8, <4>1 DEF IInv, SlotInv
      <4>3. Entry(admitted, n) = Whole(frame[p]) BY <1>3, <3>3 DEF IInv, ProducerInv
      <4>4. ~Filling(p)' BY <4>1 DEF Filling
      <4> QED BY <1>2, <1>7, <1>11, <3>3, <4>1, <4>2, <4>3, <4>4 DEF Whole
    <3> QED BY <3>2, <3>3
  <2>2. ASSUME NEW n \in Claimed'..(Consumed' + Capacity - 1) PROVE slots'[SlotOf(n)].published = 0
    <3>1. n \in Claimed..(Consumed + Capacity - 1) /\ n \in Consumed..(Consumed + Capacity - 1)
          /\ n # seen[p]
      BY <1>1, <1>7, <1>10
    <3> QED BY <1>7, <3>1 DEF IInv, SlotInv
  <2>3. ASSUME NEW q \in Producers
        PROVE  /\ pc'[q] \in {"copy_payload", "publish"} => slots'[SlotOf(seen'[q])].key = frame'[q]
               /\ pc'[q] = "publish" => slots'[SlotOf(seen'[q])].payload = frame'[q]
    <3>1. CASE q # p
      <4>1. Filling(q) => slots'[SlotOf(seen[q])] = slots[SlotOf(seen[q])]
        BY <1>1, <1>7, <1>11, <3>1
      <4> QED BY <1>2, <3>1, <4>1 DEF Filling, IInv, SlotInv
    <3>2. CASE q = p
      <4>1. pc[p] = "copy_payload" => mine.key = frame[p] BY <1>8 DEF IInv, SlotInv
      <4> QED BY <1>2, <1>5, <1>7, <3>2, <4>1
    <3> QED BY <3>1, <3>2
  <2> QED BY <2>1, <2>2, <2>3 DEF SlotInv
<1>15. ConsumerInv'
  <2>1. Reading => Consumed # seen[p] /\ slots'[SlotOf(Consumed)] = slots[SlotOf(Consumed)]
    BY <1>1, <1>3, <1>7 DEF IInv, ConsumerInv
  <2> QED BY <1>2, <1>10, <1>11, <2>1 DEF IInv, ConsumerInv, Reading
<1>16. PrefixInv' BY <1>2 DEF IInv, PrefixInv
<1> QED BY <1>12, <1>13, <1>14, <1>15, <1>16 DEF IInv

\* The steps of admit before a position is claimed, and the counting steps.
LEMMA UndecidedStep ==
  ASSUME TypeOK, FramesAccounted, IInv, NEW p \in Producers,
         \/ \E size \in FrameSizes : Offer(p, size)
         \/ LoadWrite(p) \/ CheckFull(p) \/ LosePosition(p)
         \/ CountDrop(p) \/ ReportFull(p) \/ NoteOversized(p) \/ ReportOversized(p)
  PROVE  IInv'
<1> USE ConstantTypes
<1>1. /\ Claimed \in Nat /\ Consumed \in Nat /\ StartIndex \in Nat
      /\ StartIndex <= Consumed /\ StartIndex <= Claimed /\ Claimed <= StartIndex + MaxFrames
      /\ Consumed <= Claimed /\ write_index = Wrap(Claimed) /\ read_index = Wrap(Consumed)
  BY Positions DEF IInv, WindowInv
<1>2. CASE \E size \in FrameSizes : Offer(p, size)
  <2>1. pc'[p] \in {"note", "load"} BY <1>2 DEF Offer, Goto, TypeOK
  <2>2. \A q \in Producers : q # p => pc'[q] = pc[q] /\ frame'[q] = frame[q]
    BY <1>2 DEF Offer, Goto, TypeOK
  <2>3. UNCHANGED <<write_index, read_index, slots, admitted, delivered, cpc, out, write, seen>>
    BY <1>2 DEF Offer, queueVars, consumerVars, reportVars
  <2> QED BY <2>1, <2>2, <2>3, QuietStep
<1>3. CASE LoadWrite(p) \/ LosePosition(p)
  <2>1. ReadWriteIndex(p) /\ Goto(p, "check") BY <1>3 DEF LoadWrite, LosePosition
  <2>2. pc'[p] = "check" /\ write'[p] = write_index /\ seen'[p] = Claimed
    BY <2>1 DEF ReadWriteIndex, Goto, TypeOK
  <2>3. \A q \in Producers : q # p => pc'[q] = pc[q] /\ write'[q] = write[q] /\ seen'[q] = seen[q]
    BY <2>1 DEF ReadWriteIndex, Goto, TypeOK
  <2>4. UNCHANGED <<write_index, read_index, slots, admitted, delivered, cpc, out, frame>>
    BY <1>3 DEF LoadWrite, LosePosition, queueVars, consumerVars, reportVars
  <2> QED BY <1>1, <2>2, <2>3, <2>4, QuietStep
<1>4. CASE CheckFull(p)
  <2>1. pc[p] = "check" /\ UNCHANGED <<write_index, read_index, slots, admitted, delivered, cpc, out,
                                       frame, write, seen>>
    BY <1>4 DEF CheckFull, queueVars, consumerVars, reportVars
  <2>2. \A q \in Producers : q # p => pc'[q] = pc[q] BY <1>4 DEF CheckFull, Goto, TypeOK
  <2>3. pc'[p] \in {"drop", "cas"} /\ (pc'[p] = "cas" => ~LooksFull(p))
    BY <1>4 DEF CheckFull, Goto, TypeOK
  <2>4. seen[p] \in Nat /\ write[p] = Wrap(seen[p]) /\ StartIndex <= seen[p] /\ seen[p] <= Claimed
    BY <2>1 DEF IInv, ProducerInv, Loaded, TypeOK
  <2>5. pc'[p] = "cas" => seen[p] < Consumed + Capacity
    <3>1. seen[p] <= Consumed + MaxFrames /\ Consumed <= seen[p] + MaxFrames BY <1>1, <2>4
    <3>2. Wrap(Wrap(seen[p]) - Wrap(Consumed)) < Capacity => seen[p] < Consumed + Capacity
      BY <1>1, <2>4, <3>1, FullTest
    <3>3. Wrap(write[p] - read_index) \in Int
      <4>1. write[p] - read_index \in Int BY DEF TypeOK
      <4> QED BY <4>1, WrapType
    <3>4. ~LooksFull(p) => Wrap(write[p] - read_index) < Capacity BY <3>3 DEF LooksFull
    <3> QED BY <1>1, <2>3, <2>4, <3>2, <3>4
  <2> QED BY <2>1, <2>2, <2>3, <2>4, <2>5, QuietStep
<1>5. CASE CountDrop(p) \/ ReportFull(p) \/ NoteOversized(p) \/ ReportOversized(p)
  <2>1. pc'[p] \in {"report_full", "report_oversized", "idle"}
    BY <1>5 DEF CountDrop, ReportFull, NoteOversized, ReportOversized, Goto, TypeOK
  <2>2. \A q \in Producers : q # p => pc'[q] = pc[q]
    BY <1>5 DEF CountDrop, ReportFull, NoteOversized, ReportOversized, Goto, TypeOK
  <2>3. UNCHANGED <<write_index, read_index, slots, admitted, delivered, cpc, out, frame, write, seen>>
    BY <1>5 DEF CountDrop, ReportFull, NoteOversized, ReportOversized, consumerVars, reportVars
  <2> QED BY <2>1, <2>2, <2>3, QuietStep
<1> QED BY <1>2, <1>3, <1>4, <1>5

\* The head slot is the slot of the first queued position.
LEMMA HeadIsFirst ==
  ASSUME TypeOK, FramesAccounted, IInv
  PROVE  /\ SlotOf(read_index) = SlotOf(Consumed) /\ HeadSlot = slots[SlotOf(Consumed)]
         /\ SlotOf(Consumed) \in 0..(Capacity - 1) /\ slots[SlotOf(Consumed)] \in Slot
<1>1. Consumed \in Nat /\ read_index = Wrap(Consumed) BY Positions DEF IInv, WindowInv
<1>2. SlotOf(read_index) = SlotOf(Consumed) BY <1>1, SlotWrap
<1>3. SlotOf(Consumed) \in 0..(Capacity - 1) BY <1>1, SlotType
<1> QED BY <1>2, <1>3 DEF HeadSlot, TypeOK

\* An entry of the window is a message.
LEMMA EntryType ==
  ASSUME TypeOK, FramesAccounted, NEW n \in Consumed..(Claimed - 1)
  PROVE  Entry(admitted, n) \in Message
<1>1. /\ Claimed \in Nat /\ Consumed \in Nat /\ StartIndex \in Nat /\ StartIndex <= Consumed
      /\ Claimed = StartIndex + Len(admitted) /\ Len(admitted) \in Nat
  BY Positions
<1>2. n - StartIndex + 1 \in 1..Len(admitted) BY <1>1
<1> QED BY <1>2, ElementOfSeq DEF Entry, TypeOK

\* The consumer's steps before it releases the slot.
LEMMA ReadStep ==
  ASSUME TypeOK, FramesAccounted, IInv,
         \/ \E size \in BufferSizes : PollStart(size)
         \/ TakeFull \/ TakeOversized \/ CheckHead \/ CopyOut
  PROVE  IInv'
<1> USE ConstantTypes
<1>1. UNCHANGED <<write_index, read_index, slots, pc, frame, write, seen, admitted, delivered>>
  BY DEF PollStart, TakeFull, TakeOversized, CheckHead, CopyOut, queueVars, producerVars
<1>2. Claimed' = Claimed /\ Consumed' = Consumed BY <1>1 DEF Claimed, Consumed
<1>3. \A q \in Producers : (Filling(q)' <=> Filling(q)) /\ (Loaded(q)' <=> Loaded(q))
  BY <1>1 DEF Filling, Loaded
<1>4. WindowInv' /\ ProducerInv' /\ SlotInv' /\ PrefixInv'
  BY <1>1, <1>2, <1>3 DEF IInv, WindowInv, ProducerInv, SlotInv, PrefixInv
<1>5. Claimed \in Nat /\ Consumed \in Nat /\ Consumed <= Claimed
      /\ write_index = Wrap(Claimed) /\ read_index = Wrap(Consumed)
  BY Positions DEF IInv, WindowInv
<1>6. HeadSlot = slots[SlotOf(Consumed)] /\ slots[SlotOf(Consumed)] \in Slot BY HeadIsFirst
<1>7. ConsumerInv'
  <2>1. CASE \E size \in BufferSizes : PollStart(size)
    <3>1. cpc' \in {"take_full", "head"} /\ (cpc' = "head" => read_index # write_index)
      BY <2>1 DEF PollStart
    <3>2. read_index # write_index => Consumed < Claimed BY <1>5
    <3> QED BY <1>2, <3>1, <3>2 DEF ConsumerInv, Reading
  <2>2. CASE TakeFull \/ TakeOversized
    <3>1. cpc' \in {"idle", "take_oversized"} BY <2>2 DEF TakeFull, TakeOversized
    <3> QED BY <3>1 DEF ConsumerInv, Reading
  <2>3. CASE CheckHead
    <3>1. \/ cpc' = "idle"
          \/ cpc' = "copy_out" /\ HeadSlot.published = 1 /\ out' = [out EXCEPT !.key = HeadSlot.key]
      BY <2>3 DEF CheckHead
    <3>2. CASE cpc' = "idle" BY <3>2 DEF ConsumerInv, Reading
    <3>3. CASE cpc' = "copy_out"
      <4>1. Consumed < Claimed BY <2>3 DEF CheckHead, IInv, ConsumerInv
      <4>2. HeadSlot.published = 1 /\ out'.key = HeadSlot.key
        BY <3>1, <3>3 DEF TypeOK, Message
      <4>3. Consumed \in Consumed..(Claimed - 1) BY <1>5, <4>1
      <4>4. /\ HeadSlot.key = Entry(admitted, Consumed).key
            /\ \A p \in Producers : Filling(p) => seen[p] # Consumed
        BY <1>6, <4>2, <4>3 DEF IInv, SlotInv
      <4> QED BY <1>1, <1>2, <1>3, <1>6, <3>3, <4>1, <4>2, <4>4 DEF ConsumerInv, Reading
    <3> QED BY <3>1, <3>2, <3>3
  <2>4. CASE CopyOut
    <3>1. cpc = "copy_out" /\ cpc' = "unpublish" /\ out' = [out EXCEPT !.payload = HeadSlot.payload]
      BY <2>4 DEF CopyOut
    <3>2. /\ Consumed < Claimed /\ slots[SlotOf(Consumed)].published = 1
          /\ out.key = Entry(admitted, Consumed).key
          /\ \A p \in Producers : Filling(p) => seen[p] # Consumed
      BY <3>1 DEF IInv, ConsumerInv, Reading
    <3>3. Consumed \in Consumed..(Claimed - 1) BY <1>5, <3>2
    <3>4. HeadSlot.payload = Entry(admitted, Consumed).payload
      BY <1>6, <3>2, <3>3 DEF IInv, SlotInv
    <3>5. Entry(admitted, Consumed) \in Message BY <3>3, EntryType
    <3>6. out' = Entry(admitted, Consumed)
      BY <3>1, <3>2, <3>4, <3>5 DEF TypeOK, Message
    <3> QED BY <1>1, <1>2, <1>3, <3>1, <3>2, <3>6 DEF ConsumerInv, Reading
  <2> QED BY <2>1, <2>2, <2>3, <2>4
<1> QED BY <1>4, <1>7 DEF IInv

\* Un-publishing the head slot leaves every other position as it was.
LEMMA UnpublishStep ==
  ASSUME TypeOK, FramesAccounted, IInv, Unpublish
  PROVE  IInv'
<1> USE ConstantTypes
<1>1. /\ UNCHANGED <<write_index, read_index, pc, frame, write, seen, admitted, delivered, out>>
      /\ cpc = "unpublish" /\ cpc' = "advance"
  BY DEF Unpublish, producerVars
<1>2. Claimed' = Claimed /\ Consumed' = Consumed BY <1>1 DEF Claimed, Consumed
<1>3. \A q \in Producers : (Filling(q)' <=> Filling(q)) /\ (Loaded(q)' <=> Loaded(q))
  BY <1>1 DEF Filling, Loaded
<1>4. Claimed \in Nat /\ Consumed \in Nat /\ Consumed < Claimed /\ Claimed <= Consumed + Capacity
  BY <1>1, Positions DEF IInv, WindowInv, ConsumerInv
<1>5. slots' = [slots EXCEPT ![SlotOf(Consumed)].published = 0]
      /\ SlotOf(Consumed) \in 0..(Capacity - 1) /\ slots[SlotOf(Consumed)] \in Slot
  BY HeadIsFirst DEF Unpublish
<1>6. slots'[SlotOf(Consumed)].published = 0 BY <1>5 DEF TypeOK, Slot
<1>7. \A n \in Consumed..(Consumed + Capacity - 1) :
        n # Consumed => slots'[SlotOf(n)] = slots[SlotOf(n)]
  <2> SUFFICES ASSUME NEW n \in Consumed..(Consumed + Capacity - 1), n # Consumed
               PROVE  slots'[SlotOf(n)] = slots[SlotOf(n)]
    OBVIOUS
  <2>1. n \in Nat /\ n < Consumed + Capacity /\ Consumed < n + Capacity BY <1>4
  <2>2. SlotOf(n) # SlotOf(Consumed) BY <1>4, <2>1, SlotInjective
  <2>3. SlotOf(n) \in 0..(Capacity - 1) BY <2>1, SlotType
  <2> QED BY <1>5, <2>2, <2>3 DEF TypeOK
<1>8. WindowInv' /\ ProducerInv' /\ PrefixInv'
  BY <1>1, <1>2, <1>3 DEF IInv, WindowInv, ProducerInv, PrefixInv
<1>9. \A q \in Producers : Filling(q) => seen[q] # Consumed /\ seen[q] \in Consumed..(Claimed - 1)
  BY <1>1, <1>4 DEF IInv, ConsumerInv, ProducerInv, Reading, TypeOK
<1>10. SlotInv'
  <2>1. ASSUME NEW n \in Consumed'..(Claimed' - 1), slots'[SlotOf(n)].published = 1
        PROVE  /\ slots'[SlotOf(n)].key = Entry(admitted', n).key
               /\ slots'[SlotOf(n)].payload = Entry(admitted', n).payload
               /\ \A q \in Producers : Filling(q)' => seen'[q] # n
    <3>1. n # Consumed BY <1>6, <2>1
    <3>2. n \in Consumed..(Claimed - 1) /\ n \in Consumed..(Consumed + Capacity - 1) BY <1>2, <1>4
    <3> QED BY <1>1, <1>3, <1>7, <2>1, <3>1, <3>2 DEF IInv, SlotInv
  <2>2. ASSUME NEW n \in Claimed'..(Consumed' + Capacity - 1) PROVE slots'[SlotOf(n)].published = 0
    <3>1. n \in Claimed..(Consumed + Capacity - 1) /\ n \in Consumed..(Consumed + Capacity - 1)
          /\ n # Consumed
      BY <1>2, <1>4
    <3> QED BY <1>7, <3>1 DEF IInv, SlotInv
  <2>3. ASSUME NEW q \in Producers
        PROVE  /\ pc'[q] \in {"copy_payload", "publish"} => slots'[SlotOf(seen'[q])].key = frame'[q]
               /\ pc'[q] = "publish" => slots'[SlotOf(seen'[q])].payload = frame'[q]
    <3>1. Filling(q) => slots'[SlotOf(seen[q])] = slots[SlotOf(seen[q])]
      BY <1>4, <1>7, <1>9
    <3> QED BY <1>1, <3>1 DEF IInv, SlotInv, Filling
  <2> QED BY <2>1, <2>2, <2>3 DEF SlotInv
<1>11. ConsumerInv'
  BY <1>1, <1>2, <1>3, <1>4, <1>6, <1>9 DEF IInv, ConsumerInv, Reading
<1> QED BY <1>8, <1>10, <1>11 DEF IInv

\* Advancing frees the head position; its slot is the slot of the last free position.
LEMMA AdvanceStep ==
  ASSUME TypeOK, FramesAccounted, IInv, Advance
  PROVE  IInv'
<1> USE ConstantTypes
<1>1. /\ UNCHANGED <<write_index, slots, pc, frame, write, seen, admitted, out>>
      /\ cpc = "advance" /\ cpc' = "idle"
  BY DEF Advance, producerVars
<1>2. /\ Claimed \in Nat /\ Consumed \in Nat /\ StartIndex \in Nat
      /\ Consumed < Claimed /\ Claimed <= Consumed + Capacity
      /\ Len(delivered) \in Nat /\ Consumed = StartIndex + Len(delivered)
      /\ read_index = Wrap(Consumed) /\ write_index = Wrap(Claimed)
  BY <1>1, Positions DEF IInv, WindowInv, ConsumerInv
<1>3. /\ Len(delivered') = Len(delivered) + 1
      /\ \A i \in 1..Len(delivered) : delivered'[i] = delivered[i]
      /\ delivered'[Len(delivered) + 1] = out
  BY AppendProperties DEF Advance, TypeOK
<1>4. Claimed' = Claimed /\ Consumed' = Consumed + 1
  BY <1>1, <1>2, <1>3 DEF Claimed, Consumed
<1>5. \A q \in Producers : /\ (Filling(q)' <=> Filling(q)) /\ (Loaded(q)' <=> Loaded(q))
                           /\ seen[q] \in Nat
                           /\ Filling(q) => Consumed + 1 <= seen[q]
  BY <1>1, <1>2 DEF Filling, Loaded, IInv, ConsumerInv, ProducerInv, Reading, TypeOK
<1>6. WindowInv'
  <2>1. read_index' = Wrap(Consumed + 1) BY <1>2, WrapSucc DEF Advance
  <2> QED BY <1>1, <1>2, <1>4, <2>1 DEF WindowInv
<1>7. ProducerInv'
  BY <1>1, <1>2, <1>4, <1>5 DEF IInv, ProducerInv
<1>8. SlotInv'
  <2>1. ASSUME NEW n \in Claimed'..(Consumed' + Capacity - 1) PROVE slots'[SlotOf(n)].published = 0
    <3>1. CASE n = Consumed + Capacity
      BY <1>1, <1>2, <3>1, SlotPeriod DEF IInv, ConsumerInv
    <3>2. CASE n # Consumed + Capacity
      <4>1. n \in Claimed..(Consumed + Capacity - 1) BY <1>2, <1>4, <3>2
      <4> QED BY <1>1, <4>1 DEF IInv, SlotInv
    <3> QED BY <3>1, <3>2
  <2>2. \A n \in Consumed'..(Claimed' - 1) : n \in Consumed..(Claimed - 1) BY <1>2, <1>4
  <2> QED BY <1>1, <1>5, <2>1, <2>2 DEF IInv, SlotInv
<1>9. ConsumerInv' BY <1>1 DEF ConsumerInv, Reading
<1>10. PrefixInv'
  <2>1. out = admitted[Len(delivered) + 1]
    <3>1. Consumed - StartIndex + 1 = Len(delivered) + 1 BY <1>2
    <3> QED BY <1>1, <3>1 DEF IInv, ConsumerInv, Entry
  <2>2. \A i \in 1..Len(delivered') : i \in 1..Len(delivered) \/ i = Len(delivered) + 1
    BY <1>2, <1>3
  <2> QED BY <1>1, <1>3, <2>1, <2>2 DEF IInv, PrefixInv
<1> QED BY <1>6, <1>7, <1>8, <1>9, <1>10 DEF IInv

LEMMA StepInv == TypeOK /\ FramesAccounted /\ IInv /\ [Next]_vars => IInv'
<1> SUFFICES ASSUME TypeOK, FramesAccounted, IInv, [Next]_vars PROVE IInv' OBVIOUS
<1>1. ASSUME NEW p \in Producers, Admit(p) \/ \E size \in FrameSizes : Offer(p, size) PROVE IInv'
  BY <1>1, UndecidedStep, ClaimStep, FillStep DEF Admit
<1>2. CASE Poll BY <1>2, ReadStep, UnpublishStep, AdvanceStep DEF Poll
<1>3. CASE UNCHANGED vars
  BY <1>3 DEF vars, queueVars, producerVars, consumerVars, reportVars, IInv, WindowInv, ProducerInv, SlotInv,
     ConsumerInv, PrefixInv, Claimed, Consumed, Filling, Loaded, Reading
<1> QED BY <1>1, <1>2, <1>3 DEF Next

\* The inductive invariant holds in every reachable state.
THEOREM Inductive == Spec => []IInv
  BY InitInv, StepInv, TypeCorrect, AlwaysAccounted, PTL DEF Spec

-------------------------------------------------------------------------------
(* What follows.                                                           *)

(* No two callbacks ever write one slot of the ring, and none writes the   *)
(* slot the application is copying out, for any number of callbacks.       *)
THEOREM AlwaysExclusive == Spec => []SlotExclusive
<1>1. TypeOK /\ FramesAccounted /\ IInv => SlotExclusive
  <2> SUFFICES ASSUME TypeOK, FramesAccounted, IInv PROVE SlotExclusive OBVIOUS
  <2> USE ConstantTypes
  <2>1. Claimed \in Nat /\ Consumed \in Nat /\ Consumed <= Claimed /\ Claimed <= Consumed + Capacity
    BY Positions DEF IInv, WindowInv
  <2>2. \A p \in Producers : Filling(p) => /\ seen[p] \in Nat /\ Consumed <= seen[p] /\ seen[p] < Claimed
                                           /\ SlotOf(write[p]) = SlotOf(seen[p])
    BY SlotWrap DEF IInv, ProducerInv, Loaded, Filling, TypeOK
  <2>3. ASSUME NEW p \in Producers, NEW q \in Producers, Filling(p), Filling(q),
               SlotOf(write[p]) = SlotOf(write[q])
        PROVE  p = q
    <3>1. seen[p] \in Nat /\ seen[q] \in Nat /\ seen[p] < seen[q] + Capacity
          /\ seen[q] < seen[p] + Capacity /\ SlotOf(seen[p]) = SlotOf(seen[q])
      BY <2>1, <2>2, <2>3
    <3>2. seen[p] = seen[q] BY <3>1, SlotInjective
    <3> QED BY <2>3, <3>2 DEF IInv, ProducerInv
  <2>4. ASSUME NEW p \in Producers, Filling(p), Reading
        PROVE  SlotOf(write[p]) # SlotOf(read_index)
    <3>1. SlotOf(read_index) = SlotOf(Consumed) BY HeadIsFirst
    <3>2. seen[p] # Consumed BY <2>4 DEF IInv, ConsumerInv
    <3>3. seen[p] \in Nat /\ seen[p] < Consumed + Capacity /\ Consumed < seen[p] + Capacity
      BY <2>1, <2>2, <2>4
    <3> QED BY <2>1, <2>2, <2>4, <3>1, <3>2, <3>3, SlotInjective
  <2> QED BY <2>3, <2>4 DEF SlotExclusive
<1> QED BY <1>1, Inductive, TypeCorrect, AlwaysAccounted, PTL

(* What poll delivers is a prefix of what was admitted: frames are neither *)
(* lost, repeated, reordered nor torn once their position is claimed.      *)
THEOREM AlwaysInOrder == Spec => []DeliveredInOrder
<1>1. TypeOK /\ FramesAccounted /\ IInv => DeliveredInOrder
  <2> SUFFICES ASSUME TypeOK, FramesAccounted, IInv PROVE DeliveredInOrder OBVIOUS
  <2>1. Len(delivered) <= Len(admitted) BY Positions DEF IInv, WindowInv
  <2> QED BY <2>1 DEF DeliveredInOrder, IInv, PrefixInv
<1> QED BY <1>1, Inductive, TypeCorrect, AlwaysAccounted, PTL

(* The depth the application reads is exact, also across the wrap of the   *)
(* 32-bit indices; the clamp in zenoh_pico_queue_depth is never used.      *)
THEOREM AlwaysDepthExact == Spec => []DepthExact
<1>1. TypeOK /\ FramesAccounted /\ IInv => DepthExact
  <2> SUFFICES ASSUME TypeOK, FramesAccounted, IInv PROVE DepthExact OBVIOUS
  <2> USE ConstantTypes
  <2>1. /\ Claimed \in Nat /\ Consumed \in Nat /\ StartIndex \in Nat
        /\ Claimed = StartIndex + Len(admitted) /\ Consumed = StartIndex + Len(delivered)
        /\ Len(admitted) \in Nat /\ Len(delivered) \in Nat
        /\ Consumed <= Claimed /\ Claimed <= Consumed + Capacity /\ Claimed <= StartIndex + MaxFrames
        /\ StartIndex <= Consumed
        /\ write_index = Wrap(Claimed) /\ read_index = Wrap(Consumed)
    BY Positions DEF IInv, WindowInv
  <2>2. Wrap(write_index - read_index) = Wrap(Claimed - Consumed) BY <2>1, WrapDifference
  <2>3. Claimed - Consumed \in 0..(Modulus - 1) /\ Claimed - Consumed <= Capacity BY <2>1
  <2>4. Wrap(Claimed - Consumed) = Claimed - Consumed BY <2>3, ModSmall DEF Wrap
  <2>5. Depth = Claimed - Consumed BY <2>2, <2>3, <2>4 DEF Depth
  <2> QED BY <2>1, <2>5 DEF DepthExact
<1> QED BY <1>1, Inductive, TypeCorrect, AlwaysAccounted, PTL

-------------------------------------------------------------------------------
(* The queue implements the abstract buffer.                               *)

\* What Append adds and keeps.
LEMMA AppendFacts ==
  ASSUME NEW S, NEW a \in Seq(S), NEW x \in S
  PROVE  /\ Append(a, x) \in Seq(S) /\ Len(Append(a, x)) = Len(a) + 1
         /\ \A i \in 1..Len(a) : Append(a, x)[i] = a[i]
         /\ Append(a, x)[Len(a) + 1] = x
BY AppendProperties

\* Appending to a sequence appends to each of its suffixes.
LEMMA SuffixAppend ==
  ASSUME NEW S, NEW a \in Seq(S), NEW x \in S, NEW k \in 1..(Len(a) + 1)
  PROVE  /\ SubSeq(Append(a, x), k, Len(a) + 1) = Append(SubSeq(a, k, Len(a)), x)
         /\ Len(SubSeq(a, k, Len(a))) = Len(a) - k + 1
<1> DEFINE b == Append(a, x)
           s == SubSeq(a, k, Len(a))
           t == SubSeq(b, k, Len(a) + 1)
<1>1. Len(a) \in Nat /\ k \in Int BY LenProperties
<1>2. /\ b \in Seq(S) /\ Len(b) = Len(a) + 1 /\ b[Len(a) + 1] = x
      /\ \A i \in 1..Len(a) : b[i] = a[i]
  BY AppendProperties
<1>3. \A i \in k..Len(a) : a[i] \in S BY <1>1, ElementOfSeq
<1>4. \A i \in k..(Len(a) + 1) : b[i] \in S BY <1>1, <1>2, ElementOfSeq
<1>5. /\ s \in Seq(S) /\ Len(s) = Len(a) - k + 1
      /\ \A i \in 1..(Len(a) - k + 1) : s[i] = a[k + i - 1]
  BY <1>1, <1>3, SubSeqProperties
<1> HIDE DEF b
<1>6. /\ t \in Seq(S) /\ Len(t) = Len(a) + 1 - k + 1
      /\ \A i \in 1..(Len(a) + 1 - k + 1) : t[i] = b[k + i - 1]
  BY <1>1, <1>4, SubSeqProperties
<1> HIDE DEF s, t
<1>7. /\ Append(s, x) \in Seq(S) /\ Len(Append(s, x)) = Len(s) + 1
      /\ \A i \in 1..Len(s) : Append(s, x)[i] = s[i]
      /\ Append(s, x)[Len(s) + 1] = x
  <2>1. s \in Seq(S) BY <1>5
  <2> QED BY <2>1, AppendFacts
<1>8. \A i \in 1..Len(t) : t[i] = Append(s, x)[i]
  <2> SUFFICES ASSUME NEW i \in 1..Len(t) PROVE t[i] = Append(s, x)[i] OBVIOUS
  <2>1. CASE i = Len(s) + 1
    <3>1. k + i - 1 = Len(a) + 1 /\ i \in 1..(Len(a) + 1 - k + 1) BY <1>1, <1>5, <1>6, <2>1
    <3> QED BY <1>2, <1>6, <1>7, <2>1, <3>1
  <2>2. CASE i # Len(s) + 1
    <3>0. Len(s) = Len(a) - k + 1 /\ Len(t) = Len(a) + 1 - k + 1 BY <1>5, <1>6
    <3>1. i \in Nat /\ 1 <= i /\ i <= Len(a) - k + 1 BY <1>1, <2>2, <3>0
    <3>2. i \in 1..Len(s) /\ i \in 1..(Len(a) + 1 - k + 1) /\ i \in 1..(Len(a) - k + 1)
      BY <1>1, <1>5, <3>1
    <3>3. k + i - 1 \in 1..Len(a) BY <1>1, <3>1
    <3> QED BY <1>2, <1>5, <1>6, <1>7, <3>2, <3>3
  <2> QED BY <2>1, <2>2
<1>9. t = Append(s, x)
  <2>1. Len(t) = Len(Append(s, x)) BY <1>1, <1>5, <1>6, <1>7
  <2> QED BY <1>6, <1>7, <1>8, <2>1, SeqEqual
<1> QED BY <1>5, <1>9 DEF b, s, t

\* Each step of the queue is a step of the buffer or leaves it as it is.
LEMMA FifoStep ==
  TypeOK /\ FramesAccounted /\ IInv /\ [Next]_vars => [Fifo!LossyNext]_Fifo!fifoVars
<1> SUFFICES ASSUME TypeOK, FramesAccounted, IInv, [Next]_vars
             PROVE  [Fifo!LossyNext]_Fifo!fifoVars
  OBVIOUS
<1> DEFINE queued == SubSeq(admitted, Len(delivered) + 1, Len(admitted))
           lostFrames == dropped + At({"drop"})
<1>1. /\ Len(admitted) \in Nat /\ Len(delivered) \in Nat /\ Len(delivered) <= Len(admitted)
      /\ Claimed = StartIndex + Len(admitted) /\ Consumed = StartIndex + Len(delivered)
      /\ Consumed <= Claimed /\ Claimed <= Consumed + Capacity /\ StartIndex \in Nat
  BY Positions DEF IInv, WindowInv
<1>2. dropped \in Nat /\ At({"drop"}) \in Nat BY CountType DEF TypeOK
<1>3. ASSUME queued' = queued, delivered' = delivered, lostFrames' = lostFrames
      PROVE  UNCHANGED Fifo!fifoVars
  BY <1>3 DEF Fifo!fifoVars
<1>4. ASSUME NEW p \in Producers, ClaimPosition(p) PROVE Fifo!LossyNext
  <2>1. Whole(frame[p]) \in Message BY WholeType DEF TypeOK
  <2>2. Len(delivered) + 1 \in 1..(Len(admitted) + 1) BY <1>1
  <2>3. /\ SubSeq(Append(admitted, Whole(frame[p])), Len(delivered) + 1, Len(admitted) + 1)
             = Append(queued, Whole(frame[p]))
        /\ Len(queued) = Len(admitted) - (Len(delivered) + 1) + 1
    <3>1. admitted \in Seq(Message) BY DEF TypeOK
    <3> QED BY <2>1, <2>2, <3>1, SuffixAppend, Zenon
  <2>4. Len(Append(admitted, Whole(frame[p]))) = Len(admitted) + 1
    BY <2>1, AppendProperties DEF TypeOK
  <2>5. queued' = Append(queued, Whole(frame[p])) /\ delivered' = delivered
    BY <1>4, <2>3, <2>4 DEF ClaimPosition, consumerVars, reportVars
  <2>6. lostFrames' = lostFrames
    <3>1. Goto(p, "copy_key") /\ pc[p] = "cas" /\ dropped' = dropped BY <1>4 DEF ClaimPosition
    <3>2. At({"drop"})' = At({"drop"}) BY <1>2, <3>1, CountMove DEF ProducerStep
    <3> QED BY <3>1, <3>2
  <2>7. Len(queued) < Capacity
    <3>1. IInv' BY <1>4, ClaimStep
    <3>2. Claimed' <= Consumed' + Capacity BY <3>1 DEF IInv, WindowInv
    <3>3. Claimed' = Claimed + 1 /\ Consumed' = Consumed
      BY <1>1, <1>4, <2>4 DEF ClaimPosition, Claimed, Consumed, consumerVars, reportVars
    <3> QED BY <1>1, <2>3, <3>2, <3>3, ConstantTypes
  <2>8. Fifo!Put(Whole(frame[p])) BY <2>5, <2>6, <2>7 DEF Fifo!Put
  <2> QED BY <2>1, <2>8 DEF Fifo!LossyNext
<1>5. CASE Advance
  <2>1. UNCHANGED <<admitted, pc, dropped>> /\ delivered' = Append(delivered, out)
    BY <1>5 DEF Advance, producerVars
  <2>2. /\ out = admitted[Len(delivered) + 1] /\ Consumed < Claimed
    <3>1. Consumed - StartIndex + 1 = Len(delivered) + 1 BY <1>1
    <3> QED BY <1>5, <3>1 DEF Advance, IInv, ConsumerInv, Entry
  <2>3. Len(delivered) + 1 \in 1..Len(admitted) /\ Len(admitted) \in (Len(delivered) + 1)..Len(admitted)
    BY <1>1, <2>2
  <2>4. Head(queued) = out /\ Tail(queued) = SubSeq(admitted, Len(delivered) + 1 + 1, Len(admitted))
    BY <2>2, <2>3, HeadTailOfSubSeq DEF TypeOK
  <2>5. Len(delivered') = Len(delivered) + 1 BY <2>1, AppendProperties DEF TypeOK
  <2>6. queued' = Tail(queued) /\ delivered' = Append(delivered, Head(queued)) BY <2>1, <2>4, <2>5
  <2>7. queued # <<>>
    <3>1. \A i \in (Len(delivered) + 1)..Len(admitted) : admitted[i] \in Message
      BY <1>1, ElementOfSeq DEF TypeOK
    <3>2. Len(queued) = IF Len(delivered) + 1 <= Len(admitted)
                        THEN Len(admitted) - (Len(delivered) + 1) + 1 ELSE 0
      BY <1>1, <3>1, SubSeqProperties
    <3>3. Len(queued) > 0 BY <1>1, <2>3, <3>2
    <3>4. Len(<<>>) = 0 OBVIOUS
    <3>5. SUFFICES ASSUME queued = <<>> PROVE FALSE OBVIOUS
    <3>6. Len(queued) = 0 BY <3>4, <3>5
    <3> HIDE DEF queued
    <3> QED BY <3>3, <3>6
  <2>8. lostFrames' = lostFrames BY <2>1, CountStays
  <2>9. Fifo!Take BY <2>6, <2>7, <2>8 DEF Fifo!Take
  <2> QED BY <2>9 DEF Fifo!LossyNext
<1>6. ASSUME NEW p \in Producers, CheckFull(p) PROVE [Fifo!LossyNext]_Fifo!fifoVars
  <2>1. pc[p] = "check" /\ UNCHANGED <<admitted, delivered, dropped>>
    BY <1>6 DEF CheckFull, queueVars, consumerVars, reportVars
  <2>2. Goto(p, "drop") \/ Goto(p, "cas") BY <1>6 DEF CheckFull
  <2>3. At({"drop"})' = At({"drop"}) + 1 \/ At({"drop"})' = At({"drop"})
    BY <1>2, <2>1, <2>2, CountMove DEF ProducerStep
  <2>4. CASE At({"drop"})' = At({"drop"}) BY <1>3, <2>1, <2>4
  <2>5. CASE At({"drop"})' = At({"drop"}) + 1
    <3>1. lostFrames' = lostFrames + 1 BY <1>2, <2>1, <2>5
    <3>2. Fifo!Lose BY <2>1, <3>1 DEF Fifo!Lose
    <3> QED BY <3>2 DEF Fifo!LossyNext
  <2> QED BY <2>3, <2>4, <2>5
<1>7. ASSUME NEW p \in Producers, CountDrop(p) PROVE UNCHANGED Fifo!fifoVars
  <2>1. /\ pc[p] = "drop" /\ Goto(p, "report_full") /\ dropped' = dropped + 1
        /\ UNCHANGED <<admitted, delivered>>
    BY <1>7 DEF CountDrop, consumerVars, reportVars
  <2>2. At({"drop"})' = At({"drop"}) - 1 BY <1>2, <2>1, CountMove DEF ProducerStep
  <2>3. lostFrames' = lostFrames BY <1>2, <2>1, <2>2
  <2> QED BY <1>3, <2>1, <2>3
<1>8. ASSUME NEW p \in Producers,
             \/ \E size \in FrameSizes : Offer(p, size)
             \/ LoadWrite(p) \/ LosePosition(p) \/ ReportFull(p)
             \/ CopyKey(p) \/ CopyPayload(p) \/ Publish(p) \/ NoteOversized(p) \/ ReportOversized(p)
      PROVE  UNCHANGED Fifo!fifoVars
  <2>1. PICK to \in ProducerStep \ {"drop"} : Goto(p, to)
    BY <1>8 DEF Offer, LoadWrite, LosePosition, ReportFull, CopyKey, CopyPayload, Publish, FillSlot,
                NoteOversized, ReportOversized, ProducerStep
  <2>2. pc[p] # "drop"
    BY <1>8 DEF Offer, LoadWrite, LosePosition, ReportFull, CopyKey, CopyPayload, Publish, FillSlot,
                NoteOversized, ReportOversized
  <2>3. UNCHANGED <<admitted, delivered, dropped>>
    BY <1>8 DEF Offer, LoadWrite, LosePosition, ReportFull, CopyKey, CopyPayload, Publish, FillSlot,
                NoteOversized, ReportOversized, queueVars, consumerVars, reportVars
  <2>4. At({"drop"})' = At({"drop"}) BY <1>2, <2>1, <2>2, CountMove
  <2> QED BY <1>3, <2>3, <2>4
<1>9. ASSUME \/ \E size \in BufferSizes : PollStart(size)
             \/ TakeFull \/ TakeOversized \/ CheckHead \/ CopyOut \/ Unpublish \/ UNCHANGED vars
      PROVE  UNCHANGED Fifo!fifoVars
  <2>1. UNCHANGED <<admitted, delivered, dropped, pc>>
    BY <1>9 DEF PollStart, TakeFull, TakeOversized, CheckHead, CopyOut, Unpublish, vars, queueVars,
                producerVars, consumerVars, reportVars
  <2> QED BY <1>3, <2>1, CountStays
<1> QED BY <1>4, <1>5, <1>6, <1>7, <1>8, <1>9 DEF Next, Admit, Poll

(* The lock-free ring implements a first-in first-out buffer of at most    *)
(* Capacity frames that may lose an offered frame, for any number of       *)
(* callbacks: the frame takes effect at the compare-and-swap, and leaves   *)
(* when poll advances the read index.                                      *)
THEOREM ImplementsFifo == Spec => LossyFifo
<1>1. Init => Fifo!FifoInit
  <2> SUFFICES ASSUME Init PROVE Fifo!FifoInit OBVIOUS
  <2>1. admitted = <<>> /\ delivered = <<>> /\ dropped = 0 BY DEF Init
  <2>2. At({"drop"}) = 0 BY CountInit
  <2>3. SubSeq(admitted, Len(delivered) + 1, Len(admitted)) = <<>> BY <2>1, SubSeqEmpty
  <2> QED BY <2>1, <2>2, <2>3 DEF Fifo!FifoInit
<1> QED BY <1>1, FifoStep, TypeCorrect, AlwaysAccounted, Inductive, PTL
        DEF Spec, LossyFifo, Fifo!LossySpec
================================================================================
