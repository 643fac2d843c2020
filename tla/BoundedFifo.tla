------------------------------ MODULE BoundedFifo ------------------------------
(***************************************************************************)
(* What a subscription's receive queue promises its reader: a first-in     *)
(* first-out buffer of at most Capacity items.  An offered item is either  *)
(* appended or lost as a whole; an item is taken once, from the front.     *)
(*                                                                         *)
(* An item may be lost at any time: losing one only when the buffer is     *)
(* full is true of one producer, not of several that race                  *)
(* (see DropOnlyWhenFull in ZenohQueue).                                   *)
(***************************************************************************)
EXTENDS Naturals, Sequences

CONSTANTS Items, Capacity

VARIABLES items,  \* the buffered items, oldest first
          taken,  \* every item taken so far, in order
          lost    \* how many items were lost

fifoVars == <<items, taken, lost>>

FifoInit == items = <<>> /\ taken = <<>> /\ lost = 0

Put(item) == /\ Len(items) < Capacity
             /\ items' = Append(items, item)
             /\ UNCHANGED <<taken, lost>>

Take == /\ items # <<>>
        /\ taken' = Append(taken, Head(items))
        /\ items' = Tail(items)
        /\ UNCHANGED lost

Lose == lost' = lost + 1 /\ UNCHANGED <<items, taken>>

LossyNext == Take \/ Lose \/ \E item \in Items : Put(item)

LossySpec == FifoInit /\ [][LossyNext]_fifoVars
================================================================================
