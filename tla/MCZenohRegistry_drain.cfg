\* A callback outlasts the drain.
SPECIFICATION Spec
CONSTANTS
  Sessions <- OneSession
  Slots <- OneSlot
  Callbacks = {c1}
  Blocks <- OneBlock
  MaxReserves = 1
  SpinLimit = 3
  Modulus = 8
  HandleGens = 8
INVARIANTS CopyIntoLiveQueue
