\* Two callbacks; slots, the session and the memory of queues are reused while callbacks of
\* earlier declarations still run, and the drain gives up after its last load.
SPECIFICATION FairSpec
CONSTANTS
  Sessions <- OneSession
  Slots <- TwoSlots
  Callbacks = {c1, c2}
  Blocks <- TwoBlocks
  MaxReserves = 2
  SpinLimit = 1
  Modulus = 8
  HandleGens = 8
INVARIANTS  LateRejected HandlesIdentify
PROPERTIES RemovalEnds
