\* A slot is reserved again while a callback of its last declaration is inside its second check.
SPECIFICATION Spec
CONSTANTS
  Sessions <- OneSession
  Slots <- OneSlot
  Callbacks = {c1}
  Blocks <- TwoBlocks
  MaxReserves = 2
  SpinLimit = 2
  Modulus = 8
  HandleGens = 8
INVARIANTS CopyAfterDrain
