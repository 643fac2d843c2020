\* Two callbacks: the full check can use a write index older than the read index.
SPECIFICATION Spec
CONSTANTS
  Producers = {p1, p2}
  Capacity = 2
  Modulus = 8
  StartIndex = 0
  MaxFrames = 3
  FrameSizes = {"small"}
  BufferSizes = {"full"}
PROPERTIES DropOnlyWhenFull
