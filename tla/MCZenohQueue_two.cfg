\* Two callbacks race over two slots; the indices wrap from 7 to 0; some frames are
\* larger than the caller's buffer, some than any slot.
SPECIFICATION FairSpec
CONSTANTS
  Producers = {p1, p2}
  Capacity = 2
  Modulus = 8
  StartIndex = 6
  MaxFrames = 3
  FrameSizes = {"small", "wide", "oversized"}
  BufferSizes = {"small", "full"}
INVARIANTS TypeOK SlotExclusive DeliveredInOrder DepthExact ReportsBacked FramesAccounted
PROPERTIES LossyFifo EventuallyDelivered
