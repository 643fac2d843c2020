\* Three keys over two slots, polled while samples arrive; routers are lost and return.
SPECIFICATION Spec
CONSTANTS
  Keys = {k1, k2, k3}
  Size = 2
  Capacity = 2
  MaxDeclares = 3
  MaxFrames = 3
  MaxLosses = 2
SYMMETRY Symmetry
INVARIANTS TableMatchesFacade PolledNeverLost NobodyStarves
