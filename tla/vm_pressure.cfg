CONSTANTS
  p1 = p1  p2 = p2
  a1 = a1  a2 = a2  a3 = a3  a4 = a4  b1 = b1  b2 = b2  b3 = b3
  f1 = f1  f2 = f2  f3 = f3
  s1 = s1  s2 = s2
  None = None
  Proc = {p1, p2}
  Page = {a1, a2, b3}
  Frame = {f1, f2}
  Slot = {s1, s2}
  Owner <- MCOwner
  Kind <- MCKind
  Region <- MCRegion
  Calls = {"store"}
  Buffers = {}
SYMMETRY Symmetry
SPECIFICATION Spec
INVARIANTS TypeOK FramePartition MappingsAreTabled LoadedIsMapped SwapSlotsOwned NoForeignData NoPanic
PROPERTY PinnedStaysMapped
