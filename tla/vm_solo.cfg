CONSTANTS
  p1 = p1  p2 = p2
  a1 = a1  a2 = a2  a3 = a3  a4 = a4  b1 = b1  b2 = b2  b3 = b3
  f1 = f1  f2 = f2  f3 = f3
  s1 = s1  s2 = s2
  None = None
  Proc = {p1}
  Page = {a1, a2, a3, a4}
  Frame = {f1, f2}
  Slot = {s1, s2}
  Owner <- MCOwner
  Kind <- MCKind
  Region <- MCRegion
  Calls = {"store", "munmap", "exit", "short_read", "no_memory"}
  Buffers = {a1, a2}
SYMMETRY Symmetry
SPECIFICATION Spec
INVARIANTS TableInv ContentInv StoresSurvive DeadOwnNothing NoPanic
PROPERTIES PagingTransparent
