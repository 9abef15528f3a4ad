-------------------------- MODULE MCVirtualMemory ---------------------------
EXTENDS VMInvariants, TLC

CONSTANTS p1, p2, a1, a2, a3, a4, b1, b2, b3, f1, f2, f3, s1, s2

MCKind ==
  [pg \in Page |-> CASE pg = a1 -> "FILE" [] pg = a2 -> "MMAP" [] pg = a3 -> "ZERO"
                     [] pg = b1 -> "FILE" [] pg \in {a4, b2} -> "STACK" [] OTHER -> "ZERO"]
MCOwner == [pg \in Page |-> IF pg \in {a1, a2, a3, a4} THEN p1 ELSE p2]
MCRegion == [p \in Proc |-> IF p = p1 /\ a2 \in Page THEN <<a2>> ELSE <<>>]

\* Frames and slots are interchangeable: palloc and the swap bitmap hand out any
\* free one, and nothing orders them.
Symmetry == Permutations(Frame) \cup Permutations(Slot)
=============================================================================
