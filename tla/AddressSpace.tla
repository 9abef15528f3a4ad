---------------------------- MODULE AddressSpace ----------------------------
(***************************************************************************)
(* What demand paging promises the programs, without frames, slots or page *)
(* tables: a page of the address space holds what was last stored in it.   *)
(* A page of a mapped file keeps its contents when the mapping goes, and   *)
(* shows them when it is mapped again.  Every other page is lost with its  *)
(* process.                                                                *)
(***************************************************************************)
CONSTANTS
  Pages,
  Files,      \* pages of files that can be mapped
  Stacks,     \* pages of stacks, which grow
  Texts,      \* what pages of files and executables hold at first
  Written,    \* Written[pg]: what the program stores in pg
  Contents,   \* what a page may hold
  Lost        \* instead of contents

VARIABLES
  known,  \* pages in the address spaces
  data    \* what each page holds

space_vars == <<known, data>>

Init ==
  /\ known = Pages \ (Files \cup Stacks)
  /\ data = [pg \in Pages |-> IF pg \in Stacks THEN Lost ELSE Texts[pg]]

Store(pg) ==
  /\ pg \in known
  /\ data' = [data EXCEPT ![pg] = Written[pg]]
  /\ UNCHANGED known

\* The pages of a file appear with what the file holds.
Map(new) ==
  /\ known' = known \cup new
  /\ UNCHANGED data

\* A new page of the stack: nothing is promised of its contents.
Grow(pg) ==
  /\ pg \notin known
  /\ known' = known \cup {pg}
  /\ \E d \in Contents : data' = [data EXCEPT ![pg] = d]

\* munmap, or the end of the process.
Leave(pg) ==
  /\ pg \in known
  /\ known' = known \ {pg}
  /\ data' = IF pg \in Files THEN data ELSE [data EXCEPT ![pg] = Lost]

Next ==
  \/ \E pg \in Pages : Store(pg)
  \/ \E new \in SUBSET (Files \ known) : Map(new)
  \/ \E pg \in Stacks : Grow(pg)
  \/ \E pg \in Pages : Leave(pg)

Spec == Init /\ [][Next]_space_vars
=============================================================================
