------------------------------- MODULE Mutex -------------------------------
(***************************************************************************)
(* What locks promise (threads/synch.c, the comment of lock_init): a lock  *)
(* is free or has one owner, and only the owner gives it back.  A thread   *)
(* that dies may give back several at once.                                *)
(***************************************************************************)
CONSTANTS Locks, Owners, Nobody

VARIABLES
  owner,  \* who has each lock
  actor   \* who runs

Init == owner = [l \in Locks |-> Nobody] /\ actor \in Owners

Acquire(l) == owner[l] = Nobody /\ owner'[l] = actor

Release(l) == owner[l] = actor /\ owner'[l] = Nobody

Next ==
  /\ owner' \in [Locks -> Owners \cup {Nobody}]
  /\ \A l \in Locks : owner'[l] = owner[l] \/ Acquire(l) \/ Release(l)

Spec == Init /\ [][Next]_owner
=============================================================================
