----------------------------- MODULE KernelList ----------------------------
(***************************************************************************)
(* struct list of the kernel library (lib/kernel/list.h), outside the      *)
(* repository: a doubly linked list between two sentinels that stand in    *)
(* the structure that owns the list.  An element stands in the structure   *)
(* it queues, so it can be in one list only and nothing checks that it is. *)
(* links holds the two pointers of every sentinel and element.             *)
(***************************************************************************)
EXTENDS Integers

list_head(q) == <<"head", q>>
list_tail(q) == <<"tail", q>>

\* list_push_back stores four pointers; interrupts may come in between.
PointElem(links, q, e) ==
  [links EXCEPT !.prev[e] = links.prev[list_tail(q)], !.next[e] = list_tail(q)]

LinkElem(links, q, e) == [links EXCEPT !.next[links.prev[list_tail(q)]] = e]

CloseElem(links, q, e) == [links EXCEPT !.prev[list_tail(q)] = e]

list_push_back(links, q, e) ==
  CloseElem(LinkElem(PointElem(links, q, e), q, e), q, e)

\* The element's own pointers stay as they are.
list_remove(links, e) ==
  [links EXCEPT !.next[links.prev[e]] = links.next[e],
                !.prev[links.next[e]] = links.prev[e]]

\* The nodes of list q as next leads to them, up to the n-th; a walk that meets
\* a NULL stays there.
Walk(links, q, n) ==
  LET node[i \in 0 .. n] ==
        IF i = 0 THEN list_head(q)
        ELSE IF node[i - 1] \in DOMAIN links.next THEN links.next[node[i - 1]]
        ELSE node[i - 1]
  IN  node

\* The list ends at its own tail after k elements, and they are es; both
\* directions agree.
Holds(links, q, es, n) ==
  \E k \in 0 .. n :
    LET node == Walk(links, q, k + 1)
    IN  /\ node[k + 1] = list_tail(q)
        /\ {node[i] : i \in 1 .. k} = es
        /\ \A i, j \in 1 .. k : i # j => node[i] # node[j]
        /\ \A i \in 0 .. k : links.prev[node[i + 1]] = node[i]
=============================================================================
