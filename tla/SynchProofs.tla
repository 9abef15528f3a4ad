---------------------------- MODULE SynchProofs -----------------------------
(***************************************************************************)
(* Each thread is in the one queue that its status says, no wake-up is     *)
(* lost, and lock_lists and all_list hold what they ought to hold.  A step *)
(* is proved in stages, so that the invariant of the queues is stated for  *)
(* statuses st, ready list q, waiters w, steps td and idle thread idle     *)
(* that stand between two states.                                          *)
(*                                                                         *)
(* The lists are pointers, so they are proved about as sequences: Chained  *)
(* says that a list holds xs, and each operation of the kernel library     *)
(* turns one such sequence into another.  What walks along a list, or      *)
(* folds over one, is a recursive function of numbers; Least and UpTo give *)
(* the induction that such functions need.                                 *)
(***************************************************************************)
EXTENDS SynchLocks, FiniteSetTheorems, WellFoundedInduction

Distinct(q) == \A i, j \in DOMAIN q : q[i] = q[j] => i = j
In(u, q) == \E i \in DOMAIN q : q[i] = u

\* t has yet to end thread_create of u.
Creates(td, t, i, u) == i \in DOMAIN td[t] /\ td[t][i] = <<"process", u>>

ReadyOK(st, q, idle) ==
  /\ Distinct(q)
  /\ \A u \in Threads : In(u, q) <=> st[u] = "READY" /\ u # idle

WaitOK(st, w, td) ==
  \A s \in AllSemas :
    /\ Distinct(w[s])
    /\ \A u \in Threads : In(u, w[s]) =>
         st[u] = "BLOCKED" /\ u # first_idle /\ td[u] # <<>> /\ Head(td[u]) = <<"woken", s>>

UnbornOK(st, w, td) ==
  \A t, u \in Threads, i \in Nat : Creates(td, t, i, u) =>
    /\ st[u] = "BLOCKED" /\ u # first_idle /\ \A s \in AllSemas : ~In(u, w[s])
    /\ \A v \in Threads, j \in Nat : Creates(td, v, j, u) => v = t /\ j = i

BlockedOK(st, w, td, idle) ==
  \A u \in Threads : st[u] = "BLOCKED" =>
    \/ u = idle
    \/ \E v \in Threads, i \in Nat : Creates(td, v, i, u)
    \/ \E s \in AllSemas : In(u, w[s])

\* The idle thread does its few steps, and no other thread has them.
IdleOK(st, td, idle) ==
  /\ idle = None =>
       /\ td[first_idle] = << <<"start">>, <<"up", "idle_started">>, <<"idle">> >>
       /\ st[first_idle] \in {"READY", "RUNNING"}
  /\ idle # None =>
       /\ idle = first_idle
       /\ td[first_idle] \in {<< <<"up", "idle_started">>, <<"idle">> >>, << <<"idle">> >>}
       /\ st[first_idle] \in {"READY", "RUNNING", "BLOCKED"}
  /\ \A t \in Threads \ {first_idle} : \A i \in DOMAIN td[t] :
       td[t][i] \notin {<<"start">>, <<"idle">>}

\* cond_broadcast has nothing to do after its loop.
LastOK(td) ==
  \A t \in Threads, c \in Conds : \A i \in DOMAIN td[t] :
    td[t][i] = <<"broadcast", c>> => i = Len(td[t])

QueueOK(st, q, w, td, idle) ==
  /\ ReadyOK(st, q, idle)
  /\ WaitOK(st, w, td)
  /\ UnbornOK(st, w, td)
  /\ BlockedOK(st, w, td, idle)
  /\ IdleOK(st, td, idle)
  /\ LastOK(td)

RunsOne == \A t \in Threads : status[t] = "RUNNING" <=> t = running

QueueInv == QueueOK(status, ready_list, waiters, todo, idle_thread) /\ RunsOne

-----------------------------------------------------------------------------

LEMMA HeadGone ==
  ASSUME NEW q \in Seq(Threads), q # <<>>, Distinct(q)
  PROVE  Distinct(Tail(q)) /\ \A u : In(u, Tail(q)) <=> In(u, q) /\ u # Head(q)
<1>1. /\ DOMAIN q = 1 .. Len(q) /\ DOMAIN Tail(q) = 1 .. Len(q) - 1
      /\ Len(q) \in Nat /\ \A i \in 1 .. Len(q) - 1 : Tail(q)[i] = q[i + 1]
      /\ Head(q) = q[1] /\ 1 \in DOMAIN q
  OBVIOUS
<1>2. ASSUME NEW i \in 1 .. Len(q) - 1, NEW j \in 1 .. Len(q) - 1, Tail(q)[i] = Tail(q)[j]
      PROVE  i = j
  <2>1. i + 1 \in DOMAIN q /\ j + 1 \in DOMAIN q /\ q[i + 1] = q[j + 1]
    BY <1>1, <1>2
  <2>2. i + 1 = j + 1
    BY <2>1 DEF Distinct
  <2> QED
    BY <2>2
<1>3. ASSUME NEW i \in 1 .. Len(q) - 1 PROVE In(Tail(q)[i], q) /\ Tail(q)[i] # Head(q)
  <2>1. i + 1 \in DOMAIN q /\ q[i + 1] = Tail(q)[i] /\ i + 1 # 1
    BY <1>1
  <2> QED
    BY <1>1, <2>1 DEF In, Distinct
<1>4. ASSUME NEW i \in DOMAIN q, q[i] # Head(q) PROVE In(q[i], Tail(q))
  <2>1. i - 1 \in 1 .. Len(q) - 1 /\ Tail(q)[i - 1] = q[i]
    BY <1>1, <1>4
  <2> QED
    BY <1>1, <2>1 DEF In
<1>5. ASSUME NEW u PROVE In(u, Tail(q)) <=> In(u, q) /\ u # Head(q)
  BY <1>1, <1>3, <1>4 DEF In
<1> QED
  BY <1>1, <1>2, <1>5 DEF Distinct

LEMMA TailOps ==
  ASSUME NEW q \in Seq(Op), q # <<>>
  PROVE  /\ \A i \in Nat : \A op : op # Head(q) =>
              ((i \in DOMAIN Tail(q) /\ Tail(q)[i] = op) <=> (i + 1 \in DOMAIN q /\ q[i + 1] = op))
         /\ \A i \in DOMAIN Tail(q) :
              i \in Nat /\ i + 1 \in DOMAIN q /\ Tail(q)[i] = q[i + 1]
         /\ Len(Tail(q)) = Len(q) - 1 /\ 1 \in DOMAIN q /\ q[1] = Head(q) /\ Len(q) \in Nat
<1>1. /\ DOMAIN q = 1 .. Len(q) /\ DOMAIN Tail(q) = 1 .. Len(q) - 1 /\ Len(Tail(q)) = Len(q) - 1
      /\ Len(q) \in Nat /\ \A i \in 1 .. Len(q) - 1 : Tail(q)[i] = q[i + 1]
      /\ Head(q) = q[1] /\ 1 \in DOMAIN q
  OBVIOUS
<1>2. ASSUME NEW i \in Nat, NEW op, op # Head(q)
      PROVE  (i \in DOMAIN Tail(q) /\ Tail(q)[i] = op) <=> (i + 1 \in DOMAIN q /\ q[i + 1] = op)
  <2>1. CASE i = 0
    BY <1>1, <1>2, <2>1
  <2>2. CASE i # 0
    <3>1. i \in 1 .. Len(q) - 1 <=> i + 1 \in 1 .. Len(q)
      BY <1>1, <2>2
    <3> QED
      BY <1>1, <3>1
  <2> QED
    BY <2>1, <2>2
<1>3. \A i \in 1 .. Len(q) - 1 : i \in Nat /\ i + 1 \in 1 .. Len(q)
  BY <1>1
<1> QED
  BY <1>1, <1>2, <1>3

-----------------------------------------------------------------------------

LEMMA IdleBusy ==
  ASSUME NEW st, NEW td, NEW idle, IdleOK(st, td, idle)
  PROVE  /\ td[first_idle] # <<>>
         /\ Head(td[first_idle]) \in {<<"start">>, <<"up", "idle_started">>, <<"idle">>}
<1>1. \A a, b, c : <<a, b, c>> # <<>> /\ Head(<<a, b, c>>) = a
  OBVIOUS
<1>2. \A a, b : <<a, b>> # <<>> /\ Head(<<a, b>>) = a
  OBVIOUS
<1>3. \A a : <<a>> # <<>> /\ Head(<<a>>) = a
  OBVIOUS
<1>4. PICK a, b, c : a = <<"start">> /\ b = <<"up", "idle_started">> /\ c = <<"idle">>
  OBVIOUS
<1>5. td[first_idle] \in {<<a, b, c>>, <<b, c>>, <<c>>}
  BY <1>4 DEF IdleOK
<1>6. td[first_idle] # <<>> /\ Head(td[first_idle]) \in {a, b, c}
  BY <1>1, <1>2, <1>3, <1>5
<1> QED
  BY <1>4, <1>6

\* Stages of a step.

LEMMA Dispatch ==
  ASSUME NEW t \in Threads, NEW st \in Statuses, NEW sts \in [Threads -> Statuses],
         NEW q \in Seq(Threads), NEW w, NEW td, idle_thread \in Threads \cup {None},
         NEW st0, st0 = [sts EXCEPT ![t] = AfterSwitch(t, st)],
         \A u \in Threads : st0[u] # "RUNNING",
         QueueOK(st0, q, w, td, idle_thread), Schedule(t, st, sts, q)
  PROVE  QueueOK(status', ready_list', w, td, idle_thread) /\ RunsOne' /\ panic' = panic
<1> DEFINE next == next_thread_to_run(q)
<1>0. /\ ReadyOK(st0, q, idle_thread) /\ WaitOK(st0, w, td) /\ UnbornOK(st0, w, td)
      /\ BlockedOK(st0, w, td, idle_thread) /\ IdleOK(st0, td, idle_thread) /\ LastOK(td)
  BY DEF QueueOK
<1>1. q # <<>> => next = Head(q) /\ next \in Threads /\ st0[next] = "READY" /\ next # idle_thread
  <2> SUFFICES ASSUME q # <<>>
               PROVE  next = Head(q) /\ next \in Threads /\ st0[next] = "READY" /\ next # idle_thread
    OBVIOUS
  <2>1. 1 \in DOMAIN q /\ q[1] = Head(q) /\ Head(q) \in Threads
    OBVIOUS
  <2> QED
    BY <1>0, <2>1 DEF ReadyOK, In, next_thread_to_run
<1>2. q = <<>> => next = idle_thread /\ next = first_idle /\ next \in Threads
  <2> SUFFICES ASSUME q = <<>> PROVE idle_thread = first_idle
    BY ThreadConstants DEF next_thread_to_run
  <2>1. idle_thread = None => st0[first_idle] = "READY" /\ In(first_idle, q)
    BY <1>0, ThreadConstants DEF IdleOK, ReadyOK
  <2> QED
    BY <1>0, <2>1 DEF IdleOK, In
<1>3. next \in Threads /\ next # None
  BY <1>1, <1>2, ThreadConstants
<1>4. /\ status' = [st0 EXCEPT ![next] = "RUNNING"] /\ ready_list' = PopFront(q)
      /\ running' = next /\ panic' = panic
  BY <1>3 DEF Schedule
<1>5. st0 \in [Threads -> Statuses]
  BY DEF AfterSwitch, Statuses
<1> HIDE DEF next
<1>6. \A u \in Threads : status'[u] = IF u = next THEN "RUNNING" ELSE st0[u]
  BY <1>4, <1>5
<1>7. RunsOne'
  BY <1>4, <1>6 DEF RunsOne
<1>8. st0[next] = "BLOCKED" => next = idle_thread /\ next = first_idle
  BY <1>1, <1>2
<1>9. ReadyOK(status', ready_list', idle_thread)
  <2>1. CASE q = <<>>
    <3>1. ready_list' = q
      BY <1>4, <2>1 DEF PopFront
    <3>2. \A u \in Threads : status'[u] = "READY" /\ u # idle_thread <=> st0[u] = "READY" /\ u # idle_thread
      BY <1>2, <1>6, <2>1
    <3> QED
      BY <1>0, <3>1, <3>2 DEF ReadyOK
  <2>2. CASE q # <<>>
    <3>1. ready_list' = Tail(q)
      BY <1>4, <2>2 DEF PopFront
    <3>2. Distinct(q)
      BY <1>0 DEF ReadyOK
    <3>3. Distinct(ready_list')
      BY <2>2, <3>1, <3>2, HeadGone
    <3>4. ASSUME NEW u \in Threads PROVE In(u, ready_list') <=> In(u, q) /\ u # next
      BY <1>1, <2>2, <3>1, <3>2, HeadGone
    <3> QED
      BY <1>0, <1>1, <1>6, <2>2, <3>3, <3>4 DEF ReadyOK
  <2> QED
    BY <2>1, <2>2
<1>10. \A u \in Threads : st0[u] = "BLOCKED" /\ u # first_idle => status'[u] = "BLOCKED"
  BY <1>6, <1>8
<1>11. WaitOK(status', w, td) /\ UnbornOK(status', w, td)
  BY <1>0, <1>10 DEF WaitOK, UnbornOK
<1>12. BlockedOK(status', w, td, idle_thread)
  BY <1>0, <1>6 DEF BlockedOK
<1>13. IdleOK(status', td, idle_thread)
  BY <1>0, <1>6, ThreadConstants DEF IdleOK
<1> QED
  BY <1>0, <1>4, <1>7, <1>9, <1>11, <1>12, <1>13 DEF QueueOK

LEMMA ReadyAppend ==
  ASSUME NEW st, NEW st2, NEW idle, NEW q \in Seq(Threads), ReadyOK(st, q, idle),
         NEW us \in Seq(Threads), Distinct(us),
         \A i \in DOMAIN us : st[us[i]] # "READY" /\ us[i] # idle,
         \A u \in Threads :
           st2[u] = "READY" /\ u # idle <=> (st[u] = "READY" /\ u # idle) \/ In(u, us)
  PROVE  q \o us \in Seq(Threads) /\ ReadyOK(st2, q \o us, idle)
<1> DEFINE r == q \o us
<1>0. /\ r \in Seq(Threads) /\ DOMAIN r = 1 .. Len(q) + Len(us)
      /\ DOMAIN q = 1 .. Len(q) /\ DOMAIN us = 1 .. Len(us) /\ Len(q) \in Nat /\ Len(us) \in Nat
      /\ \A i \in 1 .. Len(q) : r[i] = q[i]
      /\ \A i \in 1 .. Len(us) : r[Len(q) + i] = us[i]
  OBVIOUS
<1> HIDE DEF r
<1>1. \A i \in DOMAIN q : q[i] \in Threads /\ st[q[i]] = "READY"
  BY DEF ReadyOK, In
<1>2. ASSUME NEW i \in DOMAIN r
      PROVE  \/ i \in DOMAIN q /\ r[i] = q[i]
             \/ i > Len(q) /\ i \notin DOMAIN q /\ i - Len(q) \in DOMAIN us /\ r[i] = us[i - Len(q)]
  <2>1. CASE i <= Len(q)
    BY <1>0, <2>1
  <2>2. CASE i > Len(q)
    <3>1. i - Len(q) \in 1 .. Len(us) /\ i = Len(q) + (i - Len(q))
      BY <1>0, <2>2
    <3>2. r[i] = us[i - Len(q)]
      BY <1>0, <3>1
    <3> QED
      BY <1>0, <2>2, <3>1, <3>2
  <2> QED
    BY <1>0, <2>1, <2>2
<1>3. Distinct(r)
  <2> SUFFICES ASSUME NEW i \in DOMAIN r, NEW j \in DOMAIN r, r[i] = r[j] PROVE i = j
    BY DEF Distinct
  <2>1. CASE i \in DOMAIN q /\ j \in DOMAIN q
    BY <1>2, <1>0, <2>1 DEF ReadyOK, Distinct
  <2>2. CASE i \notin DOMAIN q /\ j \notin DOMAIN q
    <3>1. i - Len(q) = j - Len(q)
      BY <1>2, <2>2 DEF Distinct
    <3> QED
      BY <1>0, <3>1
  <2>3. CASE i \in DOMAIN q /\ j \notin DOMAIN q
    <3>1. r[i] = q[i] /\ st[r[i]] = "READY"
      BY <1>0, <1>1, <2>3
    <3>2. j - Len(q) \in DOMAIN us /\ r[j] = us[j - Len(q)]
      BY <1>2, <2>3
    <3> QED
      BY <3>1, <3>2
  <2>4. CASE i \notin DOMAIN q /\ j \in DOMAIN q
    <3>1. r[j] = q[j] /\ st[r[j]] = "READY"
      BY <1>0, <1>1, <2>4
    <3>2. i - Len(q) \in DOMAIN us /\ r[i] = us[i - Len(q)]
      BY <1>2, <2>4
    <3> QED
      BY <3>1, <3>2
  <2> QED
    BY <2>1, <2>2, <2>3, <2>4
<1>4. ASSUME NEW u \in Threads PROVE In(u, r) <=> In(u, q) \/ In(u, us)
  <2>1. In(u, r) => In(u, q) \/ In(u, us)
    BY <1>2 DEF In
  <2>2. In(u, q) => In(u, r)
    BY <1>0 DEF In
  <2>3. ASSUME NEW i \in DOMAIN us, us[i] = u PROVE In(u, r)
    <3>1. Len(q) + i \in DOMAIN r /\ r[Len(q) + i] = u
      BY <1>0, <2>3
    <3> QED
      BY <3>1 DEF In
  <2> QED
    BY <2>1, <2>2, <2>3 DEF In
<1>5. ReadyOK(st2, r, idle)
  BY <1>3, <1>4 DEF ReadyOK
<1> QED
  BY <1>0, <1>5 DEF r

\* The thread that runs becomes ready.
LEMMA PreemptOK ==
  ASSUME NEW t \in Threads, NEW st \in [Threads -> Statuses], NEW q \in Seq(Threads),
         NEW w, NEW td, NEW idle, QueueOK(st, q, w, td, idle), st[t] = "RUNNING", t # idle
  PROVE  Append(q, t) \in Seq(Threads)
         /\ QueueOK([st EXCEPT ![t] = "READY"], Append(q, t), w, td, idle)
<1> DEFINE st2 == [st EXCEPT ![t] = "READY"]
<1>1. \A u \in Threads : st2[u] = IF u = t THEN "READY" ELSE st[u]
  OBVIOUS
<1> HIDE DEF st2
<1>2. <<t>> \in Seq(Threads) /\ Distinct(<<t>>) /\ (\A u : In(u, <<t>>) <=> u = t)
      /\ \A i \in DOMAIN <<t>> : <<t>>[i] = t
  BY DEF Distinct, In
<1>3. q \o <<t>> = Append(q, t)
  OBVIOUS
<1>4. Append(q, t) \in Seq(Threads) /\ ReadyOK(st2, Append(q, t), idle)
  <2>1. PICK us : us = <<t>>
    OBVIOUS
  <2>2. /\ us \in Seq(Threads) /\ Distinct(us)
        /\ \A i \in DOMAIN us : st[us[i]] # "READY" /\ us[i] # idle
        /\ \A u \in Threads :
             st2[u] = "READY" /\ u # idle <=> (st[u] = "READY" /\ u # idle) \/ In(u, us)
    BY <1>1, <1>2, <2>1
  <2>3. q \o us \in Seq(Threads) /\ ReadyOK(st2, q \o us, idle)
    BY <2>2, ReadyAppend DEF QueueOK
  <2> QED
    BY <1>3, <2>1, <2>3
<1>5. \A u \in Threads : st[u] = "BLOCKED" <=> st2[u] = "BLOCKED"
  BY <1>1
<1>6. WaitOK(st2, w, td) /\ UnbornOK(st2, w, td) /\ BlockedOK(st2, w, td, idle)
  BY <1>5 DEF QueueOK, WaitOK, UnbornOK, BlockedOK
<1>7. IdleOK(st2, td, idle)
  BY <1>1, ThreadConstants DEF QueueOK, IdleOK
<1> QED
  BY <1>4, <1>6, <1>7 DEF QueueOK, st2

\* The thread that runs dies, or the idle thread stops running.
LEMMA LeaveOK ==
  ASSUME NEW t \in Threads, NEW st \in [Threads -> Statuses], NEW x \in Statuses,
         NEW q, NEW w, NEW td, NEW idle, QueueOK(st, q, w, td, idle), st[t] = "RUNNING",
         \/ x \in {"DYING", "FREE"} /\ t # first_idle
         \/ x \in {"READY", "BLOCKED"} /\ t = idle
  PROVE  QueueOK([st EXCEPT ![t] = x], q, w, td, idle)
<1> DEFINE st2 == [st EXCEPT ![t] = x]
<1>1. \A u \in Threads : st2[u] = IF u = t THEN x ELSE st[u]
  OBVIOUS
<1> HIDE DEF st2
<1>2. idle = None \/ idle = first_idle
  BY DEF QueueOK, IdleOK
<1>3. ReadyOK(st2, q, idle)
  BY <1>1 DEF QueueOK, ReadyOK
<1>4. \A u \in Threads : st[u] = "BLOCKED" => st2[u] = "BLOCKED"
  BY <1>1
<1>5. WaitOK(st2, w, td) /\ UnbornOK(st2, w, td)
  BY <1>4 DEF QueueOK, WaitOK, UnbornOK
<1>6. BlockedOK(st2, w, td, idle)
  BY <1>1 DEF QueueOK, BlockedOK
<1>7. IdleOK(st2, td, idle)
  BY <1>1, <1>2, ThreadConstants DEF QueueOK, IdleOK
<1> QED
  BY <1>3, <1>5, <1>6, <1>7 DEF QueueOK, st2

\* The thread that runs has other steps before it, and creates the same threads.
LEMMA TodoOK ==
  ASSUME NEW t \in Threads, NEW st, NEW q, NEW w, NEW idle, NEW td \in [Threads -> Seq(Op)],
         QueueOK(st, q, w, td, idle), st[t] = "RUNNING",
         NEW steps, NEW k \in {0, 1}, NEW idle2 \in {idle} \cup {t},
         \A u \in Threads, i \in Nat :
           (i \in DOMAIN steps /\ steps[i] = <<"process", u>>) <=> Creates(td, t, i + k, u),
         \A c \in Conds, i \in DOMAIN steps : steps[i] = <<"broadcast", c>> => i = Len(steps),
         IdleOK(st, [td EXCEPT ![t] = steps], idle2)
  PROVE  QueueOK(st, q, w, [td EXCEPT ![t] = steps], idle2)
<1> DEFINE td2 == [td EXCEPT ![t] = steps]
<1>1. \A u \in Threads : td2[u] = IF u = t THEN steps ELSE td[u]
  OBVIOUS
<1> HIDE DEF td2
<1>i. idle2 = idle \/ idle = None
  BY ThreadConstants DEF IdleOK, QueueOK
<1>2. ReadyOK(st, q, idle2)
  <2>1. \A u \in Threads : st[u] = "READY" => (u # idle <=> u # idle2)
    BY <1>i, ThreadConstants
  <2> QED
    BY <2>1 DEF QueueOK, ReadyOK
<1>3. \A u \in Threads, s \in AllSemas : In(u, w[s]) => u # t
  BY DEF QueueOK, WaitOK
<1>4. WaitOK(st, w, td2)
  BY <1>1, <1>3 DEF QueueOK, WaitOK
<1>5. \A u \in Threads, i \in Nat : Creates(td2, t, i, u) <=> Creates(td, t, i + k, u)
  BY <1>1 DEF Creates
<1>6. \A v, u \in Threads, i \in Nat : v # t => (Creates(td2, v, i, u) <=> Creates(td, v, i, u))
  BY <1>1 DEF Creates
<1>7. UnbornOK(st, w, td2)
  <2> SUFFICES ASSUME NEW v \in Threads, NEW u \in Threads, NEW i \in Nat, Creates(td2, v, i, u)
               PROVE  /\ st[u] = "BLOCKED" /\ u # first_idle /\ \A s \in AllSemas : ~In(u, w[s])
                      /\ \A v2 \in Threads, j \in Nat : Creates(td2, v2, j, u) => v2 = v /\ j = i
    BY DEF UnbornOK
  <2>1. PICK m \in Nat : Creates(td, v, m, u) /\ m = IF v = t THEN i + k ELSE i
    <3>1. CASE v = t
      <4>1. i + k \in Nat
        OBVIOUS
      <4> QED
        BY <1>5, <3>1, <4>1
    <3>2. CASE v # t
      BY <1>6, <3>2
    <3> QED
      BY <3>1, <3>2
  <2>2. /\ st[u] = "BLOCKED" /\ u # first_idle /\ \A s \in AllSemas : ~In(u, w[s])
        /\ \A v2 \in Threads, j \in Nat : Creates(td, v2, j, u) => v2 = v /\ j = m
    BY <2>1 DEF QueueOK, UnbornOK
  <2>3. ASSUME NEW v2 \in Threads, NEW j \in Nat, Creates(td2, v2, j, u) PROVE v2 = v /\ j = i
    <3>1. CASE v2 = t
      <4>1. j + k \in Nat /\ Creates(td, t, j + k, u)
        BY <1>5, <2>3, <3>1
      <4>2. t = v /\ j + k = m
        BY <2>2, <4>1
      <4> QED
        BY <2>1, <3>1, <4>2
    <3>2. CASE v2 # t
      BY <1>6, <2>1, <2>2, <2>3, <3>2
    <3> QED
      BY <3>1, <3>2
  <2> QED
    BY <2>2, <2>3
<1>8. BlockedOK(st, w, td2, idle2)
  <2> SUFFICES ASSUME NEW u \in Threads, st[u] = "BLOCKED"
               PROVE  \/ u = idle2
                      \/ \E v \in Threads, i \in Nat : Creates(td2, v, i, u)
                      \/ \E s \in AllSemas : In(u, w[s])
    BY DEF BlockedOK
  <2>1. CASE u = idle
    <3>1. idle2 = idle
      BY <1>i, <2>1, ThreadConstants
    <3> QED
      BY <2>1, <3>1
  <2>2. ASSUME NEW v \in Threads, NEW i \in Nat, Creates(td, v, i, u)
        PROVE  \E v2 \in Threads, j \in Nat : Creates(td2, v2, j, u)
    <3>1. CASE v # t
      BY <1>6, <2>2, <3>1
    <3>2. CASE v = t
      <4>1. i \in DOMAIN td[t] /\ td[t] \in Seq(Op)
        BY <2>2, <3>2 DEF Creates
      <4>2. i - k \in Nat /\ (i - k) + k = i
        BY <4>1
      <4>3. Creates(td2, t, i - k, u)
        BY <1>5, <2>2, <3>2, <4>2
      <4> QED
        BY <4>2, <4>3
    <3> QED
      BY <3>1, <3>2
  <2> QED
    BY <2>1, <2>2 DEF QueueOK, BlockedOK
<1>9. LastOK(td2)
  BY <1>1 DEF QueueOK, LastOK
<1> QED
  BY <1>2, <1>4, <1>7, <1>8, <1>9 DEF QueueOK, td2

\* sema_up of several semaphores: the first waiters become ready.
LEMMA UpOK ==
  ASSUME RestOK, QueueOK(status, ready_list, waiters, todo, idle_thread),
         NEW ss, Up(ss), NEW us \in Seq(Threads), Distinct(us),
         \A u \in Threads :
           In(u, us) <=> \E s \in AllSemas : s \in ss /\ waiters[s] # <<>> /\ u = Head(waiters[s])
  PROVE  /\ ready_list \o us \in Seq(Threads)
         /\ \A i \in DOMAIN us : status[us[i]] = "BLOCKED"
         /\ QueueOK([u \in Threads |-> IF u \in ToSet(us) THEN "READY" ELSE status[u]],
                    ready_list \o us, waiters', todo, idle_thread)
<1> DEFINE st2 == [u \in Threads |-> IF u \in ToSet(us) THEN "READY" ELSE status[u]]
<1>0. /\ ReadyOK(status, ready_list, idle_thread) /\ WaitOK(status, waiters, todo)
      /\ UnbornOK(status, waiters, todo) /\ BlockedOK(status, waiters, todo, idle_thread)
      /\ IdleOK(status, todo, idle_thread) /\ LastOK(todo)
      /\ ready_list \in Seq(Threads) /\ \A s \in AllSemas : waiters[s] \in Seq(Threads)
  BY DEF QueueOK, RestOK
<1>1. \A u \in Threads : st2[u] = IF In(u, us) THEN "READY" ELSE status[u]
  BY DEF ToSet, In
<1> HIDE DEF st2
<1>2. \A s \in AllSemas : waiters[s] # <<>> => In(Head(waiters[s]), waiters[s])
  <2>1. \A q \in Seq(Threads) : q # <<>> => 1 \in DOMAIN q /\ q[1] = Head(q)
    OBVIOUS
  <2> QED
    BY <1>0, <2>1 DEF In
<1>3. ASSUME NEW u \in Threads, In(u, us)
      PROVE  /\ status[u] = "BLOCKED" /\ u # first_idle
             /\ \A v \in Threads, i \in Nat : ~Creates(todo, v, i, u)
             /\ \E s \in AllSemas : s \in ss /\ In(u, waiters[s]) /\ u = Head(waiters[s])
  BY <1>0, <1>2, <1>3 DEF WaitOK, UnbornOK
<1>4. \A i \in DOMAIN us : us[i] \in Threads /\ In(us[i], us)
  BY DEF In
<1>5. idle_thread # None => idle_thread = first_idle
  BY <1>0 DEF IdleOK
<1>6. ready_list \o us \in Seq(Threads) /\ ReadyOK(st2, ready_list \o us, idle_thread)
  <2>1. \A i \in DOMAIN us : status[us[i]] # "READY" /\ us[i] # idle_thread
    BY <1>3, <1>4, <1>5, ThreadConstants
  <2>2. \A u \in Threads :
          st2[u] = "READY" /\ u # idle_thread <=> (status[u] = "READY" /\ u # idle_thread) \/ In(u, us)
    BY <1>1, <1>3, <1>5, ThreadConstants
  <2> QED
    BY <1>0, <2>1, <2>2, ReadyAppend
<1>7. ASSUME NEW s \in AllSemas
      PROVE  Distinct(waiters'[s]) /\ \A u \in Threads : In(u, waiters'[s]) <=> In(u, waiters[s]) /\ ~In(u, us)
  <2>0. Distinct(waiters[s])
    BY <1>0 DEF WaitOK
  <2>1. CASE s \notin ss \/ waiters[s] = <<>>
    <3>1. waiters'[s] = waiters[s]
      BY <2>1, UpTypes
    <3>2. ASSUME NEW u \in Threads, In(u, waiters[s]), In(u, us) PROVE FALSE
      <4>1. PICK s2 \in AllSemas : s2 \in ss /\ In(u, waiters[s2])
        BY <1>3, <3>2
      <4>2. <<"woken", s>> = <<"woken", s2>>
        BY <1>0, <3>2, <4>1 DEF WaitOK
      <4>3. s = s2
        BY <4>2
      <4> QED
        BY <2>1, <3>2, <4>1, <4>3 DEF In
    <3> QED
      BY <2>0, <3>1, <3>2
  <2>2. CASE s \in ss /\ waiters[s] # <<>>
    <3>1. waiters'[s] = Tail(waiters[s]) /\ waiters[s] \in Seq(Threads)
      BY <1>0, <2>2, UpTypes
    <3>2. Distinct(waiters'[s]) /\ \A u : In(u, waiters'[s]) <=> In(u, waiters[s]) /\ u # Head(waiters[s])
      BY <2>0, <2>2, <3>1, HeadGone
    <3>3. ASSUME NEW u \in Threads, In(u, waiters[s]) PROVE In(u, us) <=> u = Head(waiters[s])
      <4>1. u = Head(waiters[s]) => In(u, us)
        BY <2>2
      <4>2. ASSUME In(u, us) PROVE u = Head(waiters[s])
        <5>1. PICK s2 \in AllSemas : In(u, waiters[s2]) /\ u = Head(waiters[s2])
          BY <1>3, <4>2
        <5>2. <<"woken", s>> = <<"woken", s2>>
          BY <1>0, <3>3, <5>1 DEF WaitOK
        <5>3. s = s2
          BY <5>2
        <5> QED
          BY <5>1, <5>3
      <4> QED
        BY <4>1, <4>2
    <3> QED
      BY <3>2, <3>3
  <2> QED
    BY <2>1, <2>2
<1>8. WaitOK(st2, waiters', todo)
  BY <1>0, <1>1, <1>7 DEF WaitOK
<1>9. UnbornOK(st2, waiters', todo)
  BY <1>0, <1>1, <1>3, <1>7 DEF UnbornOK
<1>10. BlockedOK(st2, waiters', todo, idle_thread)
  BY <1>0, <1>1, <1>7 DEF BlockedOK
<1>11. IdleOK(st2, todo, idle_thread)
  BY <1>0, <1>1, ThreadConstants DEF IdleOK
<1> QED
  BY <1>0, <1>3, <1>4, <1>6, <1>8, <1>9, <1>10, <1>11 DEF QueueOK, st2

\* The thread that runs begins to wait for s.
LEMMA SleepOK ==
  ASSUME NEW t \in Threads, NEW s \in AllSemas, NEW st \in [Threads -> Statuses],
         NEW q, NEW w \in [AllSemas -> Seq(Threads)], NEW td, NEW idle,
         QueueOK(st, q, w, td, idle), st[t] = "RUNNING", t # first_idle,
         td[t] # <<>>, Head(td[t]) = <<"woken", s>>
  PROVE  QueueOK([st EXCEPT ![t] = "BLOCKED"], q, [w EXCEPT ![s] = Append(@, t)], td, idle)
<1> DEFINE st2 == [st EXCEPT ![t] = "BLOCKED"]
           w2 == [w EXCEPT ![s] = Append(@, t)]
<1>0. /\ ReadyOK(st, q, idle) /\ WaitOK(st, w, td) /\ UnbornOK(st, w, td)
      /\ BlockedOK(st, w, td, idle) /\ IdleOK(st, td, idle) /\ LastOK(td)
  BY DEF QueueOK
<1>1. \A u \in Threads : st2[u] = IF u = t THEN "BLOCKED" ELSE st[u]
  OBVIOUS
<1>2. \A s2 \in AllSemas : w2[s2] = IF s2 = s THEN Append(w[s], t) ELSE w[s2]
  OBVIOUS
<1> HIDE DEF st2, w2
<1>3. \A s2 \in AllSemas : ~In(t, w[s2])
  BY <1>0 DEF WaitOK
<1>4. /\ w[s] \in Seq(Threads) /\ Distinct(w[s])
      /\ Distinct(Append(w[s], t)) /\ \A u : In(u, Append(w[s], t)) <=> In(u, w[s]) \/ u = t
  <2>1. PICK p \in Seq(Threads) : p = w[s]
    OBVIOUS
  <2>2. /\ DOMAIN Append(p, t) = 1 .. Len(p) + 1 /\ DOMAIN p = 1 .. Len(p) /\ Len(p) \in Nat
        /\ Append(p, t)[Len(p) + 1] = t /\ \A i \in 1 .. Len(p) : Append(p, t)[i] = p[i]
    OBVIOUS
  <2>3. \A i \in 1 .. Len(p) : p[i] # t
    BY <1>3, <2>1, <2>2 DEF In
  <2>4. Distinct(p)
    BY <1>0, <2>1 DEF WaitOK
  <2>a. \A i \in 1 .. Len(p) + 1 : i \in 1 .. Len(p) \/ i = Len(p) + 1
    BY <2>2
  <2>5. Distinct(Append(p, t))
    BY <2>2, <2>3, <2>4, <2>a DEF Distinct
  <2>b. \A i \in 1 .. Len(p) : i \in 1 .. Len(p) + 1
    BY <2>2
  <2>c. Len(p) + 1 \in 1 .. Len(p) + 1
    BY <2>2
  <2>6. \A u : In(u, Append(p, t)) <=> In(u, p) \/ u = t
    BY <2>2, <2>a, <2>b, <2>c DEF In
  <2> QED
    BY <2>1, <2>4, <2>5, <2>6
<1>5. \A s2 \in AllSemas : \A u : In(u, w2[s2]) <=> In(u, w[s2]) \/ (u = t /\ s2 = s)
  BY <1>2, <1>4
<1>6. \A s2 \in AllSemas : Distinct(w2[s2])
  BY <1>0, <1>2, <1>4 DEF WaitOK
<1>7. WaitOK(st2, w2, td)
  BY <1>0, <1>1, <1>5, <1>6 DEF WaitOK
<1>8. UnbornOK(st2, w2, td)
  BY <1>0, <1>1, <1>5 DEF UnbornOK
<1>9. BlockedOK(st2, w2, td, idle)
  BY <1>0, <1>1, <1>5 DEF BlockedOK
<1>10. ReadyOK(st2, q, idle) /\ IdleOK(st2, td, idle)
  BY <1>0, <1>1, ThreadConstants DEF ReadyOK, IdleOK
<1> QED
  BY <1>0, <1>7, <1>8, <1>9, <1>10 DEF QueueOK, st2, w2

\* The thread that runs gets a page u and begins to create a thread there.
LEMMA CreateOK ==
  ASSUME NEW t \in Threads, NEW u \in Threads, NEW st \in [Threads -> Statuses],
         NEW q, NEW w, NEW td \in [Threads -> Seq(Op)], NEW idle,
         QueueOK(st, q, w, td, idle), st[t] = "RUNNING", st[u] = "FREE", td[t] = <<>>,
         NEW steps, NEW n \in DOMAIN steps, n \in Nat,
         \A i \in DOMAIN steps, v \in Threads : steps[i] = <<"process", v>> <=> i = n /\ v = u,
         \A i \in DOMAIN steps : steps[i] \notin {<<"start">>, <<"idle">>},
         \A i \in DOMAIN steps, c \in Conds : steps[i] # <<"broadcast", c>>
  PROVE  QueueOK([st EXCEPT ![u] = "BLOCKED"], q, w, [td EXCEPT ![t] = steps], idle)
<1> DEFINE st2 == [st EXCEPT ![u] = "BLOCKED"]
           td2 == [td EXCEPT ![t] = steps]
<1>0. /\ ReadyOK(st, q, idle) /\ WaitOK(st, w, td) /\ UnbornOK(st, w, td)
      /\ BlockedOK(st, w, td, idle) /\ IdleOK(st, td, idle) /\ LastOK(td)
  BY DEF QueueOK
<1>1. \A v \in Threads : st2[v] = IF v = u THEN "BLOCKED" ELSE st[v]
  OBVIOUS
<1>2. \A v \in Threads : td2[v] = IF v = t THEN steps ELSE td[v]
  OBVIOUS
<1> HIDE DEF st2, td2
<1>3. u # t /\ u # first_idle /\ t # first_idle
  <2>1. u # first_idle
    BY <1>0 DEF IdleOK
  <2>2. t # first_idle
    BY <1>0, IdleBusy
  <2> QED
    BY <2>1, <2>2
<1>4. \A v, x \in Threads, i \in Nat :
        Creates(td2, v, i, x) <=> Creates(td, v, i, x) \/ (v = t /\ i = n /\ x = u)
  <2>1. ASSUME NEW x \in Threads, NEW i \in Nat
        PROVE  Creates(td2, t, i, x) <=> i = n /\ x = u
    BY <1>2 DEF Creates
  <2>2. \A x, i : ~Creates(td, t, i, x)
    BY DEF Creates
  <2>3. \A v, x \in Threads, i \in Nat : v # t => (Creates(td2, v, i, x) <=> Creates(td, v, i, x))
    BY <1>2 DEF Creates
  <2> QED
    BY <2>1, <2>2, <2>3
<1>5. \A v \in Threads, i \in Nat : ~Creates(td, v, i, u)
  BY <1>0 DEF UnbornOK
<1>6. \A s \in AllSemas : ~In(u, w[s]) /\ ~In(t, w[s])
  BY <1>0 DEF WaitOK
<1>7. WaitOK(st2, w, td2)
  BY <1>0, <1>1, <1>2, <1>6 DEF WaitOK
<1>8. UnbornOK(st2, w, td2)
  BY <1>0, <1>1, <1>3, <1>4, <1>5, <1>6 DEF UnbornOK
<1>9. BlockedOK(st2, w, td2, idle)
  BY <1>0, <1>1, <1>4 DEF BlockedOK
<1>10. ReadyOK(st2, q, idle)
  BY <1>0, <1>1 DEF ReadyOK
<1>11. IdleOK(st2, td2, idle)
  BY <1>0, <1>1, <1>2, <1>3, ThreadConstants DEF IdleOK
<1>12. LastOK(td2)
  BY <1>0, <1>2 DEF LastOK
<1> QED
  BY <1>7, <1>8, <1>9, <1>10, <1>11, <1>12 DEF QueueOK, st2, td2

\* The thread that runs ends the creation of the thread at u.
LEMMA CreatedOK ==
  ASSUME NEW t \in Threads, NEW u \in Threads, NEW st \in [Threads -> Statuses],
         NEW q \in Seq(Threads), NEW w, NEW td \in [Threads -> Seq(Op)], NEW idle,
         QueueOK(st, q, w, td, idle), st[t] = "RUNNING",
         td[t] # <<>>, Head(td[t]) = <<"process", u>>,
         NEW x \in {"READY", "FREE"}, NEW q2,
         ReadyOK([st EXCEPT ![u] = x], q2, idle)
  PROVE  QueueOK([st EXCEPT ![u] = x], q2, w, [td EXCEPT ![t] = Tail(td[t])], idle)
<1> DEFINE st2 == [st EXCEPT ![u] = x]
           td2 == [td EXCEPT ![t] = Tail(td[t])]
<1>0. /\ ReadyOK(st, q, idle) /\ WaitOK(st, w, td) /\ UnbornOK(st, w, td)
      /\ BlockedOK(st, w, td, idle) /\ IdleOK(st, td, idle) /\ LastOK(td)
  BY DEF QueueOK
<1>1. \A v \in Threads : st2[v] = IF v = u THEN x ELSE st[v]
  OBVIOUS
<1>2. \A v \in Threads : td2[v] = IF v = t THEN Tail(td[t]) ELSE td[v]
  OBVIOUS
<1> HIDE DEF st2, td2
<1>3. td[t] \in Seq(Op) /\ 1 \in DOMAIN td[t] /\ td[t][1] = <<"process", u>>
  OBVIOUS
<1>4. Creates(td, t, 1, u)
  BY <1>3 DEF Creates
<1>5. /\ st[u] = "BLOCKED" /\ u # first_idle /\ \A s \in AllSemas : ~In(u, w[s])
      /\ \A v \in Threads, j \in Nat : Creates(td, v, j, u) => v = t /\ j = 1
  BY <1>0, <1>4 DEF UnbornOK
<1>6. t # first_idle /\ u # t
  <2>1. st[first_idle] # "BLOCKED" \/ idle # None
    BY <1>0 DEF IdleOK
  <2>2. t # first_idle
    <3>1. <<"process", u>> \notin {<<"start">>, <<"up", "idle_started">>, <<"idle">>}
      OBVIOUS
    <3> QED
      BY <1>0, <3>1, IdleBusy
  <2> QED
    BY <1>5, <2>2
<1>7. \A v, y \in Threads, i \in Nat : v # t => (Creates(td2, v, i, y) <=> Creates(td, v, i, y))
  BY <1>2 DEF Creates
<1>8. ASSUME NEW y \in Threads, NEW i \in Nat
      PROVE  Creates(td2, t, i, y) => y # u /\ Creates(td, t, i + 1, y)
  <2> SUFFICES ASSUME Creates(td2, t, i, y) PROVE y # u /\ Creates(td, t, i + 1, y)
    OBVIOUS
  <2>1. i + 1 \in DOMAIN td[t] /\ td[t][i + 1] = <<"process", y>> /\ i + 1 # 1 /\ i + 1 \in Nat
    <3>1. i \in DOMAIN Tail(td[t]) /\ Tail(td[t])[i] = <<"process", y>>
      BY <1>2 DEF Creates
    <3>2. i # 0
      BY <1>3, <3>1
    <3> QED
      BY <1>3, <3>1, <3>2, TailOps
  <2>2. Creates(td, t, i + 1, y)
    BY <2>1 DEF Creates
  <2> QED
    BY <1>5, <2>1, <2>2
<1>9. ASSUME NEW y \in Threads, y # u, NEW i \in Nat, Creates(td, t, i, y)
      PROVE  \E j \in Nat : Creates(td2, t, j, y)
  <2>1. i \in DOMAIN td[t] /\ td[t][i] = <<"process", y>> /\ <<"process", y>> # <<"process", u>>
    BY <1>9 DEF Creates
  <2>2. i # 1 /\ i - 1 \in Nat /\ (i - 1) + 1 = i
    BY <1>3, <2>1
  <2>3. i - 1 \in DOMAIN Tail(td[t]) /\ Tail(td[t])[i - 1] = <<"process", y>>
    BY <1>3, <2>1, <2>2, TailOps
  <2> QED
    BY <1>2, <2>2, <2>3 DEF Creates
<1>10. \A s \in AllSemas, v \in Threads : In(v, w[s]) => v # t /\ v # u
  BY <1>0, <1>5 DEF WaitOK
<1>11. WaitOK(st2, w, td2)
  BY <1>0, <1>1, <1>2, <1>10 DEF WaitOK
<1>12. UnbornOK(st2, w, td2)
  <2> SUFFICES ASSUME NEW v \in Threads, NEW y \in Threads, NEW i \in Nat, Creates(td2, v, i, y)
               PROVE  /\ st2[y] = "BLOCKED" /\ y # first_idle /\ \A s \in AllSemas : ~In(y, w[s])
                      /\ \A v2 \in Threads, j \in Nat : Creates(td2, v2, j, y) => v2 = v /\ j = i
    BY DEF UnbornOK
  <2>1. PICK m \in Nat : y # u /\ Creates(td, v, m, y) /\ m = IF v = t THEN i + 1 ELSE i
    <3>1. CASE v = t
      BY <1>8, <3>1
    <3>2. CASE v # t
      BY <1>5, <1>7, <3>2
    <3> QED
      BY <3>1, <3>2
  <2>2. /\ st[y] = "BLOCKED" /\ y # first_idle /\ \A s \in AllSemas : ~In(y, w[s])
        /\ \A v2 \in Threads, j \in Nat : Creates(td, v2, j, y) => v2 = v /\ j = m
    BY <1>0, <2>1 DEF UnbornOK
  <2>3. ASSUME NEW v2 \in Threads, NEW j \in Nat, Creates(td2, v2, j, y) PROVE v2 = v /\ j = i
    <3>1. CASE v2 = t
      <4>1. j + 1 \in Nat /\ Creates(td, t, j + 1, y)
        BY <1>8, <2>3, <3>1
      <4>2. t = v /\ j + 1 = m
        BY <2>2, <4>1
      <4> QED
        BY <2>1, <3>1, <4>2
    <3>2. CASE v2 # t
      BY <1>7, <2>1, <2>2, <2>3, <3>2
    <3> QED
      BY <3>1, <3>2
  <2> QED
    BY <1>1, <2>1, <2>2, <2>3
<1>13. BlockedOK(st2, w, td2, idle)
  <2> SUFFICES ASSUME NEW y \in Threads, st2[y] = "BLOCKED"
               PROVE  \/ y = idle
                      \/ \E v \in Threads, i \in Nat : Creates(td2, v, i, y)
                      \/ \E s \in AllSemas : In(y, w[s])
    BY DEF BlockedOK
  <2>1. y # u /\ st[y] = "BLOCKED"
    BY <1>1
  <2>2. ASSUME NEW v \in Threads, NEW i \in Nat, Creates(td, v, i, y)
        PROVE  \E v2 \in Threads, j \in Nat : Creates(td2, v2, j, y)
    BY <1>7, <1>9, <2>1, <2>2
  <2> QED
    BY <1>0, <2>1, <2>2 DEF BlockedOK
<1>14. IdleOK(st2, td2, idle)
  <2>1. \A i \in DOMAIN td2[t] : td2[t][i] \notin {<<"start">>, <<"idle">>}
    <3>1. \A i \in DOMAIN Tail(td[t]) : i + 1 \in DOMAIN td[t] /\ Tail(td[t])[i] = td[t][i + 1]
      BY <1>3, TailOps
    <3>2. td2[t] = Tail(td[t])
      BY <1>2
    <3>3. \A i \in DOMAIN td[t] : td[t][i] \notin {<<"start">>, <<"idle">>}
      BY <1>0, <1>6 DEF IdleOK
    <3> QED
      BY ONLY <3>1, <3>2, <3>3
  <2> QED
    BY <1>0, <1>1, <1>2, <1>5, <1>6, <2>1, ThreadConstants DEF IdleOK
<1>15. LastOK(td2)
  <2>1. ASSUME NEW c \in Conds, NEW i \in DOMAIN Tail(td[t]), Tail(td[t])[i] = <<"broadcast", c>>
        PROVE  i = Len(Tail(td[t]))
    <3>1. /\ i \in Nat /\ i + 1 \in DOMAIN td[t] /\ td[t][i + 1] = <<"broadcast", c>>
          /\ Len(Tail(td[t])) = Len(td[t]) - 1 /\ Len(td[t]) \in Nat
      BY <1>3, <2>1, TailOps
    <3>2. i + 1 = Len(td[t])
      BY <1>0, <3>1 DEF LastOK
    <3>3. \A a, b, d : a \in Nat /\ b \in Nat /\ d = b - 1 /\ a + 1 = b => a = d
      OBVIOUS
    <3> QED
      BY ONLY <3>1, <3>2, <3>3
  <2> QED
    BY <1>0, <1>2, <2>1 DEF LastOK
<1> QED
  BY <1>11, <1>12, <1>13, <1>14, <1>15 DEF QueueOK, st2, td2

\* The thread that runs ends a step that creates no thread.
LEMMA DoneOK ==
  ASSUME NEW t \in Threads, NEW st, NEW q, NEW w, NEW td \in [Threads -> Seq(Op)], NEW idle,
         QueueOK(st, q, w, td, idle), st[t] = "RUNNING",
         td[t] # <<>>, \A u \in Threads : Head(td[t]) # <<"process", u>>,
         Head(td[t]) \notin {<<"start">>, <<"idle">>}
  PROVE  QueueOK(st, q, w, [td EXCEPT ![t] = Tail(td[t])], idle)
<1> DEFINE td2 == [td EXCEPT ![t] = Tail(td[t])]
<1>0. IdleOK(st, td, idle) /\ LastOK(td) /\ td[t] \in Seq(Op)
  BY DEF QueueOK
<1>1. \A u \in Threads, i \in Nat :
        (i \in DOMAIN Tail(td[t]) /\ Tail(td[t])[i] = <<"process", u>>) <=> Creates(td, t, i + 1, u)
  BY <1>0, TailOps DEF Creates
<1>2. ASSUME NEW c \in Conds, NEW i \in DOMAIN Tail(td[t]), Tail(td[t])[i] = <<"broadcast", c>>
      PROVE  i = Len(Tail(td[t]))
  <2>1. /\ i \in Nat /\ i + 1 \in DOMAIN td[t] /\ td[t][i + 1] = <<"broadcast", c>>
        /\ Len(Tail(td[t])) = Len(td[t]) - 1 /\ Len(td[t]) \in Nat
    BY <1>0, <1>2, TailOps
  <2>2. i + 1 = Len(td[t])
    BY <1>0, <2>1 DEF LastOK
  <2>3. \A a, b, d : a \in Nat /\ b \in Nat /\ d = b - 1 /\ a + 1 = b => a = d
    OBVIOUS
  <2> QED
    BY ONLY <2>1, <2>2, <2>3
<1>3. \A u \in Threads : td2[u] = IF u = t THEN Tail(td[t]) ELSE td[u]
  OBVIOUS
<1>4. IdleOK(st, td2, idle)
  <2> HIDE DEF td2
  <2>1. CASE t = first_idle
    <3>1. PICK a, b, c : a = <<"start">> /\ b = <<"up", "idle_started">> /\ c = <<"idle">>
      OBVIOUS
    <3>2. td[t] \in {<<a, b, c>>, <<b, c>>, <<c>>} /\ Head(td[t]) # a /\ Head(td[t]) # c
      BY <1>0, <2>1, <3>1 DEF IdleOK
    <3>3. /\ \A x, y, z : Head(<<x, y, z>>) = x
          /\ \A x : Head(<<x>>) = x
      OBVIOUS
    <3>a. td[t] = <<b, c>>
      BY <3>2, <3>3
    <3>b. Tail(<<b, c>>) = <<c>>
      OBVIOUS
    <3>4. td[t] = <<b, c>> /\ Tail(td[t]) = <<c>>
      BY <3>a, <3>b
    <3>5. idle # None
      <4>1. <<a, b, c>> # <<b, c>>
        <5>1. Len(<<a, b, c>>) = 3 /\ Len(<<b, c>>) = 2
          OBVIOUS
        <5> QED
          BY <5>1
      <4> QED
        BY <1>0, <2>1, <3>1, <3>4, <4>1 DEF IdleOK
    <3> QED
      BY <1>0, <1>3, <2>1, <3>1, <3>4, <3>5, ThreadConstants DEF IdleOK
  <2>2. CASE t # first_idle
    <3>1. \A i \in DOMAIN Tail(td[t]) : i + 1 \in DOMAIN td[t] /\ Tail(td[t])[i] = td[t][i + 1]
      BY <1>0, TailOps
    <3>2. \A i \in DOMAIN td2[t] : td2[t][i] \notin {<<"start">>, <<"idle">>}
      BY <1>0, <1>3, <2>2, <3>1 DEF IdleOK
    <3> QED
      BY <1>0, <1>3, <2>2, <3>2, ThreadConstants DEF IdleOK
  <2> QED
    BY <2>1, <2>2
<1> QED
  BY <1>1, <1>2, <1>4, TodoOK

\* Steps that are not the idle thread's, create no thread and do not broadcast.
Plain(p) == \A i \in DOMAIN p : p[i] \notin {<<"start">>, <<"idle">>}
                                /\ (\A u \in Threads : p[i] # <<"process", u>>)
                                /\ (\A c \in Conds : p[i] # <<"broadcast", c>>)

LEMMA PlainConcat ==
  ASSUME NEW p \in Seq(Op), NEW r \in Seq(Op), Plain(p), Plain(r)
  PROVE  p \o r \in Seq(Op) /\ Plain(p \o r)
<1>1. /\ p \o r \in Seq(Op)
      /\ DOMAIN (p \o r) = 1 .. Len(p) + Len(r) /\ DOMAIN p = 1 .. Len(p) /\ DOMAIN r = 1 .. Len(r)
      /\ \A i \in 1 .. Len(p) + Len(r) : (p \o r)[i] = IF i <= Len(p) THEN p[i] ELSE r[i - Len(p)]
      /\ Len(p) \in Nat /\ Len(r) \in Nat
  OBVIOUS
<1>2. \A i \in 1 .. Len(p) + Len(r) : (i <= Len(p) => i \in 1 .. Len(p))
                                    /\ (~(i <= Len(p)) => i - Len(p) \in 1 .. Len(r))
  BY <1>1
<1>3. ASSUME NEW i \in DOMAIN (p \o r)
      PROVE  (\E j \in DOMAIN p : (p \o r)[i] = p[j]) \/ (\E j \in DOMAIN r : (p \o r)[i] = r[j])
  BY <1>1, <1>2
<1> QED
  BY <1>1, <1>3 DEF Plain

LEMMA PlainSingle ==
  ASSUME NEW op \in Op, op \notin {<<"start">>, <<"idle">>},
         \A u \in Threads : op # <<"process", u>>, \A c \in Conds : op # <<"broadcast", c>>
  PROVE  <<op>> \in Seq(Op) /\ Plain(<<op>>)
BY DEF Plain

LEMMA PlainLock ==
  ASSUME NEW l \in Locks
  PROVE  /\ lock_acquire(l) \in Seq(Op) /\ Plain(lock_acquire(l))
         /\ lock_release(l) \in Seq(Op) /\ Plain(lock_release(l))
<1>1. lock_acquire(l) \in Seq(Op) /\ lock_release(l) \in Seq(Op)
  BY PairedLock
<1>2. /\ DOMAIN lock_acquire(l) = {1, 2}
      /\ lock_acquire(l)[1] = <<"down", l>> /\ lock_acquire(l)[2] = <<"own", l>>
  BY DEF lock_acquire
<1>3. /\ DOMAIN lock_release(l) = {1, 2}
      /\ lock_release(l)[1] = <<"disown", l>> /\ lock_release(l)[2] = <<"up", l>>
  BY DEF lock_release
<1>4. Plain(lock_acquire(l))
  BY <1>2 DEF Plain
<1>5. Plain(lock_release(l))
  BY <1>3 DEF Plain
<1> QED
  BY <1>1, <1>4, <1>5

\* The thread that runs takes up new steps.
LEMMA CallOK ==
  ASSUME NEW t \in Threads, NEW st, NEW q, NEW w, NEW td \in [Threads -> Seq(Op)], NEW idle,
         QueueOK(st, q, w, td, idle), st[t] = "RUNNING", t # first_idle,
         \A u \in Threads, i \in Nat : ~Creates(td, t, i, u),
         NEW steps,
         \A i \in DOMAIN steps : steps[i] \notin {<<"start">>, <<"idle">>},
         \A i \in DOMAIN steps, u \in Threads : steps[i] # <<"process", u>>,
         \A c \in Conds, i \in DOMAIN steps : steps[i] = <<"broadcast", c>> => i = Len(steps)
  PROVE  QueueOK(st, q, w, [td EXCEPT ![t] = steps], idle)
<1>1. PICK td2 : td2 = [td EXCEPT ![t] = steps]
  OBVIOUS
<1>2. \A u \in Threads : td2[u] = IF u = t THEN steps ELSE td[u]
  BY <1>1
<1>3. IdleOK(st, td2, idle)
  <2>1. IdleOK(st, td, idle)
    BY DEF QueueOK
  <2> QED
    BY <1>2, <2>1, ThreadConstants DEF IdleOK
<1>4. \A u \in Threads, i \in Nat :
        (i \in DOMAIN steps /\ steps[i] = <<"process", u>>) <=> Creates(td, t, i + 0, u)
  <2>1. \A i \in Nat : i + 0 = i
    OBVIOUS
  <2> QED
    BY <2>1
<1> QED
  BY <1>1, <1>3, <1>4, TodoOK

WokenSteps(td, t, s) == << <<"woken", s>> >> \o Tail(td[t])

\* The thread that runs is about to sleep.
LEMMA WokenOK ==
  ASSUME NEW t \in Threads, NEW s \in AllSemas, NEW st, NEW q, NEW w,
         NEW td \in [Threads -> Seq(Op)], NEW idle,
         QueueOK(st, q, w, td, idle), st[t] = "RUNNING", t # first_idle,
         td[t] # <<>>, Head(td[t]) \in Downs(s),
         NEW steps, steps = WokenSteps(td, t, s)
  PROVE  /\ QueueOK(st, q, w, [td EXCEPT ![t] = steps], idle)
         /\ steps # <<>> /\ Head(steps) = <<"woken", s>>
<1>0. td[t] \in Seq(Op) /\ <<"woken", s>> \in Op
  BY DEF Op
<1>1. /\ steps \in Seq(Op) /\ Len(steps) = Len(td[t]) /\ DOMAIN steps = DOMAIN td[t]
      /\ steps[1] = <<"woken", s>> /\ 1 \in DOMAIN steps
      /\ \A i \in DOMAIN steps : i # 1 => steps[i] = td[t][i]
  BY <1>0 DEF WokenSteps
<1>2. steps # <<>> /\ Head(steps) = <<"woken", s>>
  BY <1>1
<1>3. \A i \in DOMAIN steps :
        \/ steps[i] = td[t][i]
        \/ i = 1 /\ steps[i] = <<"woken", s>> /\ td[t][i] \in Downs(s)
  BY <1>1
<1>4. \A u \in Threads, i \in Nat :
        (i \in DOMAIN steps /\ steps[i] = <<"process", u>>) <=> Creates(td, t, i + 0, u)
  <2>0. \A u \in Threads : <<"process", u>> # <<"woken", s>> /\ <<"process", u>> \notin Downs(s)
    BY DEF Downs
  <2>1. \A u \in Threads, i \in DOMAIN steps : steps[i] = <<"process", u>> <=> td[t][i] = <<"process", u>>
    BY <1>3, <2>0
  <2>2. \A i \in Nat : i + 0 = i
    OBVIOUS
  <2> QED
    BY <1>1, <2>1, <2>2 DEF Creates
<1>5. \A c \in Conds, i \in DOMAIN steps : steps[i] = <<"broadcast", c>> => i = Len(steps)
  <2> SUFFICES ASSUME NEW c \in Conds, NEW i \in DOMAIN steps, steps[i] = <<"broadcast", c>>
               PROVE  i = Len(steps)
    OBVIOUS
  <2>1. i \in DOMAIN td[t] /\ td[t][i] = <<"broadcast", c>>
    BY <1>1, <1>3
  <2>2. i = Len(td[t])
    BY <2>1 DEF QueueOK, LastOK
  <2> QED
    BY <1>1, <2>2
<1>6. PICK td2 : td2 = [td EXCEPT ![t] = steps]
  OBVIOUS
<1>7. \A u \in Threads : td2[u] = IF u = t THEN steps ELSE td[u]
  BY <1>6
<1>8. IdleOK(st, td2, idle)
  <2>1. IdleOK(st, td, idle)
    BY DEF QueueOK
  <2>2. \A i \in DOMAIN steps : steps[i] \notin {<<"start">>, <<"idle">>}
    BY <1>1, <1>3, <2>1 DEF IdleOK
  <2> QED
    BY <1>7, <2>1, <2>2, ThreadConstants DEF IdleOK
<1> QED
  BY <1>2, <1>4, <1>5, <1>6, <1>8, TodoOK

-----------------------------------------------------------------------------

\* Steps.

QInv == LockInv /\ QueueInv

StillQueues == UNCHANGED <<status, ready_list, running, idle_thread, waiters>>

LEMMA QFacts ==
  ASSUME QInv
  PROVE  /\ RestOK /\ todo \in [Threads -> Seq(Op)] /\ PairsInv
         /\ QueueOK(status, ready_list, waiters, todo, idle_thread)
         /\ status \in [Threads -> Statuses] /\ ready_list \in Seq(Threads)
         /\ idle_thread \in Threads \cup {None} /\ waiters \in [AllSemas -> Seq(Threads)]
         /\ \A t \in Threads : status[t] = "RUNNING" <=> t = running
BY DEF QInv, LockInv, SynchTypeOK, RestOK, QueueInv, RunsOne

LEMMA StillQueue ==
  ASSUME QInv, StillQueues, QueueOK(status, ready_list, waiters, todo', idle_thread)
  PROVE  QueueInv'
BY DEF QInv, QueueInv, RunsOne, StillQueues

LEMMA DoneQueue ==
  ASSUME QInv, NEW t \in Threads, NEW op, NextStep(t, op), Done(t), StillQueues,
         op \notin {<<"start">>, <<"idle">>}, \A u \in Threads : op # <<"process", u>>
  PROVE  QueueInv'
<1>1. todo' = [todo EXCEPT ![t] = Tail(todo[t])] /\ running = t /\ todo[t] # <<>> /\ Head(todo[t]) = op
  BY DEF Done, Then, NextStep
<1>2. QueueOK(status, ready_list, waiters, [todo EXCEPT ![t] = Tail(todo[t])], idle_thread)
  BY <1>1, QFacts, DoneOK
<1> QED
  BY <1>1, <1>2, StillQueue

LEMMA CallQueue ==
  ASSUME QInv, NEW t \in Threads, InProgram(t), NEW q, Then(t, q), StillQueues,
         \A i \in DOMAIN q : q[i] \notin {<<"start">>, <<"idle">>},
         \A i \in DOMAIN q, u \in Threads : q[i] # <<"process", u>>,
         \A c \in Conds, i \in DOMAIN q : q[i] = <<"broadcast", c>> => i = Len(q)
  PROVE  QueueInv'
<1>1. todo' = [todo EXCEPT ![t] = q] /\ running = t /\ todo[t] = <<>>
  BY DEF Then, InProgram
<1>2. t # first_idle
  BY <1>1, QFacts, IdleBusy DEF QueueOK
<1>3. \A u \in Threads, i \in Nat : ~Creates(todo, t, i, u)
  BY <1>1 DEF Creates
<1>4. QueueOK(status, ready_list, waiters, [todo EXCEPT ![t] = q], idle_thread)
  BY <1>1, <1>2, <1>3, QFacts, CallOK
<1> QED
  BY <1>1, <1>4, StillQueue

LEMMA PlainQueue ==
  ASSUME QInv, NEW t \in Threads, InProgram(t), NEW q, Then(t, q), StillQueues, Plain(q)
  PROVE  QueueInv'
BY CallQueue DEF Plain

LEMMA DownQueue ==
  ASSUME QInv, NEW t \in Threads, NEW s \in AllSemas, Down(t, s)
  PROVE  QueueInv'
<1>1. PICK op \in Downs(s) : NextStep(t, op)
  BY DEF Down, Downs
<1>2. /\ op \notin {<<"start">>, <<"idle">>, <<"up", "idle_started">>}
      /\ \A u \in Threads : op # <<"process", u>>
  BY DEF Downs
<1>3. running = t /\ status[t] = "RUNNING" /\ todo[t] # <<>> /\ Head(todo[t]) = op /\ idle_thread' = idle_thread
  BY <1>1, QFacts DEF NextStep, Down
<1>4. CASE DownTake(t, s)
  <2>1. StillQueues /\ Done(t)
    BY <1>3, <1>4 DEF DownTake, StillQueues
  <2> QED
    BY <1>1, <1>2, <2>1, DoneQueue
<1>5. CASE DownSleep(t, s)
  <2>1. t # first_idle
    BY <1>2, <1>3, QFacts, IdleBusy DEF QueueOK
  <2>2. PICK steps : steps = WokenSteps(todo, t, s)
    OBVIOUS
  <2>3. PICK td2 : td2 = [todo EXCEPT ![t] = steps]
    OBVIOUS
  <2>4. /\ QueueOK(status, ready_list, waiters, td2, idle_thread)
        /\ td2[t] # <<>> /\ Head(td2[t]) = <<"woken", s>>
    <3>1. /\ QueueOK(status, ready_list, waiters, [todo EXCEPT ![t] = steps], idle_thread)
          /\ steps # <<>> /\ Head(steps) = <<"woken", s>>
      <4>1. /\ QueueOK(status, ready_list, waiters, todo, idle_thread)
            /\ todo \in [Threads -> Seq(Op)] /\ status[t] = "RUNNING"
            /\ todo[t] # <<>> /\ Head(todo[t]) \in Downs(s)
        BY <1>1, <1>3, QFacts
      <4> QED
        BY ONLY <2>1, <2>2, <4>1, t \in Threads, s \in AllSemas, WokenOK
    <3>2. td2[t] = steps
      BY <2>3, QFacts
    <3> QED
      BY <2>3, <3>1, <3>2
  <2>5. todo' = td2 /\ waiters' = [waiters EXCEPT ![s] = Append(@, t)]
        /\ Schedule(t, "BLOCKED", status, ready_list)
    BY <1>5, <2>2, <2>3 DEF DownSleep, Block, Becomes, Then, WokenSteps
  <2>6. PICK st0 : st0 = [status EXCEPT ![t] = "BLOCKED"]
    OBVIOUS
  <2>7. QueueOK(st0, ready_list, waiters', td2, idle_thread)
    BY <1>3, <2>1, <2>4, <2>5, <2>6, QFacts, SleepOK
  <2>8. st0 = [status EXCEPT ![t] = AfterSwitch(t, "BLOCKED")] /\ \A u \in Threads : st0[u] # "RUNNING"
    BY <1>3, <2>6, QFacts DEF AfterSwitch
  <2>9. "BLOCKED" \in Statuses
    BY DEF Statuses
  <2>10. QueueOK(status', ready_list', waiters', td2, idle_thread) /\ RunsOne'
    BY <2>5, <2>7, <2>8, <2>9, QFacts, Dispatch
  <2> QED
    BY <1>3, <2>5, <2>10 DEF QueueInv
<1> QED
  BY <1>4, <1>5 DEF Down

LEMMA SemaUpQueue ==
  ASSUME QInv, NEW t \in Threads, NEW s \in AllSemas, SemaUp(t, s)
  PROVE  QueueInv'
<1>1. /\ running = t /\ status[t] = "RUNNING" /\ todo[t] # <<>> /\ Head(todo[t]) = <<"up", s>>
      /\ Up({s}) /\ Unblock(First(s)) /\ idle_thread' = idle_thread
      /\ todo' = [todo EXCEPT ![t] = Tail(todo[t])]
  BY QFacts DEF SemaUp, NextStep, Done, Then
<1>2. PICK us : us = First(s)
  OBVIOUS
<1>3. /\ us \in Seq(Threads) /\ Distinct(us)
      /\ \A u \in Threads :
           In(u, us) <=> \E x \in AllSemas : x \in {s} /\ waiters[x] # <<>> /\ u = Head(waiters[x])
  <2>1. us \in Seq(Threads) /\ (waiters[s] = <<>> => us = <<>>)
        /\ (waiters[s] # <<>> => us = <<Head(waiters[s])>>)
    BY <1>2, QFacts, FirstTypes
  <2>2. CASE waiters[s] = <<>>
    BY <2>1, <2>2 DEF Distinct, In
  <2>3. CASE waiters[s] # <<>>
    <3>1. DOMAIN us = {1} /\ us[1] = Head(waiters[s])
      BY <2>1, <2>3
    <3> QED
      BY <2>1, <2>3, <3>1 DEF Distinct, In
  <2> QED
    BY <2>2, <2>3
<1>4. PICK st2 : st2 = [u \in Threads |-> IF u \in ToSet(us) THEN "READY" ELSE status[u]]
  OBVIOUS
<1>5. /\ \A i \in DOMAIN us : status[us[i]] = "BLOCKED"
      /\ QueueOK(st2, ready_list \o us, waiters', todo, idle_thread)
  BY <1>1, <1>3, <1>4, QFacts, UpOK
<1>6. status' = st2 /\ ready_list' = ready_list \o us /\ running' = running
  BY <1>1, <1>2, <1>4 DEF Unblock
<1>7. t \notin ToSet(us)
  BY <1>1, <1>5 DEF ToSet
<1>8. st2[t] = "RUNNING" /\ RunsOne'
  <2>1. \A u \in Threads : st2[u] = "RUNNING" <=> u = running
    BY <1>1, <1>4, <1>7, QFacts
  <2> QED
    BY <1>1, <1>6, <2>1 DEF RunsOne
<1>9. QueueOK(st2, ready_list \o us, waiters', todo', idle_thread)
  <2>1. /\ todo[t] # <<>> /\ \A u \in Threads : Head(todo[t]) # <<"process", u>>
        /\ Head(todo[t]) \notin {<<"start">>, <<"idle">>} /\ todo \in [Threads -> Seq(Op)]
    BY <1>1, QFacts
  <2>2. QueueOK(st2, ready_list \o us, waiters', [todo EXCEPT ![t] = Tail(todo[t])], idle_thread)
    BY ONLY <1>5, <1>8, <2>1, t \in Threads, DoneOK
  <2> QED
    BY <1>1, <2>2
<1> QED
  BY <1>1, <1>6, <1>8, <1>9 DEF QueueInv

LEMMA LockStepQueue ==
  ASSUME QInv, NEW t \in Threads, LockStep(t)
  PROVE  QueueInv'
<1>1. PICK l \in Locks : Own(t, l) \/ Disown(t, l) \/ Misfile(t, l)
  BY DEF LockStep
<1>2. PICK op \in {<<"own", l>>, <<"disown", l>>, <<"misfile", l>>} : NextStep(t, op)
  BY <1>1 DEF Own, Disown, Misfile
<1>3. Done(t) /\ StillQueues
  BY <1>1 DEF Own, Disown, Misfile, StillQueues, synch_vars
<1> QED
  BY <1>2, <1>3, DoneQueue

LEMMA SignalQueue ==
  ASSUME QInv, NEW t \in Threads, running = t, t # first_idle,
         \A u \in Threads, i \in Nat : ~Creates(todo, t, i, u),
         NEW c \in Conds, NEW rest, Signal(t, c, rest),
         rest = <<>> \/ (cond_waiters[c] # <<>> /\ rest = << <<"broadcast", c>> >>)
  PROVE  QueueInv'
<1>1. StillQueues /\ cond_waiters[c] \in Seq(Threads)
  BY QFacts DEF Signal, AtEntry, StillQueues, RestOK
<1>2. PICK a, b : (cond_waiters[c] # <<>> => a = <<"up", Head(cond_waiters[c])>>)
                  /\ b = <<"broadcast", c>>
  OBVIOUS
<1>3. PICK q : q = (IF cond_waiters[c] = <<>> THEN <<>> ELSE << <<"up", Head(cond_waiters[c])>> >>) \o rest
  OBVIOUS
<1>4. \/ q = <<>> \o rest /\ rest = <<>>
      \/ q = <<a>> \o rest /\ rest = <<>> /\ cond_waiters[c] # <<>>
      \/ q = <<a>> \o rest /\ rest = <<b>> /\ cond_waiters[c] # <<>>
  BY <1>2, <1>3
<1>5. \A i \in DOMAIN q : (q[i] = a /\ cond_waiters[c] # <<>>) \/ (q[i] = b /\ i = Len(q))
  <2>1. <<>> \o <<>> = <<>> /\ DOMAIN (<<>> \o <<>>) = {}
    OBVIOUS
  <2>2. DOMAIN (<<a>> \o <<>>) = {1} /\ (<<a>> \o <<>>)[1] = a /\ Len(<<a>> \o <<>>) = 1
    OBVIOUS
  <2>3. /\ DOMAIN (<<a>> \o <<b>>) = {1, 2} /\ Len(<<a>> \o <<b>>) = 2
        /\ (<<a>> \o <<b>>)[1] = a /\ (<<a>> \o <<b>>)[2] = b
    OBVIOUS
  <2> QED
    BY <1>4, <2>1, <2>2, <2>3
<1>6. PICK td2 : td2 = [todo EXCEPT ![t] = q]
  OBVIOUS
<1>7. todo' = td2
  BY <1>3, <1>6 DEF Signal, Then
<1>8. /\ \A i \in DOMAIN q : q[i] \notin {<<"start">>, <<"idle">>}
      /\ \A i \in DOMAIN q, u \in Threads : q[i] # <<"process", u>>
  BY <1>2, <1>5
<1>9. \A d \in Conds, i \in DOMAIN q : q[i] = <<"broadcast", d>> => i = Len(q)
  <2>1. \A d \in Conds : cond_waiters[c] # <<>> => a # <<"broadcast", d>>
    BY <1>2
  <2> QED
    BY ONLY <1>5, <2>1
<1>10. QueueOK(status, ready_list, waiters, td2, idle_thread)
  <2>1. /\ QueueOK(status, ready_list, waiters, todo, idle_thread)
        /\ todo \in [Threads -> Seq(Op)] /\ status[t] = "RUNNING"
    BY QFacts
  <2>2. QueueOK(status, ready_list, waiters, [todo EXCEPT ![t] = q], idle_thread)
    BY <1>8, <1>9, <2>1, CallOK
  <2> QED
    BY <1>6, <2>2
<1> QED
  BY <1>1, <1>7, <1>10, StillQueue

LEMMA CondStepQueue ==
  ASSUME QInv, NEW t \in Threads, CondStep(t)
  PROVE  QueueInv'
<1>1. ASSUME NEW c \in Conds, Enqueue(t, c) PROVE QueueInv'
  <2>1. NextStep(t, <<"enqueue", c>>) /\ Done(t) /\ running = t
    BY <1>1 DEF Enqueue, NextStep
  <2>2. waiters[t] = <<>>
    <3>1. t \in AllSemas /\ waiters[t] \in Seq(Threads)
      BY QFacts, Names
    <3>2. ASSUME NEW u \in Threads, In(u, waiters[t]) PROVE FALSE
      <4>1. status[u] = "BLOCKED" /\ todo[u] # <<>> /\ Head(todo[u]) = <<"woken", t>>
        BY <3>1, <3>2, QFacts DEF QueueOK, WaitOK
      <4>a. todo[u] \in Seq(Op)
        BY QFacts
      <4>b. 1 \in DOMAIN todo[u] /\ todo[u][1] = Head(todo[u])
        BY <4>1, <4>a
      <4>2. 1 \in DOMAIN todo[u] /\ todo[u][1] \in Downs(t)
        BY <4>1, <4>b DEF Downs
      <4>3. u = t
        BY <4>2, QFacts DEF PairsInv, Paired
      <4> QED
        BY <2>1, <4>1, <4>3, QFacts
    <3>3. waiters[t] # <<>> => 1 \in DOMAIN waiters[t] /\ waiters[t][1] \in Threads
      BY <3>1
    <3> QED
      BY <3>2, <3>3 DEF In
  <2>3. waiters' = waiters
    BY <1>1, <2>2, QFacts, Names DEF Enqueue
  <2>4. StillQueues
    BY <1>1, <2>3 DEF Enqueue, StillQueues
  <2>5. PICK op : op = <<"enqueue", c>>
    OBVIOUS
  <2>6. op \notin {<<"start">>, <<"idle">>} /\ \A u \in Threads : op # <<"process", u>>
    BY <2>5
  <2> QED
    BY <2>1, <2>4, <2>5, <2>6, DoneQueue
<1>2. ASSUME NEW c \in Conds, Broadcast(t, c) PROVE QueueInv'
  <2>1. running = t /\ todo[t] # <<>> /\ Head(todo[t]) = <<"broadcast", c>> /\ todo[t] \in Seq(Op)
    BY <1>2, QFacts DEF Broadcast, NextStep
  <2>2. DOMAIN todo[t] = {1} /\ todo[t][1] = <<"broadcast", c>>
    <3>1. 1 \in DOMAIN todo[t] /\ todo[t][1] = <<"broadcast", c>> /\ DOMAIN todo[t] = 1 .. Len(todo[t])
      BY <2>1
    <3>2. Len(todo[t]) = 1
      BY <3>1, QFacts DEF QueueOK, LastOK
    <3> QED
      BY <3>1, <3>2
  <2>3. \A u \in Threads, i \in Nat : ~Creates(todo, t, i, u)
    BY <2>2 DEF Creates
  <2>4. t # first_idle
    <3>1. <<"broadcast", c>> \notin {<<"start">>, <<"up", "idle_started">>, <<"idle">>}
      OBVIOUS
    <3> QED
      BY <2>1, <3>1, QFacts, IdleBusy DEF QueueOK
  <2>5. PICK rest : rest = IF cond_waiters[c] = <<>> THEN <<>> ELSE << <<"broadcast", c>> >>
    OBVIOUS
  <2>6. Signal(t, c, rest)
    BY <1>2, <2>5 DEF Broadcast
  <2> QED
    BY <2>1, <2>3, <2>4, <2>5, <2>6, SignalQueue
<1> QED
  BY <1>1, <1>2 DEF CondStep

LEMMA CreateStepQueue ==
  ASSUME QInv, NEW t \in Threads, CreateStep(t)
  PROVE  QueueInv'
<1>1. ASSUME NEW u \in Threads, LinkThread(t, u) \/ CountTid(t, u) PROVE QueueInv'
  <2>1. PICK op \in {<<"link", u>>, <<"close", u>>, <<"tid", u>>, <<"count", u>>} : NextStep(t, op)
    BY <1>1 DEF LinkThread, CountTid
  <2>2. Done(t) /\ StillQueues
    BY <1>1 DEF LinkThread, CountTid, StillQueues, synch_vars
  <2> QED
    BY <2>1, <2>2, DoneQueue
<1>2. ASSUME NEW u \in Threads, NewProcess(t, u) PROVE QueueInv'
  <2>0. /\ running = t /\ status[t] = "RUNNING" /\ todo[t] # <<>> /\ Head(todo[t]) = <<"process", u>>
        /\ todo' = [todo EXCEPT ![t] = Tail(todo[t])] /\ idle_thread' = idle_thread /\ waiters' = waiters
        /\ todo[t] \in Seq(Op)
    BY <1>2, QFacts DEF NewProcess, NextStep, Done, Then, synch_vars
  <2>1. status[u] = "BLOCKED" /\ u # first_idle
    <3>1. Creates(todo, t, 1, u)
      BY <2>0 DEF Creates
    <3> QED
      BY <3>1, QFacts DEF QueueOK, UnbornOK
  <2>2. u # idle_thread /\ u # t
    BY <2>0, <2>1, QFacts, ThreadConstants DEF QueueOK, IdleOK
  <2>3. ASSUME NEW x \in {"READY", "FREE"}, status' = [status EXCEPT ![u] = x], running' = running,
               ReadyOK([status EXCEPT ![u] = x], ready_list', idle_thread)
        PROVE  QueueInv'
    <3>1. QueueOK(status', ready_list', waiters', todo', idle_thread')
      BY <2>0, <2>3, QFacts, CreatedOK
    <3>2. RunsOne'
      BY <2>0, <2>2, <2>3, QFacts DEF RunsOne
    <3> QED
      BY <3>1, <3>2 DEF QueueInv
  <2>4. CASE Unblock(<<u>>)
    <3>1. PICK us : us = <<u>>
      OBVIOUS
    <3>2. us \in Seq(Threads) /\ DOMAIN us = {1} /\ us[1] = u
      BY <3>1
    <3>3. /\ running' = running /\ ready_list' = ready_list \o us
          /\ status' = [v \in Threads |-> IF v \in ToSet(us) THEN "READY" ELSE status[v]]
      BY <2>4, <3>1 DEF Unblock
    <3>4. status' = [status EXCEPT ![u] = "READY"]
      BY <3>2, <3>3, QFacts DEF ToSet
    <3>5. \A v \in Threads : status'[v] = IF v = u THEN "READY" ELSE status[v]
      BY <3>4, QFacts
    <3>6. /\ Distinct(us) /\ \A i \in DOMAIN us : status[us[i]] # "READY" /\ us[i] # idle_thread
          /\ \A v \in Threads :
               status'[v] = "READY" /\ v # idle_thread
                 <=> (status[v] = "READY" /\ v # idle_thread) \/ In(v, us)
      BY <2>1, <2>2, <3>2, <3>5 DEF Distinct, In
    <3>7. ReadyOK(status', ready_list', idle_thread)
      BY <3>2, <3>3, <3>6, QFacts, ReadyAppend DEF QueueOK
    <3> QED
      BY <2>3, <3>3, <3>4, <3>7
  <2>5. CASE status' = [status EXCEPT ![u] = "FREE"] /\ UNCHANGED <<ready_list, running>>
    <3>1. ReadyOK([status EXCEPT ![u] = "FREE"], ready_list', idle_thread)
      BY <2>1, <2>5, QFacts DEF QueueOK, ReadyOK
    <3> QED
      BY <2>3, <2>5, <3>1
  <2> QED
    BY <1>2, <2>4, <2>5 DEF NewProcess
<1> QED
  BY <1>1, <1>2 DEF CreateStep

LEMMA IdleQueue ==
  ASSUME QInv, NEW t \in Threads, StartIdle(t) \/ IdleBlock(t), UNCHANGED synch_vars
  PROVE  QueueInv'
<1>0. PICK a, b, c : a = <<"start">> /\ b = <<"up", "idle_started">> /\ c = <<"idle">>
  OBVIOUS
<1>1. /\ running = t /\ status[t] = "RUNNING" /\ todo[t] # <<>> /\ Head(todo[t]) \in {a, c}
      /\ todo[t] \in Seq(Op) /\ waiters' = waiters
  BY <1>0, QFacts DEF StartIdle, IdleBlock, NextStep, synch_vars
<1>2. t = first_idle
  <2>1. 1 \in DOMAIN todo[t] /\ todo[t][1] \in {a, c}
    BY <1>1
  <2> QED
    BY <1>0, <2>1, QFacts DEF QueueOK, IdleOK
<1>3. /\ idle_thread = None => todo[t] = <<a, b, c>>
      /\ idle_thread # None => idle_thread = t /\ (todo[t] = <<b, c>> \/ todo[t] = <<c>>)
  BY <1>0, <1>2, QFacts DEF QueueOK, IdleOK
<1>4. Head(<<a, b, c>>) = a /\ Head(<<b, c>>) = b /\ Head(<<c>>) = c /\ Tail(<<a, b, c>>) = <<b, c>>
  OBVIOUS
<1>5. CASE StartIdle(t)
  <2>1. /\ Head(todo[t]) = a /\ todo' = [todo EXCEPT ![t] = Tail(todo[t])] /\ idle_thread' = t
        /\ UNCHANGED <<status, ready_list, running>>
    BY <1>0, <1>5 DEF StartIdle, NextStep, Done, Then
  <2>2. idle_thread = None /\ todo[t] = <<a, b, c>> /\ Tail(todo[t]) = <<b, c>>
    <3>1. a # b /\ a # c
      BY <1>0
    <3>2. idle_thread = None
      BY ONLY <1>3, <1>4, <2>1, <3>1
    <3> QED
      BY ONLY <1>3, <1>4, <3>2
  <2>3. PICK td2 : td2 = [todo EXCEPT ![t] = Tail(todo[t])]
    OBVIOUS
  <2>4. \A u \in Threads : td2[u] = IF u = t THEN <<b, c>> ELSE todo[u]
    BY <2>2, <2>3, QFacts
  <2>5. IdleOK(status, td2, t)
    <3>1. td2[first_idle] = << <<"up", "idle_started">>, <<"idle">> >>
      BY <1>0, <1>2, <2>4
    <3>2. status[first_idle] = "RUNNING" /\ t # None
      BY <1>1, <1>2, ThreadConstants
    <3>3. \A u \in Threads \ {first_idle} : \A i \in DOMAIN td2[u] :
            td2[u][i] \notin {<<"start">>, <<"idle">>}
      BY <1>2, <2>4, QFacts DEF QueueOK, IdleOK
    <3> QED
      BY <1>2, <3>1, <3>2, <3>3 DEF IdleOK
  <2>6. \A u \in Threads, i \in Nat :
          (i \in DOMAIN Tail(todo[t]) /\ Tail(todo[t])[i] = <<"process", u>>) <=> Creates(todo, t, i + 1, u)
    <3>1. \A u \in Threads : <<"process", u>> # Head(todo[t])
      BY <1>0, <1>1
    <3> QED
      BY <1>1, <3>1, TailOps DEF Creates
  <2>7. \A d \in Conds, i \in DOMAIN Tail(todo[t]) : Tail(todo[t])[i] = <<"broadcast", d>> => i = Len(Tail(todo[t]))
    <3>1. DOMAIN <<b, c>> = {1, 2} /\ <<b, c>>[1] = b /\ <<b, c>>[2] = c /\ Len(<<b, c>>) = 2
      OBVIOUS
    <3>2. \A d \in Conds : b # <<"broadcast", d>>
      BY <1>0
    <3> QED
      BY <2>2, <3>1, <3>2
  <2>8. QueueOK(status, ready_list, waiters, td2, t)
    <3>1. /\ QueueOK(status, ready_list, waiters, todo, idle_thread)
          /\ todo \in [Threads -> Seq(Op)]
      BY QFacts
    <3> QED
      BY ONLY <1>1, <2>3, <2>5, <2>6, <2>7, <3>1, t \in Threads, TodoOK
  <2> QED
    BY <1>1, <2>1, <2>3, <2>8, QFacts DEF QueueInv, RunsOne
<1>6. CASE IdleBlock(t)
  <2>1. /\ Head(todo[t]) = c /\ todo' = todo /\ idle_thread' = idle_thread
        /\ Schedule(t, "BLOCKED", status, ready_list)
    BY <1>0, <1>6 DEF IdleBlock, NextStep, Block
  <2>2. idle_thread = t
    BY <1>0, <1>3, <1>4, <2>1
  <2>3. PICK st0 : st0 = [status EXCEPT ![t] = "BLOCKED"]
    OBVIOUS
  <2>4. "BLOCKED" \in Statuses
    BY DEF Statuses
  <2>5. QueueOK(st0, ready_list, waiters, todo, idle_thread)
    BY <1>1, <2>2, <2>3, <2>4, QFacts, LeaveOK
  <2>6. st0 = [status EXCEPT ![t] = AfterSwitch(t, "BLOCKED")] /\ \A u \in Threads : st0[u] # "RUNNING"
    BY <1>1, <2>3, QFacts DEF AfterSwitch
  <2>7. QueueOK(status', ready_list', waiters, todo, idle_thread) /\ RunsOne'
    BY <2>1, <2>4, <2>5, <2>6, QFacts, Dispatch
  <2> QED
    BY <1>1, <2>1, <2>7 DEF QueueInv
<1> QED
  BY <1>5, <1>6

LEMMA PreemptQueue ==
  ASSUME QInv, NEW t \in Threads, Preempt(t), UNCHANGED synch_vars
  PROVE  QueueInv'
<1>1. /\ running = t /\ status[t] = "RUNNING" /\ Schedule(t, "READY", status, YieldTo(t))
      /\ UNCHANGED <<idle_thread, todo, waiters>>
  BY QFacts DEF Preempt, synch_vars
<1>2. PICK st0 : st0 = [status EXCEPT ![t] = "READY"]
  OBVIOUS
<1>3. "READY" \in Statuses
  BY DEF Statuses
<1>4. YieldTo(t) \in Seq(Threads) /\ QueueOK(st0, YieldTo(t), waiters, todo, idle_thread)
  <2>1. CASE t = idle_thread
    <3>1. QueueOK(st0, ready_list, waiters, todo, idle_thread)
      BY <1>1, <1>2, <1>3, <2>1, QFacts, LeaveOK
    <3> QED
      BY <2>1, <3>1, QFacts DEF YieldTo
  <2>2. CASE t # idle_thread
    <3>1. /\ Append(ready_list, t) \in Seq(Threads)
          /\ QueueOK(st0, Append(ready_list, t), waiters, todo, idle_thread)
      BY <1>1, <1>2, <2>2, QFacts, PreemptOK
    <3> QED
      BY <2>2, <3>1 DEF YieldTo
  <2> QED
    BY <2>1, <2>2
<1>5. st0 = [status EXCEPT ![t] = AfterSwitch(t, "READY")] /\ \A u \in Threads : st0[u] # "RUNNING"
  BY <1>1, <1>2, QFacts DEF AfterSwitch
<1>6. QueueOK(status', ready_list', waiters, todo, idle_thread) /\ RunsOne'
  BY <1>1, <1>3, <1>4, <1>5, QFacts, Dispatch
<1> QED
  BY <1>1, <1>6 DEF QueueInv

LEMMA ClientQueue ==
  ASSUME QInv, NEW t \in Threads,
         \/ \E s \in Semas : CallDown(t, s) \/ CallUp(t, s)
         \/ \E l \in Locks : Acquire(t, l) \/ Release(t, l) \/ TryAcquire(t, l)
         \/ \E c \in Conds : CondWait(t, c) \/ CondSignal(t, c) \/ CondBroadcast(t, c)
  PROVE  QueueInv'
<1>a. ASSUME NEW q, Then(t, q), InProgram(t), AtEntry, waiters' = waiters, Plain(q) PROVE QueueInv'
  BY <1>a, PlainQueue DEF AtEntry, StillQueues
<1>1. ASSUME NEW s \in Semas, CallDown(t, s) \/ CallUp(t, s) PROVE QueueInv'
  <2>1. PICK op \in {<<"down", s>>, <<"up", s>>} :
          Then(t, <<op>>) /\ InProgram(t) /\ AtEntry /\ waiters' = waiters
    BY <1>1 DEF CallDown, CallUp, synch_vars
  <2>2. /\ op \in Op /\ op \notin {<<"start">>, <<"idle">>}
        /\ \A u \in Threads : op # <<"process", u>> /\ \A c \in Conds : op # <<"broadcast", c>>
    BY Names DEF Op
  <2>3. Plain(<<op>>)
    BY <2>2 DEF Plain
  <2> QED
    BY <1>a, <2>1, <2>3
<1>2. ASSUME NEW l \in Locks, Acquire(t, l) \/ Release(t, l) PROVE QueueInv'
  <2>1. PICK q \in {lock_acquire(l), lock_release(l)} :
          Then(t, q) /\ InProgram(t) /\ AtEntry /\ waiters' = waiters
    BY <1>2 DEF Acquire, Release, synch_vars
  <2> QED
    BY <1>a, <2>1, PlainLock
<1>3. ASSUME NEW l \in Locks, TryAcquire(t, l) PROVE QueueInv'
  <2>1. PICK op \in {<<"own", l>>, <<"misfile", l>>} : TryRest(t, l) = <<op>>
    BY DEF TryRest
  <2>2. Then(t, <<op>>) /\ InProgram(t) /\ AtEntry /\ waiters' = waiters
    BY <1>3, <2>1 DEF TryAcquire
  <2>3. /\ op \notin {<<"start">>, <<"idle">>}
        /\ \A u \in Threads : op # <<"process", u>>
        /\ \A c \in Conds : op # <<"broadcast", c>>
    OBVIOUS
  <2>4. Plain(<<op>>)
    BY <2>3 DEF Plain
  <2> QED
    BY <1>a, <2>2, <2>4
<1>4. ASSUME NEW c \in Conds, CondWait(t, c) PROVE QueueInv'
  <2>1. Then(t, WaitSteps(t, c)) /\ InProgram(t) /\ AtEntry /\ waiters' = waiters
    BY <1>4 DEF CondWait, synch_vars
  <2>2. PICK e, d : e = <<"enqueue", c>> /\ d = <<"down", t>>
    OBVIOUS
  <2>3. /\ e \in Op /\ d \in Op
        /\ \A op \in {e, d} : /\ op \notin {<<"start">>, <<"idle">>}
                              /\ \A u \in Threads : op # <<"process", u>>
                              /\ \A x \in Conds : op # <<"broadcast", x>>
    BY <2>2, Names DEF Op
  <2>4. <<e>> \in Seq(Op) /\ Plain(<<e>>) /\ <<d>> \in Seq(Op) /\ Plain(<<d>>)
    BY <2>3, PlainSingle
  <2>5. PICK g \in Locks : g = Guard[c]
    BY Names
  <2>6. WaitSteps(t, c) = ((<<e>> \o lock_release(g)) \o <<d>>) \o lock_acquire(g)
    BY <2>2, <2>5 DEF WaitSteps
  <2>7. Plain(((<<e>> \o lock_release(g)) \o <<d>>) \o lock_acquire(g))
    <3>1. PICK x : x = <<e>> \o lock_release(g)
      OBVIOUS
    <3>2. x \in Seq(Op) /\ Plain(x)
      BY <2>4, <3>1, PlainConcat, PlainLock
    <3>3. PICK y : y = x \o <<d>>
      OBVIOUS
    <3>4. y \in Seq(Op) /\ Plain(y)
      BY <2>4, <3>2, <3>3, PlainConcat
    <3>5. Plain(y \o lock_acquire(g))
      BY <3>4, PlainConcat, PlainLock
    <3> QED
      BY <3>1, <3>3, <3>5
  <2> QED
    BY <1>a, <2>1, <2>6, <2>7
<1>5. ASSUME NEW c \in Conds, CondSignal(t, c) PROVE QueueInv'
  <2>1. running = t /\ todo[t] = <<>> /\ Signal(t, c, <<>>)
    BY <1>5 DEF CondSignal, InProgram
  <2>2. t # first_idle
    BY <2>1, QFacts, IdleBusy DEF QueueOK
  <2>3. \A u \in Threads, i \in Nat : ~Creates(todo, t, i, u)
    BY <2>1 DEF Creates
  <2> QED
    BY <2>1, <2>2, <2>3, SignalQueue
<1>6. ASSUME NEW c \in Conds, CondBroadcast(t, c) PROVE QueueInv'
  <2>1. PICK op : op = <<"broadcast", c>>
    OBVIOUS
  <2>2. Then(t, <<op>>) /\ InProgram(t) /\ AtEntry /\ waiters' = waiters
    BY <1>6, <2>1 DEF CondBroadcast, synch_vars
  <2>3. PICK q : q = <<op>>
    OBVIOUS
  <2>4. DOMAIN q = {1} /\ q[1] = op /\ Len(q) = 1
    BY <2>3
  <2>5. op \notin {<<"start">>, <<"idle">>} /\ \A u \in Threads : op # <<"process", u>>
    BY <2>1
  <2>6. StillQueues
    BY <2>2 DEF AtEntry, StillQueues
  <2> QED
    BY <2>2, <2>3, <2>4, <2>5, <2>6, CallQueue
<1> QED
  BY <1>1, <1>2, <1>3, <1>4, <1>5, <1>6

LEMMA CreateQueue ==
  ASSUME QInv, NEW t \in Threads, Create(t)
  PROVE  QueueInv'
<1>1. PICK u \in Threads :
        /\ status[u] = "FREE" /\ status' = [status EXCEPT ![u] = "BLOCKED"]
        /\ Then(t, << <<"link", u>>, <<"close", u>> >> \o allocate_tid(u) \o << <<"process", u>> >>)
  BY DEF Create
<1>2. /\ running = t /\ status[t] = "RUNNING" /\ todo[t] = <<>>
      /\ UNCHANGED <<ready_list, running, idle_thread, waiters>>
  BY QFacts DEF Create, InProgram, synch_vars
<1>3. PICK a, b, d : a = << <<"link", u>>, <<"close", u>> >> /\ b = << <<"tid", u>>, <<"count", u>> >>
                     /\ d = <<"process", u>>
  OBVIOUS
<1>4. \A x \in {"link", "close", "tid", "count", "process"} : <<x, u>> \in Op
  BY Names DEF Op
<1>5. a \in Seq(Op) /\ Plain(a)
  <2>1. /\ DOMAIN a = {1, 2} /\ a[1] = <<"link", u>> /\ a[2] = <<"close", u>> /\ a \in Seq(Op)
    BY <1>3, <1>4
  <2> QED
    BY <2>1 DEF Plain
<1>6. b \in Seq(Op) /\ Plain(b)
  <2>1. /\ DOMAIN b = {1, 2} /\ b[1] = <<"tid", u>> /\ b[2] = <<"count", u>> /\ b \in Seq(Op)
    BY <1>3, <1>4
  <2> QED
    BY <2>1 DEF Plain
<1>7. PICK x : x = lock_acquire(tid_lock) \o b
  OBVIOUS
<1>8. x \in Seq(Op) /\ Plain(x)
  BY <1>6, <1>7, PlainLock, PlainConcat, Names
<1>9. PICK y : y = x \o lock_release(tid_lock)
  OBVIOUS
<1>10. y \in Seq(Op) /\ Plain(y)
  BY <1>8, <1>9, PlainLock, PlainConcat, Names
<1>11. PICK z : z = a \o y
  OBVIOUS
<1>12. z \in Seq(Op) /\ Plain(z)
  BY <1>5, <1>10, <1>11, PlainConcat
<1>13. Then(t, z \o <<d>>)
  BY <1>1, <1>3, <1>7, <1>9, <1>11 DEF allocate_tid
<1>14. PICK q : q = z \o <<d>>
  OBVIOUS
<1>15. /\ DOMAIN q = 1 .. Len(z) + 1 /\ DOMAIN z = 1 .. Len(z) /\ Len(z) \in Nat
       /\ q[Len(z) + 1] = d /\ \A i \in 1 .. Len(z) : q[i] = z[i]
  BY <1>12, <1>14
<1>16. PICK n : n = Len(z) + 1
  OBVIOUS
<1>17. n \in DOMAIN q /\ n \in Nat /\ q[n] = d
       /\ \A i \in DOMAIN q : i # n => i \in DOMAIN z /\ q[i] = z[i]
  BY <1>15, <1>16
<1>18. n \notin DOMAIN z
  BY <1>15, <1>16
<1>19. /\ \A i \in DOMAIN q, v \in Threads : q[i] = <<"process", v>> <=> i = n /\ v = u
       /\ \A i \in DOMAIN q : q[i] \notin {<<"start">>, <<"idle">>}
       /\ \A i \in DOMAIN q, c \in Conds : q[i] # <<"broadcast", c>>
  <2>1. /\ \A v \in Threads : d = <<"process", v>> <=> v = u
        /\ d \notin {<<"start">>, <<"idle">>} /\ \A c \in Conds : d # <<"broadcast", c>>
    BY <1>3
  <2>2. ASSUME NEW i \in DOMAIN q, i # n
        PROVE  /\ \A v \in Threads : q[i] # <<"process", v>>
               /\ q[i] \notin {<<"start">>, <<"idle">>}
               /\ \A c \in Conds : q[i] # <<"broadcast", c>>
    BY <1>12, <1>17, <2>2 DEF Plain
  <2> QED
    BY <1>17, <2>1, <2>2
<1>20. PICK st2, td2 : st2 = [status EXCEPT ![u] = "BLOCKED"] /\ td2 = [todo EXCEPT ![t] = q]
  OBVIOUS
<1>21. QueueOK(st2, ready_list, waiters, td2, idle_thread)
  <2>1. /\ QueueOK(status, ready_list, waiters, todo, idle_thread)
        /\ status \in [Threads -> Statuses] /\ todo \in [Threads -> Seq(Op)] /\ status[u] = "FREE"
    BY <1>1, QFacts
  <2> QED
    BY ONLY <1>2, <1>17, <1>19, <1>20, <2>1, t \in Threads, u \in Threads, CreateOK
<1>22. status' = st2 /\ todo' = td2
  BY <1>1, <1>13, <1>14, <1>20 DEF Then
<1>23. RunsOne'
  BY <1>1, <1>2, QFacts DEF RunsOne
<1> QED
  BY <1>2, <1>21, <1>22, <1>23 DEF QueueInv

\* release_locks wakes the first waiter of each lock that has one.
LEMMA WokenAll ==
  ASSUME QInv, NEW t \in Threads, NEW ls \in release_locks(t), NEW us \in Woken(ls)
  PROVE  /\ us \in Seq(Threads) /\ Distinct(us)
         /\ \A u \in Threads :
              In(u, us) <=> \E s \in AllSemas : s \in ToSet(ls) /\ waiters[s] # <<>> /\ u = Head(waiters[s])
<1>0. us \in Seq(Threads) /\ \A l \in ToSet(ls) : l \in Locks /\ l \in AllSemas
  BY ReleasedTypes, Names
<1>1. \E k \in Nat : DOMAIN ls = 1 .. k /\ \A i, j \in 1 .. k : ls[i] = ls[j] => i = j
  <2>1. PICK node : node = Walk(links, t, Cardinality(Locks) + 1)
    OBVIOUS
  <2>2. PICK k \in 0 .. Cardinality(Locks) :
          /\ ls = [i \in 1 .. k |-> node[i]]
          /\ \A i, j \in 1 .. k : node[i] = node[j] => i = j
    BY <2>1 DEF release_locks, Releasable
  <2>3. k \in Nat
    OBVIOUS
  <2> QED
    BY <2>2, <2>3
<1>2. PICK busy : busy = {i \in DOMAIN ls : First(ls[i]) # <<>>}
  OBVIOUS
<1>3. PICK at \in [DOMAIN us -> busy] :
        /\ {at[k] : k \in DOMAIN us} = busy
        /\ \A j, k \in DOMAIN us : j < k => at[j] < at[k]
        /\ \A k \in DOMAIN us : us[k] = Head(First(ls[at[k]]))
  BY <1>2 DEF Woken
<1>4. ASSUME NEW i \in DOMAIN ls
      PROVE  /\ ls[i] \in AllSemas /\ ls[i] \in ToSet(ls)
             /\ i \in busy <=> waiters[ls[i]] # <<>>
             /\ i \in busy => /\ Head(First(ls[i])) = Head(waiters[ls[i]])
                              /\ In(Head(waiters[ls[i]]), waiters[ls[i]])
                              /\ Head(waiters[ls[i]]) \in Threads
  <2>1. ls[i] \in ToSet(ls) /\ ls[i] \in AllSemas
    BY <1>0 DEF ToSet
  <2>2. PICK s \in AllSemas : s = ls[i]
    BY <2>1
  <2>3. i \in busy <=> First(s) # <<>>
    BY <1>2, <2>2
  <2>4. /\ waiters[s] = <<>> => First(s) = <<>>
        /\ waiters[s] # <<>> => First(s) = <<Head(waiters[s])>> /\ Head(waiters[s]) \in Threads
    BY QFacts, FirstTypes
  <2>5. \A x : <<x>> # <<>> /\ Head(<<x>>) = x
    OBVIOUS
  <2>6. waiters[s] # <<>> => In(Head(waiters[s]), waiters[s])
    <3>1. waiters[s] \in Seq(Threads)
      BY QFacts
    <3>2. waiters[s] # <<>> => 1 \in DOMAIN waiters[s] /\ waiters[s][1] = Head(waiters[s])
      BY <3>1
    <3> QED
      BY <3>2 DEF In
  <2>7. i \in busy <=> waiters[s] # <<>>
    BY ONLY <2>3, <2>4, <2>5
  <2>8. i \in busy => Head(First(s)) = Head(waiters[s])
    BY ONLY <2>4, <2>5, <2>7
  <2> QED
    BY ONLY <2>1, <2>2, <2>4, <2>6, <2>7, <2>8
<1>5. Distinct(us)
  <2> SUFFICES ASSUME NEW j \in DOMAIN us, NEW k \in DOMAIN us, us[j] = us[k] PROVE j = k
    BY DEF Distinct
  <2>1. /\ at[j] \in busy /\ at[k] \in busy /\ at[j] \in DOMAIN ls /\ at[k] \in DOMAIN ls
    BY <1>2, <1>3
  <2>2. /\ us[j] = Head(waiters[ls[at[j]]]) /\ us[k] = Head(waiters[ls[at[k]]])
        /\ In(us[j], waiters[ls[at[j]]]) /\ In(us[k], waiters[ls[at[k]]])
        /\ ls[at[j]] \in AllSemas /\ ls[at[k]] \in AllSemas /\ us[j] \in Threads
    BY <1>3, <1>4, <2>1
  <2>3. <<"woken", ls[at[j]]>> = <<"woken", ls[at[k]]>>
    BY <2>2, QFacts DEF QueueOK, WaitOK
  <2>4. ls[at[j]] = ls[at[k]]
    BY <2>3
  <2>5. at[j] = at[k] /\ at[j] \in Nat
    BY <1>1, <2>1, <2>4
  <2>6. j \in Nat /\ k \in Nat
    BY <1>0
  <2>7. ~(j < k) /\ ~(k < j)
    BY <1>3, <2>5
  <2> QED
    BY <2>6, <2>7
<1>6. ASSUME NEW u \in Threads
      PROVE  In(u, us) <=> \E s \in AllSemas : s \in ToSet(ls) /\ waiters[s] # <<>> /\ u = Head(waiters[s])
  <2>1. ASSUME NEW k \in DOMAIN us, us[k] = u
        PROVE  \E s \in AllSemas : s \in ToSet(ls) /\ waiters[s] # <<>> /\ u = Head(waiters[s])
    <3>1. at[k] \in busy /\ at[k] \in DOMAIN ls /\ u = Head(First(ls[at[k]]))
      BY <1>2, <1>3, <2>1
    <3> QED
      BY <1>4, <3>1
  <2>2. ASSUME NEW s \in ToSet(ls), waiters[s] # <<>>, u = Head(waiters[s]) PROVE In(u, us)
    <3>1. PICK i \in DOMAIN ls : ls[i] = s
      BY DEF ToSet
    <3>2. i \in busy /\ u = Head(First(ls[i]))
      BY <1>4, <2>2, <3>1
    <3>3. PICK k \in DOMAIN us : at[k] = i
      BY <1>3, <3>2
    <3>4. us[k] = u
      BY <1>3, <3>2, <3>3
    <3> QED
      BY <3>4 DEF In
  <2> QED
    BY <2>1, <2>2 DEF In
<1> QED
  BY <1>0, <1>5, <1>6

LEMMA ExitQueue ==
  ASSUME QInv, NEW t \in Threads, Exit(t)
  PROVE  QueueInv'
<1>1. /\ running = t /\ status[t] = "RUNNING" /\ todo[t] = <<>>
      /\ idle_thread' = idle_thread /\ todo' = todo
  BY QFacts DEF Exit, InProgram
<1>2. t # first_idle
  BY <1>1, QFacts, IdleBusy DEF QueueOK
<1>3. CASE UNCHANGED <<status, ready_list, running, waiters>>
  BY <1>1, <1>3 DEF QInv, QueueInv, RunsOne
<1>4. ASSUME NEW ls \in release_locks(t), NEW us \in Woken(ls), Up(ToSet(ls)),
             Schedule(t, "DYING", [u \in Threads |-> IF u \in ToSet(us) THEN "READY" ELSE status[u]],
                      ready_list \o us)
      PROVE  QueueInv'
  <2>1. /\ us \in Seq(Threads) /\ Distinct(us)
        /\ \A u \in Threads :
             In(u, us) <=> \E s \in AllSemas : s \in ToSet(ls) /\ waiters[s] # <<>> /\ u = Head(waiters[s])
    BY WokenAll
  <2>2. PICK sts : sts = [u \in Threads |-> IF u \in ToSet(us) THEN "READY" ELSE status[u]]
    OBVIOUS
  <2>3. /\ ready_list \o us \in Seq(Threads)
        /\ \A i \in DOMAIN us : status[us[i]] = "BLOCKED"
        /\ QueueOK(sts, ready_list \o us, waiters', todo, idle_thread)
    <3>1. RestOK /\ QueueOK(status, ready_list, waiters, todo, idle_thread)
      BY QFacts
    <3> QED
      BY ONLY <1>4, <2>1, <2>2, <3>1, UpOK
  <2>4. sts \in [Threads -> Statuses] /\ "DYING" \in Statuses /\ AfterSwitch(t, "DYING") \in {"DYING", "FREE"}
        /\ AfterSwitch(t, "DYING") \in Statuses
    BY <2>2, QFacts DEF Statuses, AfterSwitch
  <2>5. t \notin ToSet(us)
    BY <1>1, <2>3 DEF ToSet
  <2>6. sts[t] = "RUNNING" /\ \A u \in Threads : u # t => sts[u] # "RUNNING"
    BY <1>1, <2>2, <2>5, QFacts
  <2>7. PICK st0 : st0 = [sts EXCEPT ![t] = AfterSwitch(t, "DYING")]
    OBVIOUS
  <2>8. QueueOK(st0, ready_list \o us, waiters', todo, idle_thread)
    BY ONLY <1>2, <2>3, <2>4, <2>6, <2>7, t \in Threads, LeaveOK
  <2>9. \A u \in Threads : st0[u] # "RUNNING"
    BY <2>4, <2>6, <2>7
  <2>10. Schedule(t, "DYING", sts, ready_list \o us) /\ idle_thread \in Threads \cup {None}
    BY <1>4, <2>2, QFacts
  <2>11. QueueOK(status', ready_list', waiters', todo, idle_thread) /\ RunsOne'
    BY ONLY <2>3, <2>4, <2>7, <2>8, <2>9, <2>10, t \in Threads, Dispatch
  <2> QED
    BY <1>1, <2>11 DEF QueueInv
<1> QED
  BY <1>3, <1>4 DEF Exit

LEMMA QueueStart == Init => QueueInv
<1> SUFFICES ASSUME Init PROVE QueueInv
  OBVIOUS
<1>1. PICK a, b, c, d : a = <<"down", "idle_started">> /\ b = <<"start">>
                     /\ c = <<"up", "idle_started">> /\ d = <<"idle">>
  OBVIOUS
<1>2. ASSUME NEW t \in Threads
      PROVE  /\ status[t] = IF t = initial_thread THEN "RUNNING"
                            ELSE IF t = first_idle THEN "READY" ELSE "FREE"
             /\ todo[t] = IF t = initial_thread THEN <<a>>
                          ELSE IF t = first_idle THEN <<b, c, d>> ELSE <<>>
  BY <1>1, ThreadConstants DEF Init, ThreadInit
<1>3. ready_list = <<first_idle>> /\ running = initial_thread /\ idle_thread = None
      /\ \A s \in AllSemas : waiters[s] = <<>>
  BY DEF Init, ThreadInit, SynchInit
<1>4. ASSUME NEW t \in Threads, NEW i \in DOMAIN todo[t]
      PROVE  /\ todo[t][i] \in {a, b, c, d}
             /\ t # first_idle => todo[t][i] = a
  <2>1. DOMAIN <<a>> = {1} /\ <<a>>[1] = a
    OBVIOUS
  <2>2. DOMAIN <<b, c, d>> = {1, 2, 3} /\ <<b, c, d>>[1] = b /\ <<b, c, d>>[2] = c /\ <<b, c, d>>[3] = d
    OBVIOUS
  <2>3. DOMAIN <<>> = {}
    OBVIOUS
  <2> QED
    BY <1>2, <2>1, <2>2, <2>3
<1>5. \A op \in {a, b, c, d} : /\ \A u \in Threads : op # <<"process", u>>
                               /\ \A x \in Conds : op # <<"broadcast", x>>
  BY <1>1
<1>6. \A t, u \in Threads, i \in Nat : ~Creates(todo, t, i, u)
  BY <1>4, <1>5 DEF Creates
<1>7. ReadyOK(status, ready_list, idle_thread)
  <2>1. DOMAIN <<first_idle>> = {1} /\ <<first_idle>>[1] = first_idle
    OBVIOUS
  <2> QED
    BY <1>2, <1>3, <2>1, ThreadConstants DEF ReadyOK, Distinct, In
<1>8. WaitOK(status, waiters, todo)
  <2>1. DOMAIN <<>> = {}
    OBVIOUS
  <2> QED
    BY <1>3, <2>1 DEF WaitOK, Distinct, In
<1>9. UnbornOK(status, waiters, todo) /\ BlockedOK(status, waiters, todo, idle_thread)
  BY <1>2, <1>6 DEF UnbornOK, BlockedOK
<1>10. IdleOK(status, todo, idle_thread)
  <2>1. todo[first_idle] = << <<"start">>, <<"up", "idle_started">>, <<"idle">> >>
        /\ status[first_idle] = "READY"
    BY <1>1, <1>2, ThreadConstants
  <2>2. a \notin {<<"start">>, <<"idle">>}
    BY <1>1
  <2> QED
    BY <1>3, <1>4, <2>1, <2>2 DEF IdleOK
<1>11. LastOK(todo)
  BY <1>4, <1>5 DEF LastOK
<1>12. RunsOne
  BY <1>2, <1>3, ThreadConstants DEF RunsOne
<1> QED
  BY <1>7, <1>8, <1>9, <1>10, <1>11, <1>12 DEF QueueInv, QueueOK

LEMMA QueueStep == QInv /\ [Next]_vars => QueueInv'
<1> SUFFICES ASSUME QInv, [Next]_vars PROVE QueueInv'
  OBVIOUS
<1>1. ASSUME UNCHANGED vars PROVE QueueInv'
  <2>1. StillQueues /\ todo' = todo
    BY <1>1 DEF vars, thread_vars, synch_vars, StillQueues
  <2> QED
    BY <2>1, StillQueue, QFacts
<1>2. ASSUME NEW t \in Threads, KernelStep(t) PROVE QueueInv'
  <2>1. CASE \E s \in AllSemas : Down(t, s) \/ SemaUp(t, s)
    BY <2>1, DownQueue, SemaUpQueue
  <2>2. CASE LockStep(t)
    BY <2>2, LockStepQueue
  <2>3. CASE CondStep(t)
    BY <2>3, CondStepQueue
  <2>4. CASE CreateStep(t)
    BY <2>4, CreateStepQueue
  <2>5. CASE StartIdle(t) /\ UNCHANGED synch_vars
    BY <2>5, IdleQueue
  <2> QED
    BY <1>2, <2>1, <2>2, <2>3, <2>4, <2>5 DEF KernelStep
<1>3. ASSUME NEW t \in Threads, Idle(t) PROVE QueueInv'
  BY <1>3, IdleQueue DEF Idle
<1>4. ASSUME NEW t \in Threads, Yield(t) PROVE QueueInv'
  BY <1>4, PreemptQueue DEF Yield
<1>5. ASSUME NEW t \in Threads, Call(t) PROVE QueueInv'
  BY <1>5, ClientQueue, CreateQueue, ExitQueue DEF Call
<1> QED
  BY <1>1, <1>2, <1>3, <1>4, <1>5 DEF Next

-----------------------------------------------------------------------------

LEMMA QueuesExclude == QInv => ElemExclusive
<1> SUFFICES ASSUME QInv, NEW t \in Threads
             PROVE  /\ Cardinality(InReady(t)) = IF status[t] = "READY" /\ t # idle_thread THEN 1 ELSE 0
                    /\ Cardinality(InWaiters(t)) =
                         IF status[t] = "BLOCKED" /\ t \notin Unborn \cup {idle_thread} THEN 1 ELSE 0
  BY DEF ElemExclusive
<1>0. \A x : Cardinality({x}) = 1
  BY FS_Singleton
<1>e. Cardinality({}) = 0
  BY FS_EmptySet
<1>1. /\ ReadyOK(status, ready_list, idle_thread) /\ WaitOK(status, waiters, todo)
      /\ UnbornOK(status, waiters, todo) /\ BlockedOK(status, waiters, todo, idle_thread)
      /\ idle_thread # None => idle_thread = first_idle
  BY QFacts DEF QueueOK, IdleOK
<1>2. Cardinality(InReady(t)) = IF status[t] = "READY" /\ t # idle_thread THEN 1 ELSE 0
  <2>1. CASE In(t, ready_list)
    <3>1. PICK i \in DOMAIN ready_list : ready_list[i] = t
      BY <2>1 DEF In
    <3>2. InReady(t) = {i}
      BY <1>1, <3>1 DEF ReadyOK, Distinct, InReady
    <3> QED
      BY <1>0, <1>1, <2>1, <3>2 DEF ReadyOK
  <2>2. CASE ~In(t, ready_list)
    <3>1. InReady(t) = {}
      BY <2>2 DEF In, InReady
    <3> QED
      BY <1>1, <1>e, <2>2, <3>1 DEF ReadyOK
  <2> QED
    BY <2>1, <2>2
<1>3. t \in Unborn <=> status[t] = "BLOCKED" /\ \E v \in Threads, i \in Nat : Creates(todo, v, i, t)
  <2>1. \A v \in Threads : \A i \in DOMAIN todo[v] : i \in Nat
    <3>1. \A v \in Threads : todo[v] \in Seq(Op)
      BY QFacts
    <3>2. \A q \in Seq(Op) : \A i \in DOMAIN q : i \in Nat
      OBVIOUS
    <3> QED
      BY <3>1, <3>2
  <2> QED
    BY <2>1 DEF Unborn, Creates
<1>4. ASSUME NEW s \in AllSemas, In(t, waiters[s])
      PROVE  Cardinality(InWaiters(t)) = 1 /\ status[t] = "BLOCKED" /\ t \notin Unborn \cup {idle_thread}
  <2>1. status[t] = "BLOCKED" /\ t # first_idle /\ Head(todo[t]) = <<"woken", s>> /\ Distinct(waiters[s])
    BY <1>1, <1>4 DEF WaitOK
  <2>2. PICK i \in DOMAIN waiters[s] : waiters[s][i] = t
    BY <1>4 DEF In
  <2>3. ASSUME NEW r \in AllSemas, NEW j \in DOMAIN waiters[r], waiters[r][j] = t PROVE r = s /\ j = i
    <3>1. Head(todo[t]) = <<"woken", r>>
      BY <1>1, <2>3 DEF WaitOK, In
    <3>2. <<"woken", r>> = <<"woken", s>>
      BY <2>1, <3>1
    <3>3. r = s
      BY <3>2
    <3> QED
      BY <2>1, <2>2, <2>3, <3>3 DEF Distinct
  <2>4. InWaiters(t) = {<<s, i>>}
    <3>1. \A x : x \in InWaiters(t) <=> \E r \in AllSemas : \E j \in DOMAIN waiters[r] : waiters[r][j] = t /\ x = <<r, j>>
      BY DEF InWaiters
    <3> QED
      BY <2>2, <2>3, <3>1
  <2>5. t \notin Unborn
    BY <1>1, <1>3, <1>4 DEF UnbornOK
  <2> QED
    BY <1>0, <1>1, <2>1, <2>4, <2>5, ThreadConstants
<1>5. ASSUME \A s \in AllSemas : ~In(t, waiters[s])
      PROVE  Cardinality(InWaiters(t)) = 0 /\ ~(status[t] = "BLOCKED" /\ t \notin Unborn \cup {idle_thread})
  <2>1. InWaiters(t) = {}
    BY <1>5 DEF InWaiters, In
  <2> QED
    BY <1>1, <1>3, <1>5, <1>e, <2>1 DEF BlockedOK
<1> QED
  BY <1>2, <1>4, <1>5

\* A thread is in ready_list or in the waiters of one semaphore, once, and in
\* the one its status says (thread.h, the comment on elem), whatever clients do
\* with semaphores, locks, condition variables, thread_create and thread_exit.
THEOREM OneQueue == Spec => []ElemExclusive
<1>1. Init => QInv
  BY LocksStart, QueueStart DEF QInv
<1>2. QInv /\ [Next]_vars => QInv'
  BY LocksStep, QueueStep DEF QInv
<1>3. QInv => ElemExclusive
  BY QueuesExclude
<1> QED
  BY <1>1, <1>2, <1>3, PTL DEF Spec

-----------------------------------------------------------------------------

\* Wake-ups: Awake over steps td and waiters w, and NoLostWakeup with it.
Woke(td, w, s) ==
  {u \in Threads : td[u] # <<>> /\ Head(td[u]) = <<"woken", s>> /\ \A r \in AllSemas : ~In(u, w[r])}

WakeInv ==
  \A s \in AllSemas : waiters[s] # <<>> => value[s] <= Cardinality(Woke(todo, waiters, s))

WakeOf(s) == waiters'[s] # <<>> => value'[s] <= Cardinality(Woke(todo', waiters', s))

\* u sleeps on s, or has been woken and has not run.
WokenFor(u, s) == todo[u] # <<>> /\ Head(todo[u]) = <<"woken", s>>

LEMMA WokeFinite ==
  ASSUME NEW td, NEW w, NEW s
  PROVE  IsFiniteSet(Woke(td, w, s)) /\ Cardinality(Woke(td, w, s)) \in Nat
<1>1. Woke(td, w, s) \in SUBSET Threads
  BY DEF Woke
<1>2. IsFiniteSet(Woke(td, w, s))
  BY <1>1, ThreadConstants, FS_Subset
<1> QED
  BY <1>2, FS_CardinalityType

\* Nobody leaves Awake(s), and the value does not grow.
LEMMA KeepAwake ==
  ASSUME RestOK, WakeInv, NEW s \in AllSemas,
         value'[s] \in Int, value'[s] <= value[s],
         waiters'[s] # <<>> => waiters[s] # <<>>,
         \A u \in Threads : WokenFor(u, s) => todo'[u] # <<>> /\ Head(todo'[u]) = <<"woken", s>>,
         \A u \in Threads : WokenFor(u, s) =>
           \A r \in AllSemas : In(u, waiters'[r]) => In(u, waiters[r])
  PROVE  WakeOf(s)
<1>1. PICK a : a = Woke(todo, waiters, s)
  OBVIOUS
<1>2. PICK b : b = Woke(todo', waiters', s)
  OBVIOUS
<1>3. a \in SUBSET b
  BY <1>1, <1>2 DEF Woke, WokenFor
<1>4. IsFiniteSet(b) /\ Cardinality(a) \in Nat /\ Cardinality(b) \in Nat
  BY <1>1, <1>2, WokeFinite
<1>5. Cardinality(a) <= Cardinality(b)
  BY <1>3, <1>4, FS_Subset
<1>6. value[s] \in Int
  BY DEF RestOK
<1>7. waiters[s] # <<>> => value[s] <= Cardinality(a)
  BY <1>1 DEF WakeInv
<1> QED
  BY <1>2, <1>4, <1>5, <1>6, <1>7 DEF WakeOf

\* A step of a thread that is not about to test a semaphore again.
LEMMA QuietWake ==
  ASSUME RestOK, todo \in [Threads -> Seq(Op)], WakeInv, NEW t \in Threads,
         \A s \in AllSemas : ~WokenFor(t, s), \A u \in Threads \ {t} : todo'[u] = todo[u],
         \A s \in AllSemas : value'[s] \in Int /\ value'[s] <= value[s],
         \A s \in AllSemas : waiters'[s] = waiters[s] \/ waiters'[s] = <<>>
  PROVE  WakeInv'
<1>1. ASSUME NEW s \in AllSemas PROVE WakeOf(s)
  <2>1. \A u \in Threads : WokenFor(u, s) => todo'[u] # <<>> /\ Head(todo'[u]) = <<"woken", s>>
    BY DEF WokenFor
  <2>2. DOMAIN <<>> = {}
    OBVIOUS
  <2>3. \A u \in Threads : \A r \in AllSemas : In(u, waiters'[r]) => In(u, waiters[r])
    BY <2>2 DEF In
  <2> QED
    BY <2>1, <2>3, KeepAwake
<1> QED
  BY <1>1 DEF WakeInv, WakeOf

LEMMA DownWake ==
  ASSUME QInv, WakeInv, NEW t \in Threads, NEW s \in AllSemas, Down(t, s)
  PROVE  WakeInv'
<1>1. /\ RestOK /\ todo \in [Threads -> Seq(Op)] /\ \A r \in AllSemas : value[r] \in Nat
      /\ waiters \in [AllSemas -> Seq(Threads)]
  BY QFacts DEF RestOK
<1>2. \A r \in AllSemas : WokenFor(t, r) => r = s
  <2>1. \A r \in AllSemas : <<"down", s>> # <<"woken", r>> /\ (<<"woken", s>> = <<"woken", r>> => r = s)
    OBVIOUS
  <2> QED
    BY <2>1 DEF Down, NextStep, WokenFor
<1>3. CASE DownTake(t, s)
  <2>1. /\ \A u \in Threads \ {t} : todo'[u] = todo[u]
        /\ waiters' = waiters
        /\ value[s] > 0 /\ value' = [value EXCEPT ![s] = @ - 1]
    BY <1>3, <1>1 DEF DownTake, Done, Then
  <2>2. \A r \in AllSemas : value'[r] \in Int /\ value'[r] = IF r = s THEN value[s] - 1 ELSE value[r]
    BY <1>1, <2>1 DEF RestOK
  <2>3. ASSUME NEW r \in AllSemas, r # s PROVE WakeOf(r)
    <3>1. \A u \in Threads : WokenFor(u, r) => todo'[u] # <<>> /\ Head(todo'[u]) = <<"woken", r>>
      BY <1>2, <2>1, <2>3 DEF WokenFor
    <3>2. value[r] \in Nat /\ value'[r] = value[r] /\ waiters'[r] = waiters[r] /\ waiters' = waiters
      BY <1>1, <2>1, <2>2, <2>3
    <3>3. value'[r] \in Int /\ value'[r] <= value[r] /\ (waiters'[r] # <<>> => waiters[r] # <<>>)
      BY <3>2
    <3> QED
      BY <1>1, <3>1, <3>2, <3>3, KeepAwake
  <2>4. WakeOf(s)
    <3>1. PICK a : a = Woke(todo, waiters, s)
      OBVIOUS
    <3>2. PICK b : b = Woke(todo', waiters', s)
      OBVIOUS
    <3>3. a \ {t} \in SUBSET b
      BY <2>1, <3>1, <3>2 DEF Woke
    <3>4. IsFiniteSet(a) /\ IsFiniteSet(b) /\ Cardinality(a) \in Nat /\ Cardinality(b) \in Nat
      BY <3>1, <3>2, WokeFinite
    <3>5. Cardinality(a \ {t}) \in Int /\ Cardinality(a \ {t}) >= Cardinality(a) - 1
      BY <3>4, FS_RemoveElement
    <3>6. Cardinality(a \ {t}) <= Cardinality(b)
      BY <3>3, <3>4, FS_Subset
    <3>7. waiters[s] # <<>> => value[s] <= Cardinality(a)
      BY <3>1 DEF WakeInv
    <3>8. value[s] \in Nat /\ value'[s] = value[s] - 1 /\ waiters'[s] = waiters[s]
      BY <1>1, <2>1, <2>2
    <3>9. waiters'[s] # <<>> => value'[s] <= Cardinality(b)
      BY ONLY <3>4, <3>5, <3>6, <3>7, <3>8
    <3> QED
      BY <3>2, <3>9 DEF WakeOf
  <2> QED
    BY <2>3, <2>4 DEF WakeInv, WakeOf
<1>4. CASE DownSleep(t, s)
  <2>1. /\ \A u \in Threads \ {t} : todo'[u] = todo[u]
        /\ waiters' = [waiters EXCEPT ![s] = Append(@, t)]
        /\ value[s] = 0 /\ value' = value
    BY <1>4, <1>1 DEF DownSleep, Becomes, Then
  <2>2. ASSUME NEW r \in AllSemas, r # s PROVE WakeOf(r)
    <3>1. \A u \in Threads : WokenFor(u, r) => u # t /\ todo'[u] # <<>> /\ Head(todo'[u]) = <<"woken", r>>
      BY <1>2, <2>1, <2>2 DEF WokenFor
    <3>2. ASSUME NEW u \in Threads, u # t, NEW x \in AllSemas, In(u, waiters'[x]) PROVE In(u, waiters[x])
      <4>1. CASE x # s
        <5>1. waiters'[x] = waiters[x]
          BY <1>1, <2>1, <4>1
        <5> QED
          BY <3>2, <5>1
      <4>2. CASE x = s
        <5>1. PICK q : q = waiters[s]
          OBVIOUS
        <5>2. q \in Seq(Threads) /\ waiters'[s] = Append(q, t)
          BY <1>1, <2>1, <5>1
        <5>3. \A i \in DOMAIN Append(q, t) : Append(q, t)[i] # t => i \in DOMAIN q /\ q[i] = Append(q, t)[i]
          BY <5>2
        <5>4. In(u, Append(q, t))
          BY <3>2, <4>2, <5>2
        <5>5. In(u, q)
          BY ONLY <3>2, <5>3, <5>4 DEF In
        <5> QED
          BY <4>2, <5>1, <5>5
      <4> QED
        BY <4>1, <4>2
    <3>3. waiters'[r] = waiters[r] /\ value'[r] = value[r] /\ value[r] \in Nat /\ value[r] <= value[r]
      BY <1>1, <2>1, <2>2
    <3>4. value'[r] \in Int /\ value'[r] <= value[r] /\ (waiters'[r] # <<>> => waiters[r] # <<>>)
      BY <3>3
    <3> QED
      BY <1>1, <3>1, <3>2, <3>4, KeepAwake
  <2>3. WakeOf(s)
    <3>1. Cardinality(Woke(todo', waiters', s)) \in Nat
      BY WokeFinite
    <3>2. value'[s] = 0
      BY <2>1
    <3> QED
      BY <3>1, <3>2 DEF WakeOf
  <2> QED
    BY <2>2, <2>3 DEF WakeInv, WakeOf
<1> QED
  BY <1>3, <1>4 DEF Down

\* sema_up of all of ss by a thread that is not about to test a semaphore again.
LEMMA UpWake ==
  ASSUME QInv, WakeInv, NEW t \in Threads, NEW ss, Up(ss),
         \A s \in AllSemas : ~WokenFor(t, s), \A u \in Threads \ {t} : todo'[u] = todo[u]
  PROVE  WakeInv'
<1>1. /\ RestOK /\ todo \in [Threads -> Seq(Op)] /\ \A r \in AllSemas : value[r] \in Nat
      /\ \A r \in AllSemas : waiters[r] \in Seq(Threads) /\ Distinct(waiters[r])
      /\ \A r \in AllSemas, u \in Threads : In(u, waiters[r]) => WokenFor(u, r)
  BY QFacts DEF RestOK, QueueOK, WaitOK, WokenFor
<1>2. \A r \in AllSemas :
        /\ r \in ss => value'[r] = value[r] + 1
        /\ r \notin ss => value'[r] = value[r] /\ waiters'[r] = waiters[r]
        /\ r \in ss => waiters'[r] = IF waiters[r] = <<>> THEN <<>> ELSE Tail(waiters[r])
  BY <1>1, FirstTypes DEF Up
<1>3. \A q \in Seq(Threads) : q # <<>> =>
        /\ 1 \in DOMAIN q /\ q[1] = Head(q) /\ Head(q) \in Threads
        /\ \A i \in DOMAIN Tail(q) : i + 1 \in DOMAIN q /\ i + 1 # 1 /\ Tail(q)[i] = q[i + 1]
  OBVIOUS
<1>4. ASSUME NEW q \in Seq(Threads), q # <<>>, NEW u, In(u, Tail(q)) PROVE In(u, q)
  BY <1>3, <1>4 DEF In
<1>5. DOMAIN <<>> = {}
  OBVIOUS
<1>6. ASSUME NEW u \in Threads, NEW r \in AllSemas, In(u, waiters'[r]) PROVE In(u, waiters[r])
  <2>1. CASE r \in ss /\ waiters[r] # <<>>
    BY <1>1, <1>2, <1>4, <1>6, <2>1
  <2>2. CASE r \in ss /\ waiters[r] = <<>>
    BY <1>2, <1>5, <1>6, <2>2 DEF In
  <2>3. CASE r \notin ss
    BY <1>2, <1>6, <2>3
  <2> QED
    BY <2>1, <2>2, <2>3
<1>7. \A r \in AllSemas, u \in Threads :
        WokenFor(u, r) => u # t /\ todo'[u] # <<>> /\ Head(todo'[u]) = <<"woken", r>>
  BY DEF WokenFor
<1>8. ASSUME NEW s \in AllSemas, s \notin ss PROVE WakeOf(s)
  <2>1. value'[s] = value[s] /\ value[s] \in Nat /\ waiters'[s] = waiters[s]
    BY <1>1, <1>2, <1>8
  <2>2. value'[s] \in Int /\ value'[s] <= value[s] /\ (waiters'[s] # <<>> => waiters[s] # <<>>)
    BY <2>1
  <2> QED
    BY <1>1, <1>6, <1>7, <2>2, KeepAwake
<1>9. ASSUME NEW s \in AllSemas, s \in ss, waiters'[s] # <<>>
      PROVE  value'[s] <= Cardinality(Woke(todo', waiters', s))
  <2>1. waiters[s] # <<>> /\ waiters'[s] = Tail(waiters[s]) /\ value'[s] = value[s] + 1
    BY <1>2, <1>9
  <2>2. PICK h \in Threads : h = Head(waiters[s]) /\ In(h, waiters[s])
    BY <1>1, <1>3, <2>1 DEF In
  <2>3. WokenFor(h, s)
    BY <1>1, <2>2
  <2>4. ASSUME NEW r \in AllSemas, In(h, waiters'[r]) PROVE FALSE
    <3>1. WokenFor(h, r)
      BY <1>1, <1>6, <2>4
    <3>2. <<"woken", r>> = <<"woken", s>>
      BY <2>3, <3>1 DEF WokenFor
    <3>3. r = s
      BY <3>2
    <3>4. In(h, Tail(waiters[s]))
      BY <2>1, <2>4, <3>3
    <3> QED
      BY <1>1, <1>3, <2>1, <2>2, <3>4 DEF In, Distinct
  <2>5. PICK a : a = Woke(todo, waiters, s)
    OBVIOUS
  <2>6. PICK b : b = Woke(todo', waiters', s)
    OBVIOUS
  <2>7. h \notin a
    BY <2>2, <2>5 DEF Woke
  <2>8. h \in b
    BY <1>7, <2>3, <2>4, <2>6 DEF Woke
  <2>9. a \in SUBSET b
    BY <1>6, <1>7, <2>5, <2>6 DEF Woke, WokenFor
  <2>10. IsFiniteSet(a) /\ IsFiniteSet(b) /\ Cardinality(a) \in Nat /\ Cardinality(b) \in Nat
    BY <2>5, <2>6, WokeFinite
  <2>11. Cardinality(a \cup {h}) = Cardinality(a) + 1
    BY <2>7, <2>10, FS_AddElement
  <2>12. a \cup {h} \in SUBSET b
    BY <2>8, <2>9
  <2>13. Cardinality(a \cup {h}) <= Cardinality(b)
    BY <2>10, <2>12, FS_Subset
  <2>14. value[s] \in Nat /\ value[s] <= Cardinality(a)
    BY <1>1, <2>1, <2>5 DEF WakeInv
  <2>15. value'[s] <= Cardinality(b)
    BY ONLY <2>1, <2>10, <2>11, <2>13, <2>14
  <2> QED
    BY <2>6, <2>15
<1> QED
  BY <1>8, <1>9 DEF WakeInv, WakeOf

LEMMA WakeStart == Init => WakeInv
BY DEF Init, SynchInit, WakeInv

\* What the thread of a step does first, and then the step's effect.
LEMMA KernelWake ==
  ASSUME QInv, WakeInv, NEW t \in Threads, KernelStep(t)
  PROVE  WakeInv'
<1>1. /\ RestOK /\ todo \in [Threads -> Seq(Op)] /\ value \in [AllSemas -> Nat]
      /\ waiters \in [AllSemas -> Seq(Threads)]
  BY QFacts DEF RestOK
<1>2. \A s \in AllSemas : value[s] \in Int /\ value[s] <= value[s]
  BY <1>1
<1>3. ASSUME NEW op, NextStep(t, op), \A s \in AllSemas : op # <<"woken", s>>, NEW q, Then(t, q),
             value' = value, waiters' = waiters
      PROVE  WakeInv'
  <2>1. \A s \in AllSemas : ~WokenFor(t, s)
    BY <1>3 DEF NextStep, WokenFor
  <2>2. \A u \in Threads \ {t} : todo'[u] = todo[u]
    BY <1>1, <1>3 DEF Then
  <2>3. \A s \in AllSemas : value'[s] \in Int /\ value'[s] <= value[s]
    BY <1>2, <1>3
  <2> QED
    BY <1>1, <1>3, <2>1, <2>2, <2>3, QuietWake
<1>4. ASSUME NEW s \in AllSemas, SemaUp(t, s) PROVE WakeInv'
  <2>1. \A r \in AllSemas : ~WokenFor(t, r)
    BY <1>4 DEF SemaUp, NextStep, WokenFor
  <2>2. \A u \in Threads \ {t} : todo'[u] = todo[u]
    BY <1>1, <1>4 DEF SemaUp, Done, Then
  <2> QED
    BY <1>4, <2>1, <2>2, UpWake DEF SemaUp
<1>5. ASSUME NEW l \in Locks, Own(t, l) \/ Disown(t, l) \/ Misfile(t, l) PROVE WakeInv'
  <2>1. PICK op \in {<<"own", l>>, <<"disown", l>>, <<"misfile", l>>} : NextStep(t, op)
    BY <1>5 DEF Own, Disown, Misfile
  <2>2. \A s \in AllSemas : op # <<"woken", s>>
    OBVIOUS
  <2>3. Then(t, Tail(todo[t])) /\ value' = value /\ waiters' = waiters
    BY <1>5 DEF Own, Disown, Misfile, Done, synch_vars
  <2> QED
    BY <1>3, <2>1, <2>2, <2>3
<1>6. ASSUME NEW c \in Conds, Enqueue(t, c) PROVE WakeInv'
  <2>1. \A s \in AllSemas : ~WokenFor(t, s)
    BY <1>6 DEF Enqueue, NextStep, WokenFor
  <2>2. \A u \in Threads \ {t} : todo'[u] = todo[u]
    BY <1>1, <1>6 DEF Enqueue, Done, Then
  <2>3. \A s \in AllSemas :
          /\ value'[s] = IF s = t THEN 0 ELSE value[s]
          /\ waiters'[s] = IF s = t THEN <<>> ELSE waiters[s]
    BY <1>1, <1>6 DEF Enqueue
  <2>4. \A s \in AllSemas : value[s] \in Nat
    BY <1>1
  <2>5. \A s \in AllSemas : value'[s] \in Int /\ value'[s] <= value[s]
    BY <2>3, <2>4
  <2>6. \A s \in AllSemas : waiters'[s] = waiters[s] \/ waiters'[s] = <<>>
    BY <2>3
  <2> QED
    BY <1>1, <2>1, <2>2, <2>5, <2>6, QuietWake
<1>7. ASSUME NEW c \in Conds, Broadcast(t, c) PROVE WakeInv'
  <2>1. PICK q : Then(t, q) /\ value' = value /\ waiters' = waiters
    BY <1>7 DEF Broadcast, Signal
  <2>2. NextStep(t, <<"broadcast", c>>) /\ \A s \in AllSemas : <<"broadcast", c>> # <<"woken", s>>
    BY <1>7 DEF Broadcast
  <2> QED
    BY <1>3, <2>1, <2>2
<1>8. ASSUME NEW u \in Threads, LinkThread(t, u) \/ CountTid(t, u) \/ NewProcess(t, u) PROVE WakeInv'
  <2>1. PICK op \in {<<"link", u>>, <<"close", u>>, <<"tid", u>>, <<"count", u>>, <<"process", u>>} :
          NextStep(t, op)
    BY <1>8 DEF LinkThread, CountTid, NewProcess
  <2>2. \A s \in AllSemas : op # <<"woken", s>>
    OBVIOUS
  <2>3. Then(t, Tail(todo[t])) /\ value' = value /\ waiters' = waiters
    BY <1>8 DEF LinkThread, CountTid, NewProcess, Done, synch_vars
  <2> QED
    BY <1>3, <2>1, <2>2, <2>3
<1>9. ASSUME StartIdle(t), UNCHANGED synch_vars PROVE WakeInv'
  <2>1. NextStep(t, <<"start">>) /\ \A s \in AllSemas : <<"start">> # <<"woken", s>>
    BY <1>9 DEF StartIdle
  <2>2. Then(t, Tail(todo[t])) /\ value' = value /\ waiters' = waiters
    BY <1>9 DEF StartIdle, Done, synch_vars
  <2> QED
    BY <1>3, <2>1, <2>2
<1> QED
  BY <1>4, <1>5, <1>6, <1>7, <1>8, <1>9, DownWake DEF KernelStep, LockStep, CondStep, CreateStep

LEMMA CallWake ==
  ASSUME QInv, WakeInv, NEW t \in Threads, Call(t)
  PROVE  WakeInv'
<1>1. /\ RestOK /\ todo \in [Threads -> Seq(Op)] /\ value \in [AllSemas -> Nat]
      /\ waiters \in [AllSemas -> Seq(Threads)]
  BY QFacts DEF RestOK
<1>2. \A s \in AllSemas : value[s] \in Nat /\ value[s] \in Int /\ value[s] <= value[s]
  BY <1>1
<1>3. ASSUME InProgram(t), \A u \in Threads \ {t} : todo'[u] = todo[u], waiters' = waiters,
             \A s \in AllSemas : value'[s] \in Int /\ value'[s] <= value[s]
      PROVE  WakeInv'
  <2>1. \A s \in AllSemas : ~WokenFor(t, s)
    BY <1>3 DEF InProgram, WokenFor
  <2> QED
    BY <1>1, <1>3, <2>1, QuietWake
<1>4. ASSUME InProgram(t), NEW q, Then(t, q), waiters' = waiters, value' = value PROVE WakeInv'
  <2>1. \A u \in Threads \ {t} : todo'[u] = todo[u]
    BY <1>1, <1>4 DEF Then
  <2>2. \A s \in AllSemas : value'[s] \in Int /\ value'[s] <= value[s]
    BY <1>2, <1>4
  <2> QED
    BY <1>3, <1>4, <2>1, <2>2
<1>5. ASSUME NEW s \in Semas, CallDown(t, s) \/ CallUp(t, s) PROVE WakeInv'
  <2>1. InProgram(t) /\ (\E q : Then(t, q)) /\ waiters' = waiters /\ value' = value
    BY <1>5 DEF CallDown, CallUp, synch_vars
  <2> QED
    BY <1>4, <2>1
<1>6. ASSUME NEW l \in Locks, Acquire(t, l) \/ Release(t, l) PROVE WakeInv'
  <2>1. InProgram(t) /\ (\E q : Then(t, q)) /\ waiters' = waiters /\ value' = value
    BY <1>6 DEF Acquire, Release, synch_vars
  <2> QED
    BY <1>4, <2>1
<1>7. ASSUME NEW l \in Locks, TryAcquire(t, l) PROVE WakeInv'
  <2>1. /\ InProgram(t) /\ waiters' = waiters /\ l \in AllSemas
        /\ value' = [value EXCEPT ![l] = IF @ > 0 THEN @ - 1 ELSE @]
        /\ \A u \in Threads \ {t} : todo'[u] = todo[u]
    BY <1>1, <1>7, Names DEF TryAcquire, Then
  <2>2. \A s \in AllSemas : value'[s] = value[s] \/ (value'[s] = value[s] - 1)
    BY <1>1, <2>1
  <2>3. \A s \in AllSemas : value'[s] \in Int /\ value'[s] <= value[s]
    BY <1>2, <2>2
  <2> QED
    BY <1>3, <2>1, <2>3
<1>8. ASSUME NEW c \in Conds, CondWait(t, c) \/ CondSignal(t, c) \/ CondBroadcast(t, c) PROVE WakeInv'
  <2>1. InProgram(t) /\ (\E q : Then(t, q)) /\ waiters' = waiters /\ value' = value
    BY <1>8 DEF CondWait, CondSignal, CondBroadcast, Signal, synch_vars
  <2> QED
    BY <1>4, <2>1
<1>9. ASSUME Create(t) PROVE WakeInv'
  <2>1. InProgram(t) /\ (\E q : Then(t, q)) /\ waiters' = waiters /\ value' = value
    BY <1>9 DEF Create, synch_vars
  <2> QED
    BY <1>4, <2>1
<1>10. ASSUME Exit(t) PROVE WakeInv'
  <2>1. InProgram(t) /\ todo' = todo
    BY <1>10 DEF Exit
  <2>2. CASE waiters' = waiters /\ value' = value
    BY <1>2, <1>3, <2>1, <2>2
  <2>3. ASSUME NEW ls, Up(ToSet(ls)) PROVE WakeInv'
    <3>1. \A s \in AllSemas : ~WokenFor(t, s)
      BY <2>1 DEF InProgram, WokenFor
    <3> QED
      BY <2>1, <2>3, <3>1, UpWake
  <2> QED
    BY <1>10, <2>2, <2>3 DEF Exit
<1> QED
  BY <1>5, <1>6, <1>7, <1>8, <1>9, <1>10 DEF Call

LEMMA WakeStep == QInv /\ WakeInv /\ [Next]_vars => WakeInv'
<1> SUFFICES ASSUME QInv, WakeInv, [Next]_vars PROVE WakeInv'
  OBVIOUS
<1>1. ASSUME UNCHANGED <<todo, value, waiters>> PROVE WakeInv'
  BY <1>1 DEF WakeInv, Woke
<1>2. ASSUME NEW t \in Threads, Idle(t) \/ Yield(t) PROVE WakeInv'
  BY <1>1, <1>2 DEF Idle, IdleBlock, Yield, Preempt, synch_vars
<1> QED
  BY <1>1, <1>2, KernelWake, CallWake DEF Next, vars, thread_vars, synch_vars

\* No wake-up of a semaphore is lost (sema_up and sema_down of synch.c): while
\* threads wait, every unit of the value has a thread that is awake to take it.
THEOREM WakeUpsKept == Spec => []NoLostWakeup
<1>1. Init => QInv /\ WakeInv
  BY LocksStart, QueueStart, WakeStart DEF QInv
<1>2. QInv /\ WakeInv /\ [Next]_vars => QInv' /\ WakeInv'
  BY LocksStep, QueueStep, WakeStep DEF QInv
<1>3. WakeInv => NoLostWakeup
  <2>1. \A u \in Threads : InWaiters(u) = {} <=> \A r \in AllSemas : ~In(u, waiters[r])
    <3> SUFFICES ASSUME NEW u \in Threads
                 PROVE  InWaiters(u) = {} <=> \A r \in AllSemas : ~In(u, waiters[r])
      OBVIOUS
    <3>1. \A x : x \in InWaiters(u) <=>
            \E r \in AllSemas : \E j \in DOMAIN waiters[r] : waiters[r][j] = u /\ x = <<r, j>>
      BY DEF InWaiters
    <3> QED
      BY <3>1 DEF In
  <2>2. \A s \in AllSemas : Awake(s) = Woke(todo, waiters, s)
    BY <2>1 DEF Awake, Woke
  <2> QED
    BY <2>2 DEF WakeInv, NoLostWakeup
<1> QED
  BY <1>1, <1>2, <1>3, PTL DEF Spec

-----------------------------------------------------------------------------

\* The least number of a set of naturals.
LEMMA Least ==
  ASSUME NEW T, T \subseteq Nat, T # {}
  PROVE  \E m \in T : \A k \in T : m <= k
<1> DEFINE R == {ss \in Nat \X Nat : ss[1] < ss[2]}
<1>1. R = OpToRel(<, Nat)
  BY DEF OpToRel
<1>2. IsWellFoundedOn(R, Nat)
  BY <1>1, NatLessThanWellFounded
<1>3. \A i, j \in Nat : <<i, j>> \in R <=> i < j
  OBVIOUS
<1> HIDE DEF R
<1>4. PICK m \in T : \A k \in T : ~(<<k, m>> \in R)
  BY <1>2, WFMin
<1>5. \A k \in T : ~(k < m) /\ k \in Nat /\ m \in Nat
  BY <1>3, <1>4
<1> QED
  BY <1>4, <1>5

\* Induction up to n, over a set.
LEMMA UpTo ==
  ASSUME NEW n \in Nat, NEW G, 0 \in G, \A i \in 0 .. n : i + 1 \in 0 .. n /\ i \in G => i + 1 \in G
  PROVE  \A i \in 0 .. n : i \in G
<1> SUFFICES ASSUME NEW k \in 0 .. n, k \notin G PROVE FALSE
  OBVIOUS
<1> DEFINE T == {i \in 0 .. n : i \notin G}
<1>1. PICK m \in T : \A i \in T : m <= i
  <2>1. T \subseteq Nat /\ T # {}
    OBVIOUS
  <2> HIDE DEF T
  <2> QED
    BY <2>1, Least
<1>2. m - 1 \in 0 .. n /\ m - 1 \notin T /\ m = (m - 1) + 1
  BY <1>1
<1> QED
  BY <1>1, <1>2

\* What FoldLeft(list_remove, base, es) has done, element after element.
LEMMA FoldIs ==
  ASSUME NEW S, NEW es \in Seq(S), NEW base
  PROVE  \E after : /\ after[0] = base
                    /\ \A i \in 1 .. Len(es) : after[i] = list_remove(after[i - 1], es[i])
                    /\ FoldLeft(list_remove, base, es) = after[Len(es)]
<1> DEFINE n == Len(es)
           F(m, it) == it = [s \in SUBSET (1 .. m) |->
                               IF s = {} THEN base
                               ELSE list_remove(it[s \ {Max(s)}], es[Max(s)])]
<1>0. n \in Nat /\ DOMAIN es = 1 .. n
  OBVIOUS
<1>1. FoldLeft(list_remove, base, es) = (CHOOSE it : F(n, it))[1 .. n]
  BY <1>0 DEF FoldLeft, MapThenFoldSet
<1>2. ASSUME NEW m \in 0 .. n, NEW s \in SUBSET (1 .. m), s # {}
      PROVE  Max(s) \in s /\ \A i \in s : i <= Max(s)
  <2> DEFINE T == {m - i : i \in s}
  <2>0. m \in Nat /\ \A i \in s : i \in Nat /\ i <= m /\ m - i \in Nat
    BY <1>0
  <2>1. T \subseteq Nat /\ T # {}
    <3>1. PICK x \in s : m - x \in Nat
      BY <1>2, <2>0
    <3>2. m - x \in T
      OBVIOUS
    <3> QED
      BY <2>0, <3>2
  <2>2. PICK k \in T : \A j \in T : k <= j
    <3> HIDE DEF T
    <3> QED
      BY <2>1, Least
  <2>3. PICK x \in s : k = m - x
    BY <2>2
  <2>4. ASSUME NEW i \in s PROVE x >= i
    <3>1. k <= m - i
      BY <2>2
    <3> QED
      BY <2>0, <2>3, <3>1
  <2> QED
    BY <1>0, <2>4 DEF Max
<1> DEFINE G == {m \in 0 .. n : \E it : F(m, it)}
<1>3. 0 \in G
  <2>1. PICK it : it = [s \in SUBSET (1 .. 0) |-> base]
    OBVIOUS
  <2>2. \A s \in SUBSET (1 .. 0) : s = {}
    OBVIOUS
  <2>3. F(0, it)
    BY <2>1, <2>2
  <2> QED
    <3>1. 0 \in 0 .. n
      BY <1>0
    <3> HIDE DEF F
    <3> QED
      BY <2>3, <3>1
<1>4. ASSUME NEW m \in 0 .. n, m + 1 \in 0 .. n, m \in G PROVE m + 1 \in G
  <2>1. PICK it : F(m, it)
    BY <1>4
  <2>2. PICK p : p = m + 1 /\ p \in 0 .. n /\ p \notin 1 .. m /\ 1 .. p = 1 .. m \cup {p}
                 /\ \A i \in 1 .. m : i < p
    BY <1>0, <1>4
  <2>3. PICK it2 : it2 = [s \in SUBSET (1 .. p) |->
                            IF p \in s THEN list_remove(it[s \ {p}], es[p]) ELSE it[s]]
    OBVIOUS
  <2>4. ASSUME NEW s \in SUBSET (1 .. p)
        PROVE  it2[s] = IF s = {} THEN base ELSE list_remove(it2[s \ {Max(s)}], es[Max(s)])
    <3>1. CASE p \in s
      <4>1. Max(s) = p
        <5>1. Max(s) \in s /\ \A i \in s : i <= Max(s)
          BY <1>2, <2>2, <3>1
        <5>2. Max(s) \in 1 .. p /\ p <= Max(s)
          BY <3>1, <5>1
        <5> QED
          BY <1>0, <2>2, <5>2
      <4>2. s \ {p} \in SUBSET (1 .. p) /\ p \notin s \ {p}
        OBVIOUS
      <4>3. it2[s \ {p}] = it[s \ {p}]
        BY <2>3, <4>2
      <4> QED
        BY <2>3, <3>1, <4>1, <4>3
    <3>2. CASE p \notin s
      <4>1. s \in SUBSET (1 .. m) /\ s \ {Max(s)} \in SUBSET (1 .. m) /\ it2[s] = it[s]
        BY <2>2, <2>3, <3>2
      <4>2. s \ {Max(s)} \in SUBSET (1 .. p) /\ p \notin s \ {Max(s)}
        BY <3>2
      <4>3. it2[s \ {Max(s)}] = it[s \ {Max(s)}]
        BY <2>3, <4>2
      <4>4. it[s] = IF s = {} THEN base ELSE list_remove(it[s \ {Max(s)}], es[Max(s)])
        BY <2>1, <4>1
      <4> QED
        BY <4>1, <4>3, <4>4
    <3> QED
      BY <3>1, <3>2
  <2>5. F(p, it2)
    BY <2>3, <2>4
  <2> QED
    BY <2>2, <2>5
<1>5. PICK it : it = (CHOOSE x : F(n, x)) /\ F(n, it)
  <2> HIDE DEF F
  <2>1. \A m \in 0 .. n : m \in G
    <3> HIDE DEF G
    <3> QED
      BY <1>0, <1>3, <1>4, UpTo
  <2>2. n \in G
    BY <1>0, <2>1
  <2> QED
    BY <2>2
<1> DEFINE after == [i \in 0 .. n |-> it[1 .. i]]
<1>6. after[0] = base /\ after[n] = it[1 .. n]
  <2>1. 1 .. 0 = {} /\ {} \in SUBSET (1 .. n)
    OBVIOUS
  <2>2. it[{}] = base
    BY <1>5, <2>1
  <2> QED
    BY <1>0, <2>1, <2>2
<1>7. ASSUME NEW i \in 1 .. n PROVE after[i] = list_remove(after[i - 1], es[i])
  <2>1. /\ 1 .. i \in SUBSET (1 .. n) /\ 1 .. i # {} /\ i \in 1 .. i /\ (1 .. i) \ {i} = 1 .. (i - 1)
        /\ i \in 0 .. n /\ i - 1 \in 0 .. n
    <3>1. i \in 1 .. i /\ i \in 0 .. n /\ i - 1 \in 0 .. n /\ 1 .. i \in SUBSET (1 .. n)
      BY <1>0
    <3>2. \A j : j \in (1 .. i) \ {i} <=> j \in 1 .. (i - 1)
      BY <1>0
    <3>3. (1 .. i) \ {i} = 1 .. (i - 1)
      BY <3>2
    <3> QED
      BY <3>1, <3>3
  <2>2. Max(1 .. i) = i
    <3>1. Max(1 .. i) \in 1 .. i /\ \A j \in 1 .. i : j <= Max(1 .. i)
      BY <1>0, <1>2, <2>1
    <3>2. i <= Max(1 .. i) /\ Max(1 .. i) <= i /\ Max(1 .. i) \in Int
      BY <2>1, <3>1
    <3> QED
      BY <3>2
  <2>3. it[1 .. i] = list_remove(it[(1 .. i) \ {Max(1 .. i)}], es[Max(1 .. i)])
    BY <1>5, <2>1
  <2> QED
    BY <2>1, <2>2, <2>3
<1> QED
  BY <1>0, <1>1, <1>5, <1>6, <1>7

-----------------------------------------------------------------------------

LEMMA FoldReaches ==
  ASSUME NEW S, NEW es \in Seq(S), NEW base, NEW Good, base \in Good[0],
         \A i \in 1 .. Len(es) : \A x \in Good[i - 1] : list_remove(x, es[i]) \in Good[i]
  PROVE  FoldLeft(list_remove, base, es) \in Good[Len(es)]
<1>1. PICK after : /\ after[0] = base
                   /\ \A i \in 1 .. Len(es) : after[i] = list_remove(after[i - 1], es[i])
                   /\ FoldLeft(list_remove, base, es) = after[Len(es)]
  BY FoldIs
<1>2. PICK n \in Nat : n = Len(es)
  OBVIOUS
<1> DEFINE G == {i \in 0 .. n : after[i] \in Good[i]}
<1>3. 0 \in G
  BY <1>1, <1>2
<1>4. ASSUME NEW i \in 0 .. n, i + 1 \in 0 .. n, i \in G PROVE i + 1 \in G
  <2>1. i + 1 \in 1 .. n /\ (i + 1) - 1 = i
    BY <1>2, <1>4
  <2> QED
    BY <1>1, <1>2, <1>4, <2>1
<1>5. \A i \in 0 .. n : i \in G
  <2> HIDE DEF G
  <2> QED
    BY <1>2, <1>3, <1>4, UpTo
<1>6. n \in G
  BY <1>2, <1>5
<1> QED
  BY <1>1, <1>2, <1>6

-----------------------------------------------------------------------------

\* Lists as sequences.

Elems == Threads \cup Locks

Links == [next : [Nodes -> Nodes \cup {None}], prev : [Nodes -> Nodes \cup {None}]]

\* The i-th node of a list q that holds xs; its sentinels are the first and last.
Stand(q, xs, i) ==
  IF i = 0 THEN list_head(q) ELSE IF i = Len(xs) + 1 THEN list_tail(q) ELSE xs[i]

\* The list q holds xs.
Chained(ls, q, xs) ==
  /\ Distinct(xs)
  /\ \A i \in 0 .. Len(xs) : /\ ls.next[Stand(q, xs, i)] = Stand(q, xs, i + 1)
                             /\ ls.prev[Stand(q, xs, i + 1)] = Stand(q, xs, i)

LEMMA Sentinels ==
  /\ \A q \in Lists : /\ list_head(q) \in Nodes /\ list_tail(q) \in Nodes
                      /\ list_head(q) \notin Elems /\ list_tail(q) \notin Elems
  /\ \A q, r : list_head(q) # list_tail(r)
  /\ \A q, r : q # r => list_head(q) # list_head(r) /\ list_tail(q) # list_tail(r)
  /\ Elems \subseteq Nodes /\ None \notin Nodes
<1>1. \A q \in Lists : list_head(q) \in Heads /\ list_tail(q) \in Tails
  BY DEF Heads, Tails
<1>2. /\ \A q, r : list_head(q) # list_tail(r)
      /\ \A q, r : q # r => list_head(q) # list_head(r) /\ list_tail(q) # list_tail(r)
  BY DEF list_head, list_tail
<1> QED
  BY <1>1, <1>2, NodesApart DEF Nodes, Elems

LEMMA StandIs ==
  ASSUME NEW q \in Lists, NEW xs \in Seq(Elems)
  PROVE  /\ Len(xs) \in Nat /\ DOMAIN xs = 1 .. Len(xs)
         /\ Stand(q, xs, 0) = list_head(q) /\ Stand(q, xs, Len(xs) + 1) = list_tail(q)
         /\ \A i \in 1 .. Len(xs) : Stand(q, xs, i) = xs[i] /\ xs[i] \in Elems
         /\ \A i \in 0 .. Len(xs) + 1 : Stand(q, xs, i) \in Nodes
         /\ Distinct(xs) =>
              \A i, j \in 0 .. Len(xs) + 1 : Stand(q, xs, i) = Stand(q, xs, j) => i = j
<1>1. Len(xs) \in Nat /\ DOMAIN xs = 1 .. Len(xs) /\ \A i \in 1 .. Len(xs) : xs[i] \in Elems
  OBVIOUS
<1>2. Stand(q, xs, 0) = list_head(q) /\ Stand(q, xs, Len(xs) + 1) = list_tail(q)
  BY <1>1 DEF Stand
<1>3. \A i \in 1 .. Len(xs) : Stand(q, xs, i) = xs[i]
  BY <1>1 DEF Stand
<1>4. \A i \in 0 .. Len(xs) + 1 : i = 0 \/ i = Len(xs) + 1 \/ i \in 1 .. Len(xs)
  BY <1>1
<1>5. \A i \in 0 .. Len(xs) + 1 : Stand(q, xs, i) \in Nodes
  BY <1>1, <1>2, <1>3, <1>4, Sentinels
<1>6. ASSUME Distinct(xs), NEW i \in 0 .. Len(xs) + 1, NEW j \in 0 .. Len(xs) + 1,
             Stand(q, xs, i) = Stand(q, xs, j)
      PROVE  i = j
  BY <1>1, <1>2, <1>3, <1>4, <1>6, Sentinels DEF Distinct
<1> QED
  BY <1>1, <1>2, <1>3, <1>5, <1>6

\* What Walk is.
LEMMA WalkStep ==
  ASSUME NEW ls, NEW q, NEW n \in Nat
  PROVE  /\ Walk(ls, q, n)[0] = list_head(q)
         /\ \A i \in 1 .. n : Walk(ls, q, n)[i - 1] \in DOMAIN ls.next =>
              Walk(ls, q, n)[i] = ls.next[Walk(ls, q, n)[i - 1]]
<1> DEFINE F(m, node) ==
             node = [i \in 0 .. m |->
                       IF i = 0 THEN list_head(q)
                       ELSE IF node[i - 1] \in DOMAIN ls.next THEN ls.next[node[i - 1]]
                       ELSE node[i - 1]]
           G == {m \in 0 .. n : \E node : F(m, node)}
<1>1. Walk(ls, q, n) = CHOOSE node : F(n, node)
  BY DEF Walk
<1>2. 0 \in G
  <2>1. PICK node : node = [i \in 0 .. 0 |-> list_head(q)]
    OBVIOUS
  <2>2. \A i \in 0 .. 0 : i = 0
    OBVIOUS
  <2>3. F(0, node)
    BY <2>1, <2>2
  <2>4. 0 \in 0 .. n
    OBVIOUS
  <2> HIDE DEF F
  <2> QED
    BY <2>3, <2>4
<1>3. ASSUME NEW m \in 0 .. n, m + 1 \in 0 .. n, m \in G PROVE m + 1 \in G
  <2>1. PICK node : F(m, node)
    BY <1>3
  <2>2. PICK x : x = IF node[m] \in DOMAIN ls.next THEN ls.next[node[m]] ELSE node[m]
    OBVIOUS
  <2>3. PICK node2 : node2 = [i \in 0 .. m + 1 |-> IF i = m + 1 THEN x ELSE node[i]]
    OBVIOUS
  <2>4. \A i \in 0 .. m + 1 : i # m + 1 => i \in 0 .. m /\ (i # 0 => i - 1 \in 0 .. m /\ i - 1 # m + 1 /\ i - 1 \in 0 .. m + 1)
    OBVIOUS
  <2>5. m + 1 # 0 /\ (m + 1) - 1 = m /\ m \in 0 .. m + 1 /\ m # m + 1
    OBVIOUS
  <2>6. ASSUME NEW i \in 0 .. m + 1
        PROVE  node2[i] = IF i = 0 THEN list_head(q)
                          ELSE IF node2[i - 1] \in DOMAIN ls.next THEN ls.next[node2[i - 1]]
                          ELSE node2[i - 1]
    <3>1. CASE i = m + 1
      BY <2>2, <2>3, <2>5, <3>1
    <3>2. CASE i # m + 1
      <4>1. node2[i] = node[i] /\ (i # 0 => node2[i - 1] = node[i - 1])
        BY <2>3, <2>4, <3>2
      <4>2. i \in 0 .. m
        BY <2>4, <3>2
      <4> QED
        BY <2>1, <4>1, <4>2
    <3> QED
      BY <3>1, <3>2
  <2>7. F(m + 1, node2)
    BY <2>3, <2>6
  <2> HIDE DEF F
  <2> QED
    BY <1>3, <2>7
<1>4. PICK node : node = Walk(ls, q, n) /\ F(n, node)
  <2> HIDE DEF F
  <2>1. \A m \in 0 .. n : m \in G
    <3> HIDE DEF G
    <3> QED
      BY <1>2, <1>3, UpTo
  <2>2. n \in G
    BY <2>1
  <2> QED
    BY <1>1, <2>2
<1>5. node[0] = list_head(q)
  BY <1>4
<1>6. ASSUME NEW i \in 1 .. n, node[i - 1] \in DOMAIN ls.next
      PROVE  node[i] = ls.next[node[i - 1]]
  <2>1. i \in 0 .. n /\ i # 0
    OBVIOUS
  <2>2. node[i] = IF i = 0 THEN list_head(q)
                  ELSE IF node[i - 1] \in DOMAIN ls.next THEN ls.next[node[i - 1]]
                  ELSE node[i - 1]
    BY <1>4, <2>1
  <2> QED
    BY <1>6, <2>1, <2>2
<1> QED
  BY <1>4, <1>5, <1>6

LEMMA WalkIs ==
  ASSUME NEW ls \in Links, NEW q \in Lists, NEW xs \in Seq(Elems), Chained(ls, q, xs),
         NEW n \in Nat, n > Len(xs)
  PROVE  \A i \in 0 .. Len(xs) + 1 : Walk(ls, q, n)[i] = Stand(q, xs, i)
<1>1. PICK node, k : node = Walk(ls, q, n) /\ k = Len(xs)
  OBVIOUS
<1>2. k \in Nat /\ k < n /\ Stand(q, xs, 0) = list_head(q) /\ DOMAIN ls.next = Nodes
      /\ \A i \in 0 .. k + 1 : Stand(q, xs, i) \in Nodes
  BY <1>1, StandIs DEF Links
<1> DEFINE G == {i \in 0 .. k + 1 : node[i] = Stand(q, xs, i)}
<1>3. 0 \in G
  BY <1>1, <1>2, WalkStep
<1>4. ASSUME NEW i \in 0 .. k + 1, i + 1 \in 0 .. k + 1, i \in G PROVE i + 1 \in G
  <2>1. i + 1 \in 1 .. n /\ (i + 1) - 1 = i /\ i \in 0 .. k
    BY <1>2, <1>4
  <2>2. node[i] \in DOMAIN ls.next => node[i + 1] = ls.next[node[i]]
    BY <1>1, <2>1, WalkStep
  <2>3. ls.next[Stand(q, xs, i)] = Stand(q, xs, i + 1)
    BY <1>1, <2>1 DEF Chained
  <2> QED
    BY <1>2, <1>4, <2>2, <2>3
<1>5. \A i \in 0 .. k + 1 : i \in G
  <2>1. k + 1 \in Nat
    BY <1>2
  <2> HIDE DEF G
  <2> QED
    BY <1>3, <1>4, <2>1, UpTo
<1> QED
  BY <1>1, <1>5

LEMMA ChainHolds ==
  ASSUME NEW ls \in Links, NEW q \in Lists, NEW xs \in Seq(Elems), Chained(ls, q, xs),
         NEW n \in Nat, Len(xs) <= n, NEW es, \A e : e \in es <=> In(e, xs)
  PROVE  Holds(ls, q, es, n)
<1>1. PICK k : k = Len(xs)
  OBVIOUS
<1>2. k \in 0 .. n /\ k \in Nat /\ k + 1 \in Nat /\ k + 1 > k /\ DOMAIN xs = 1 .. k
  BY <1>1, StandIs
<1>3. PICK node : node = Walk(ls, q, k + 1)
  OBVIOUS
<1>4. \A i \in 0 .. k + 1 : node[i] = Stand(q, xs, i)
  BY <1>1, <1>2, <1>3, WalkIs
<1>5. node[k + 1] = list_tail(q)
  BY <1>1, <1>2, <1>4, StandIs
<1>6. \A i \in 1 .. k : node[i] = xs[i]
  <2>1. \A i \in 1 .. k : i \in 0 .. k + 1
    BY <1>2
  <2> QED
    BY <1>1, <1>4, <2>1, StandIs
<1>7. {node[i] : i \in 1 .. k} = es
  BY <1>2, <1>6 DEF In
<1>8. \A i, j \in 1 .. k : i # j => node[i] # node[j]
  BY <1>2, <1>6 DEF Chained, Distinct
<1>9. \A i \in 0 .. k : ls.prev[node[i + 1]] = node[i]
  <2>1. \A i \in 0 .. k : i \in 0 .. k + 1 /\ i + 1 \in 0 .. k + 1
    BY <1>2
  <2> QED
    BY <1>1, <1>4, <2>1 DEF Chained
<1>10. /\ node[k + 1] = list_tail(q)
       /\ {node[i] : i \in 1 .. k} = es
       /\ \A i, j \in 1 .. k : i # j => node[i] # node[j]
       /\ \A i \in 0 .. k : ls.prev[node[i + 1]] = node[i]
  BY <1>5, <1>7, <1>8, <1>9
<1>11. LET w == Walk(ls, q, k + 1)
       IN /\ w[k + 1] = list_tail(q)
          /\ {w[i] : i \in 1 .. k} = es
          /\ \A i, j \in 1 .. k : i # j => w[i] # w[j]
          /\ \A i \in 0 .. k : ls.prev[w[i + 1]] = w[i]
  BY ONLY <1>3, <1>10
<1> QED
  BY ONLY <1>2, <1>11, Zenon DEF Holds

-----------------------------------------------------------------------------

\* ls2 and ls agree on the pointers of the nodes ns.
SameAt(ls2, ls, ns) == \A n \in ns : ls2.next[n] = ls.next[n] /\ ls2.prev[n] = ls.prev[n]

\* No pointer leads out of ns.
Closed(ls, ns) == \A n \in ns : ls.next[n] \in ns \cup {None} /\ ls.prev[n] \in ns \cup {None}

\* The nodes of a list.
Spot(q, xs) == {list_head(q), list_tail(q)} \cup {n \in Elems : In(n, xs)}

LEMMA SpotIs ==
  ASSUME NEW q \in Lists, NEW xs \in Seq(Elems)
  PROVE  /\ Spot(q, xs) \subseteq Nodes
         /\ \A i \in 0 .. Len(xs) + 1 : Stand(q, xs, i) \in Spot(q, xs)
<1>1. \A i \in 0 .. Len(xs) + 1 : i = 0 \/ i = Len(xs) + 1 \/ i \in 1 .. Len(xs)
  BY StandIs
<1>2. \A i \in 1 .. Len(xs) : xs[i] \in Elems /\ In(xs[i], xs)
  BY StandIs DEF In
<1> QED
  BY <1>1, <1>2, StandIs, Sentinels DEF Spot

LEMMA ChainFrame ==
  ASSUME NEW ls, NEW ls2, NEW q \in Lists, NEW xs \in Seq(Elems), Chained(ls, q, xs),
         SameAt(ls2, ls, Spot(q, xs))
  PROVE  Chained(ls2, q, xs)
<1>1. \A i \in 0 .. Len(xs) : i \in 0 .. Len(xs) + 1 /\ i + 1 \in 0 .. Len(xs) + 1
  BY StandIs
<1> QED
  BY <1>1, SpotIs DEF Chained, SameAt

LEMMA EmptyChain ==
  ASSUME NEW ls, NEW q, ls.next[list_head(q)] = list_tail(q), ls.prev[list_tail(q)] = list_head(q)
  PROVE  /\ <<>> \in Seq(Elems) /\ Chained(ls, q, <<>>) /\ \A e : ~In(e, <<>>)
<1>1. Len(<<>>) = 0 /\ DOMAIN <<>> = {} /\ \A i \in 0 .. 0 : i = 0 /\ i + 1 = 1
  OBVIOUS
<1>2. Stand(q, <<>>, 0) = list_head(q) /\ Stand(q, <<>>, 1) = list_tail(q)
  BY <1>1 DEF Stand
<1> QED
  BY <1>1, <1>2 DEF Chained, Distinct, In

LEMMA RemoveIs ==
  ASSUME NEW ls \in Links, NEW e \in Nodes
  PROVE  /\ list_remove(ls, e) \in Links
         /\ \A n \in Nodes :
              /\ list_remove(ls, e).next[n] = IF n = ls.prev[e] THEN ls.next[e] ELSE ls.next[n]
              /\ list_remove(ls, e).prev[n] = IF n = ls.next[e] THEN ls.prev[e] ELSE ls.prev[n]
BY DEF list_remove, Links

LEMMA PointIs ==
  ASSUME NEW ls \in Links, NEW q \in Lists, NEW e \in Nodes
  PROVE  /\ PointElem(ls, q, e) \in Links
         /\ \A n \in Nodes :
              /\ PointElem(ls, q, e).next[n] = IF n = e THEN list_tail(q) ELSE ls.next[n]
              /\ PointElem(ls, q, e).prev[n] = IF n = e THEN ls.prev[list_tail(q)] ELSE ls.prev[n]
BY Sentinels DEF PointElem, Links

LEMMA LinkIs ==
  ASSUME NEW ls \in Links, NEW q \in Lists, NEW e \in Nodes
  PROVE  /\ LinkElem(ls, q, e) \in Links
         /\ \A n \in Nodes :
              /\ LinkElem(ls, q, e).next[n] = IF n = ls.prev[list_tail(q)] THEN e ELSE ls.next[n]
              /\ LinkElem(ls, q, e).prev[n] = ls.prev[n]
BY DEF LinkElem, Links

LEMMA CloseIs ==
  ASSUME NEW ls \in Links, NEW q \in Lists, NEW e \in Nodes
  PROVE  /\ CloseElem(ls, q, e) \in Links
         /\ \A n \in Nodes :
              /\ CloseElem(ls, q, e).next[n] = ls.next[n]
              /\ CloseElem(ls, q, e).prev[n] = IF n = list_tail(q) THEN e ELSE ls.prev[n]
BY DEF CloseElem, Links

LEMMA PushIs ==
  ASSUME NEW ls \in Links, NEW q \in Lists, NEW e \in Elems
  PROVE  /\ list_push_back(ls, q, e) \in Links
         /\ \A n \in Nodes :
              /\ list_push_back(ls, q, e).next[n] =
                   IF n = ls.prev[list_tail(q)] THEN e
                   ELSE IF n = e THEN list_tail(q) ELSE ls.next[n]
              /\ list_push_back(ls, q, e).prev[n] =
                   IF n = list_tail(q) THEN e
                   ELSE IF n = e THEN ls.prev[list_tail(q)] ELSE ls.prev[n]
<1>1. e \in Nodes /\ list_tail(q) \in Nodes /\ list_tail(q) # e
  BY Sentinels
<1>2. PICK a \in Links : a = PointElem(ls, q, e)
  BY <1>1, PointIs
<1>3. PICK b \in Links : b = LinkElem(a, q, e)
  BY <1>1, <1>2, LinkIs
<1>4. PICK c \in Links : c = CloseElem(b, q, e)
  BY <1>1, <1>3, CloseIs
<1>5. a.prev[list_tail(q)] = ls.prev[list_tail(q)]
  BY <1>1, <1>2, PointIs
<1>6. \A n \in Nodes : /\ b.next[n] = IF n = ls.prev[list_tail(q)] THEN e ELSE a.next[n]
                       /\ b.prev[n] = a.prev[n]
  BY <1>1, <1>3, <1>5, LinkIs
<1>7. \A n \in Nodes : c.next[n] = b.next[n] /\ c.prev[n] = IF n = list_tail(q) THEN e ELSE b.prev[n]
  BY <1>1, <1>4, CloseIs
<1>8. \A n \in Nodes : /\ a.next[n] = IF n = e THEN list_tail(q) ELSE ls.next[n]
                       /\ a.prev[n] = IF n = e THEN ls.prev[list_tail(q)] ELSE ls.prev[n]
  BY <1>1, <1>2, PointIs
<1>9. c = list_push_back(ls, q, e)
  BY <1>2, <1>3, <1>4 DEF list_push_back
<1> QED
  BY <1>6, <1>7, <1>8, <1>9

\* What a list operation leaves alone.
LEMMA RemoveClosed ==
  ASSUME NEW ls \in Links, NEW ns \in SUBSET Nodes, Closed(ls, ns), NEW e \in ns
  PROVE  /\ Closed(list_remove(ls, e), ns)
         /\ SameAt(list_remove(ls, e), ls, Nodes \ ns)
<1>1. ls.next[e] \in ns \cup {None} /\ ls.prev[e] \in ns \cup {None}
  BY DEF Closed
<1>2. \A n \in ns : ls.next[n] \in ns \cup {None} /\ ls.prev[n] \in ns \cup {None}
  BY DEF Closed
<1>3. None \notin Nodes /\ e \in Nodes
  BY Sentinels
<1>4. PICK r : r = list_remove(ls, e)
  OBVIOUS
<1>5. \A n \in Nodes : /\ r.next[n] = IF n = ls.prev[e] THEN ls.next[e] ELSE ls.next[n]
                       /\ r.prev[n] = IF n = ls.next[e] THEN ls.prev[e] ELSE ls.prev[n]
  BY <1>3, <1>4, RemoveIs
<1>6. Closed(r, ns)
  BY <1>1, <1>2, <1>5 DEF Closed
<1>7. SameAt(r, ls, Nodes \ ns)
  BY <1>1, <1>3, <1>5 DEF SameAt
<1> QED
  BY <1>4, <1>6, <1>7

LEMMA PushClosed ==
  ASSUME NEW ls \in Links, NEW ns \in SUBSET Nodes, Closed(ls, ns), NEW e \in ns \cap Elems,
         NEW q \in Lists, list_tail(q) \in ns
  PROVE  /\ Closed(list_push_back(ls, q, e), ns)
         /\ SameAt(list_push_back(ls, q, e), ls, Nodes \ ns)
<1>1. \A n \in ns : ls.next[n] \in ns \cup {None} /\ ls.prev[n] \in ns \cup {None}
  BY DEF Closed
<1>3. None \notin Nodes
  BY Sentinels
<1> QED
  BY <1>1, <1>3, PushIs DEF Closed, SameAt

LEMMA LinkClosed ==
  ASSUME NEW ls \in Links, NEW ns \in SUBSET Nodes, Closed(ls, ns), NEW e \in ns,
         NEW q \in Lists, list_tail(q) \in ns
  PROVE  /\ Closed(LinkElem(ls, q, e), ns) /\ SameAt(LinkElem(ls, q, e), ls, Nodes \ ns)
         /\ Closed(CloseElem(ls, q, e), ns) /\ SameAt(CloseElem(ls, q, e), ls, Nodes \ ns)
<1>1. \A n \in ns : ls.next[n] \in ns \cup {None} /\ ls.prev[n] \in ns \cup {None}
  BY DEF Closed
<1>3. None \notin Nodes
  BY Sentinels
<1>4. PICK a, b : a = LinkElem(ls, q, e) /\ b = CloseElem(ls, q, e)
  OBVIOUS
<1>5. e \in Nodes
  OBVIOUS
<1>6. \A n \in Nodes : /\ a.next[n] = IF n = ls.prev[list_tail(q)] THEN e ELSE ls.next[n]
                       /\ a.prev[n] = ls.prev[n]
  BY <1>4, <1>5, LinkIs
<1>7. \A n \in Nodes : /\ b.next[n] = ls.next[n]
                       /\ b.prev[n] = IF n = list_tail(q) THEN e ELSE ls.prev[n]
  BY <1>4, <1>5, CloseIs
<1>8. Closed(a, ns) /\ SameAt(a, ls, Nodes \ ns)
  BY <1>1, <1>3, <1>6 DEF Closed, SameAt
<1>9. Closed(b, ns) /\ SameAt(b, ls, Nodes \ ns)
  BY <1>1, <1>3, <1>7 DEF Closed, SameAt
<1> QED
  BY <1>4, <1>8, <1>9

\* list_push_back of an element that the list does not hold.
LEMMA ChainPush ==
  ASSUME NEW ls \in Links, NEW q \in Lists, NEW xs \in Seq(Elems), Chained(ls, q, xs),
         NEW e \in Elems, ~In(e, xs)
  PROVE  /\ Append(xs, e) \in Seq(Elems) /\ Chained(list_push_back(ls, q, e), q, Append(xs, e))
         /\ \A x : In(x, Append(xs, e)) <=> In(x, xs) \/ x = e
         /\ SameAt(list_push_back(ls, q, e), ls, Nodes \ (Spot(q, xs) \cup {e}))
<1>1. PICK ys, k, r : ys = Append(xs, e) /\ k = Len(xs) /\ r = list_push_back(ls, q, e)
  OBVIOUS
<1>2. /\ ys \in Seq(Elems) /\ Len(ys) = k + 1 /\ k \in Nat /\ DOMAIN xs = 1 .. k /\ DOMAIN ys = 1 .. k + 1
      /\ ys[k + 1] = e /\ \A i \in 1 .. k : ys[i] = xs[i]
  BY <1>1
<1>3. \A x : In(x, ys) <=> In(x, xs) \/ x = e
  <2>1. \A i \in 1 .. k + 1 : i \in 1 .. k \/ i = k + 1
    BY <1>2
  <2>2. k + 1 \in 1 .. k + 1 /\ \A i \in 1 .. k : i \in 1 .. k + 1
    BY <1>2
  <2> QED
    BY <1>2, <2>1, <2>2 DEF In
<1>4. Distinct(ys)
  <2>1. Distinct(xs)
    BY DEF Chained
  <2>2. \A i \in 1 .. k + 1 : i \in 1 .. k \/ i = k + 1
    BY <1>2
  <2> QED
    BY <1>2, <2>1, <2>2 DEF Distinct, In
<1>5. /\ \A i \in 0 .. k : Stand(q, ys, i) = Stand(q, xs, i)
      /\ Stand(q, ys, k + 1) = e /\ Stand(q, ys, k + 2) = list_tail(q)
  BY <1>1, <1>2 DEF Stand
<1>6. PICK last : last = Stand(q, xs, k)
  OBVIOUS
<1>7. Stand(q, xs, k + 1) = list_tail(q) /\ ls.prev[list_tail(q)] = last
  <2>1. k \in 0 .. Len(xs)
    BY <1>1, <1>2
  <2> QED
    BY <1>1, <1>6, <2>1, StandIs DEF Chained
<1>8. /\ r \in Links
      /\ \A n \in Nodes :
           /\ r.next[n] = IF n = last THEN e ELSE IF n = e THEN list_tail(q) ELSE ls.next[n]
           /\ r.prev[n] = IF n = list_tail(q) THEN e ELSE IF n = e THEN last ELSE ls.prev[n]
  BY <1>1, <1>7, PushIs
<1>9. \A i \in 0 .. k + 1 : Stand(q, xs, i) \in Nodes /\ Stand(q, xs, i) # e
  <2>1. \A i \in 0 .. k + 1 : i = 0 \/ i = k + 1 \/ i \in 1 .. k
    BY <1>2
  <2> QED
    BY <1>1, <1>2, <2>1, StandIs, Sentinels DEF In
<1>10. \A i, j \in 0 .. k + 1 : Stand(q, xs, i) = Stand(q, xs, j) => i = j
  BY <1>1, StandIs DEF Chained
<1>11. e \in Nodes /\ list_tail(q) \in Nodes /\ list_tail(q) # e
  BY Sentinels
<1>12. ASSUME NEW i \in 0 .. k + 1
       PROVE  /\ r.next[Stand(q, ys, i)] = Stand(q, ys, i + 1)
              /\ r.prev[Stand(q, ys, i + 1)] = Stand(q, ys, i)
  <2>1. CASE i = k + 1
    <3>1. (k + 1) + 1 = k + 2 /\ k \in 0 .. k
      BY <1>2
    <3>2. e # last /\ last \in Nodes
      BY <1>2, <1>6, <1>9
    <3> QED
      BY <1>5, <1>8, <1>11, <2>1, <3>1, <3>2
  <2>2. CASE i = k
    <3>1. k \in 0 .. k /\ k \in 0 .. k + 1
      BY <1>2
    <3> QED
      BY <1>5, <1>6, <1>8, <1>9, <1>11, <2>2, <3>1
  <2>3. CASE i \in 0 .. k - 1
    <3>1. i \in 0 .. k /\ i + 1 \in 0 .. k /\ i \in 0 .. k + 1 /\ i + 1 \in 0 .. k + 1 /\ i # k /\ k \in 0 .. k + 1
          /\ i + 1 # k + 1 /\ k + 1 \in 0 .. k + 1
      BY <1>2, <2>3
    <3>2. ls.next[Stand(q, xs, i)] = Stand(q, xs, i + 1) /\ ls.prev[Stand(q, xs, i + 1)] = Stand(q, xs, i)
      BY <1>1, <3>1 DEF Chained
    <3>3. Stand(q, xs, i) # last /\ Stand(q, xs, i + 1) # list_tail(q)
      BY <1>6, <1>7, <1>10, <3>1
    <3> QED
      BY <1>5, <1>8, <1>9, <3>1, <3>2, <3>3
  <2> QED
    BY <1>2, <2>1, <2>2, <2>3
<1>13. Chained(r, q, ys)
  BY <1>2, <1>4, <1>12 DEF Chained
<1>14. SameAt(r, ls, Nodes \ (Spot(q, xs) \cup {e}))
  <2>1. k \in 0 .. Len(xs) + 1
    BY <1>1, <1>2
  <2>2. last \in Spot(q, xs) /\ list_tail(q) \in Spot(q, xs)
    BY <1>1, <1>6, <2>1, SpotIs DEF Spot
  <2> QED
    BY <1>8, <2>2 DEF SameAt
<1> QED
  BY <1>1, <1>2, <1>3, <1>13, <1>14

\* list_remove of an element that the list holds.
LEMMA ChainRemove ==
  ASSUME NEW ls \in Links, NEW q \in Lists, NEW xs \in Seq(Elems), Chained(ls, q, xs),
         NEW e, In(e, xs)
  PROVE  /\ \E ys \in Seq(Elems) : /\ Chained(list_remove(ls, e), q, ys)
                                   /\ \A x : In(x, ys) <=> In(x, xs) /\ x # e
                                   /\ e = Head(xs) => /\ Len(ys) = Len(xs) - 1
                                                      /\ \A i \in 1 .. Len(ys) : ys[i] = xs[i + 1]
         /\ SameAt(list_remove(ls, e), ls, Nodes \ Spot(q, xs))
<1>1. PICK n, k : n = Len(xs) /\ k \in DOMAIN xs /\ xs[k] = e
  BY DEF In
<1>2. n \in Nat /\ DOMAIN xs = 1 .. n /\ k \in 1 .. n /\ \A i \in 1 .. n : xs[i] \in Elems
  BY <1>1
<1>3. PICK ys, r : ys = [i \in 1 .. n - 1 |-> IF i < k THEN xs[i] ELSE xs[i + 1]] /\ r = list_remove(ls, e)
  OBVIOUS
<1>4. ys \in Seq(Elems) /\ Len(ys) = n - 1 /\ DOMAIN ys = 1 .. n - 1
      /\ \A i \in 1 .. n - 1 : ys[i] = IF i < k THEN xs[i] ELSE xs[i + 1]
  <2>1. \A i \in 1 .. n - 1 : i \in 1 .. n /\ i + 1 \in 1 .. n
    BY <1>2
  <2>2. \A i \in 1 .. n - 1 : ys[i] \in Elems
    BY <1>2, <1>3, <2>1
  <2>3. n - 1 \in Nat
    BY <1>2
  <2> QED
    BY <1>3, <2>2, <2>3
<1>5. Distinct(xs)
  BY DEF Chained
<1>6. Distinct(ys)
  <2> SUFFICES ASSUME NEW i \in 1 .. n - 1, NEW j \in 1 .. n - 1, ys[i] = ys[j] PROVE i = j
    BY <1>4 DEF Distinct
  <2>1. PICK a, b : a = (IF i < k THEN i ELSE i + 1) /\ b = IF j < k THEN j ELSE j + 1
    OBVIOUS
  <2>2. a \in 1 .. n /\ b \in 1 .. n /\ xs[a] = xs[b] /\ (a = b => i = j)
    BY <1>2, <1>4, <2>1
  <2> QED
    BY <1>2, <1>5, <2>2 DEF Distinct
<1>7. ASSUME NEW x PROVE In(x, ys) <=> In(x, xs) /\ x # e
  <2>1. ASSUME NEW i \in 1 .. n - 1, ys[i] = x PROVE In(x, xs) /\ x # e
    <3>1. PICK a : a = IF i < k THEN i ELSE i + 1
      OBVIOUS
    <3>2. a \in 1 .. n /\ xs[a] = x /\ a # k
      BY <1>2, <1>4, <2>1, <3>1
    <3> QED
      BY <1>1, <1>2, <1>5, <3>2 DEF In, Distinct
  <2>2. ASSUME NEW a \in 1 .. n, xs[a] = x, x # e PROVE In(x, ys)
    <3>1. PICK i : i = IF a < k THEN a ELSE a - 1
      OBVIOUS
    <3>2. i \in 1 .. n - 1 /\ ys[i] = x
      <4>1. a # k
        BY <1>1, <2>2
      <4>2. CASE a < k
        BY <1>2, <1>4, <2>2, <3>1, <4>2
      <4>3. CASE a > k
        <5>1. i = a - 1 /\ i \in 1 .. n - 1 /\ ~(i < k) /\ i + 1 = a
          BY <1>2, <3>1, <4>3
        <5> QED
          BY <1>4, <2>2, <5>1
      <4> QED
        BY <1>2, <4>1, <4>2, <4>3
    <3> QED
      BY <1>4, <3>2 DEF In
  <2> QED
    BY <1>2, <1>4, <2>1, <2>2 DEF In
<1>8. ASSUME NEW i \in 0 .. n PROVE Stand(q, ys, i) = IF i < k THEN Stand(q, xs, i) ELSE Stand(q, xs, i + 1)
  <2>1. CASE i = 0
    BY <1>2, <2>1 DEF Stand
  <2>2. CASE i = n
    BY <1>1, <1>2, <1>4, <2>2 DEF Stand
  <2>3. CASE i \in 1 .. n - 1
    <3>1. i # 0 /\ i # Len(ys) + 1 /\ i # Len(xs) + 1 /\ i + 1 # 0 /\ i + 1 # Len(xs) + 1
      BY <1>1, <1>2, <1>4, <2>3
    <3> QED
      BY <1>4, <2>3, <3>1 DEF Stand
  <2> QED
    BY <1>2, <2>1, <2>2, <2>3
<1>9. Stand(q, xs, k) = e /\ e \in Elems /\ e \in Nodes
  BY <1>1, <1>2, StandIs, Sentinels
<1>10. PICK a, b : a = Stand(q, xs, k - 1) /\ b = Stand(q, xs, k + 1)
  OBVIOUS
<1>11. ls.prev[e] = a /\ ls.next[e] = b
  <2>1. k - 1 \in 0 .. Len(xs) /\ k \in 0 .. Len(xs) /\ (k - 1) + 1 = k
    BY <1>1, <1>2
  <2> QED
    BY <1>9, <1>10, <2>1 DEF Chained
<1>12. /\ r \in Links
       /\ \A m \in Nodes : /\ r.next[m] = IF m = a THEN b ELSE ls.next[m]
                           /\ r.prev[m] = IF m = b THEN a ELSE ls.prev[m]
  BY <1>3, <1>9, <1>11, RemoveIs
<1>13. /\ \A i \in 0 .. n + 1 : Stand(q, xs, i) \in Nodes
       /\ \A i, j \in 0 .. n + 1 : Stand(q, xs, i) = Stand(q, xs, j) => i = j
  BY <1>1, <1>5, StandIs
<1>14. ASSUME NEW i \in 0 .. n - 1
       PROVE  /\ r.next[Stand(q, ys, i)] = Stand(q, ys, i + 1)
              /\ r.prev[Stand(q, ys, i + 1)] = Stand(q, ys, i)
  <2>0. i \in 0 .. n /\ i + 1 \in 0 .. n /\ k - 1 \in 0 .. n + 1 /\ k + 1 \in 0 .. n + 1
    BY <1>2
  <2>1. CASE i = k - 1
    <3>1. i < k /\ ~(i + 1 < k) /\ i + 1 + 1 = k + 1
      BY <1>2, <2>1
    <3>2. Stand(q, ys, i) = a /\ Stand(q, ys, i + 1) = b
      BY <1>8, <1>10, <2>0, <2>1, <3>1
    <3> QED
      BY <1>10, <1>12, <1>13, <2>0, <3>2
  <2>2. CASE i < k - 1
    <3>1. i < k /\ i + 1 < k /\ i # k - 1 /\ i + 1 # k + 1 /\ i \in 0 .. n + 1 /\ i + 1 \in 0 .. n + 1
          /\ i \in 0 .. Len(xs)
      BY <1>1, <1>2, <2>2
    <3>2. Stand(q, ys, i) = Stand(q, xs, i) /\ Stand(q, ys, i + 1) = Stand(q, xs, i + 1)
      BY <1>8, <2>0, <3>1
    <3>3. Stand(q, xs, i) # a /\ Stand(q, xs, i + 1) # b
      BY <1>10, <1>13, <2>0, <3>1
    <3>4. ls.next[Stand(q, xs, i)] = Stand(q, xs, i + 1) /\ ls.prev[Stand(q, xs, i + 1)] = Stand(q, xs, i)
      BY <3>1 DEF Chained
    <3> QED
      BY <1>12, <1>13, <3>1, <3>2, <3>3, <3>4
  <2>3. CASE i > k - 1
    <3>1. PICK j : j = i + 1
      OBVIOUS
    <3>2. /\ ~(i < k) /\ ~(i + 1 < k) /\ j # k - 1 /\ j + 1 # k + 1 /\ j \in 0 .. n + 1 /\ j + 1 \in 0 .. n + 1
          /\ j \in 0 .. Len(xs)
      BY <1>1, <1>2, <2>3, <3>1
    <3>3. Stand(q, ys, i) = Stand(q, xs, j) /\ Stand(q, ys, i + 1) = Stand(q, xs, j + 1)
      BY <1>8, <2>0, <3>1, <3>2
    <3>4. Stand(q, xs, j) # a /\ Stand(q, xs, j + 1) # b
      BY <1>10, <1>13, <2>0, <3>2
    <3>5. ls.next[Stand(q, xs, j)] = Stand(q, xs, j + 1) /\ ls.prev[Stand(q, xs, j + 1)] = Stand(q, xs, j)
      BY <3>2 DEF Chained
    <3> QED
      BY <1>12, <1>13, <3>2, <3>3, <3>4, <3>5
  <2> QED
    BY <1>2, <2>1, <2>2, <2>3
<1>15. Chained(r, q, ys)
  BY <1>4, <1>6, <1>14 DEF Chained
<1>16. SameAt(r, ls, Nodes \ Spot(q, xs))
  <2>1. k - 1 \in 0 .. Len(xs) + 1 /\ k + 1 \in 0 .. Len(xs) + 1
    BY <1>1, <1>2
  <2>2. a \in Spot(q, xs) /\ b \in Spot(q, xs)
    BY <1>10, <2>1, SpotIs
  <2> QED
    BY <1>12, <2>2 DEF SameAt
<1>17. ASSUME e = Head(xs) PROVE Len(ys) = Len(xs) - 1 /\ \A i \in 1 .. Len(ys) : ys[i] = xs[i + 1]
  <2>1. k = 1
    <3>1. 1 \in DOMAIN xs /\ xs[1] = Head(xs)
      BY <1>2
    <3> QED
      BY <1>1, <1>5, <1>17, <3>1 DEF Distinct
  <2> QED
    BY <1>1, <1>4, <2>1
<1> QED
  BY <1>3, <1>4, <1>7, <1>15, <1>16, <1>17

-----------------------------------------------------------------------------

\* The nodes of all_list, and those of the lock_lists.
AllNodes == {list_head("all"), list_tail("all")} \cup Threads
LockNodes == Nodes \ AllNodes

PtrOK == links \in Links /\ Closed(links, AllNodes) /\ Closed(links, LockNodes)

\* Pages that thread_create is making threads of.
Coming(td) == {u \in Threads : \E v \in Threads, i \in Nat : Creates(td, v, i, u)}

\* While no lock is misfiled, a lock_list holds the locks of its thread, and a
\* holder lives and has left thread_create.
LockListsOK == "misfiled" \notin faults =>
  /\ \A t \in Alive : \E xs \in Seq(Elems) :
       Chained(links, t, xs) /\ \A e \in Elems : In(e, xs) <=> e \in Locks /\ holder[e] = t
  /\ \A l \in Locks : holder[l] \in (Alive \ Coming(todo)) \cup {None}

\* The pointers once the list_push_back on all_list that has begun has ended.
EndsAs(ls) ==
  \/ Pushing = {} /\ ls = links
  \/ \E t, u \in Threads :
       Next1(t, <<"link", u>>) /\ ls = CloseElem(LinkElem(links, "all", u), "all", u)
  \/ \E t, u \in Threads : Next1(t, <<"close", u>>) /\ ls = CloseElem(links, "all", u)

\* all_list holds the living threads once the push on it has ended.
AllOK == faults \cap {"overlap", "no_process"} = {} =>
  /\ \A t, u \in Pushing : t = u
  /\ \A ls \in Links : EndsAs(ls) =>
       \E xs \in Seq(Elems) : Chained(ls, "all", xs) /\ \A e \in Elems : In(e, xs) <=> e \in Alive

\* The steps q of thread t end a push that they begin, and release at most one
\* lock, that t holds or acquires before; hd are the holders.
StepsOK(q, t, hd) ==
  /\ \A i \in DOMAIN q, u \in AllSemas \cup Conds :
       /\ q[i] = <<"link", u>> => i = 1 /\ 2 \in DOMAIN q /\ q[2] = <<"close", u>>
       /\ q[i] = <<"close", u>> => i = 1 \/ (i = 2 /\ q[1] = <<"link", u>>)
  /\ \A i \in DOMAIN q, l \in Locks : q[i] = <<"disown", l>> =>
       /\ hd[l] = t \/ \E j \in DOMAIN q : j < i /\ q[j] = <<"own", l>>
       /\ \A j \in DOMAIN q, m \in Locks : q[j] = <<"disown", m>> => j = i

TodoShape == \A t \in Threads : StepsOK(todo[t], t, holder)

TidOK == /\ faults \subseteq {"misfiled", "overlap", "no_process"}
         /\ tid \in [Threads -> Nat] /\ next_tid \in Nat

ListInv == PtrOK /\ LockListsOK /\ AllOK /\ TodoShape /\ TidOK /\ NoAssertFails

-----------------------------------------------------------------------------

IsPush(q) == q # <<>> /\ \E u \in AllSemas \cup Conds : Head(q) \in {<<"link", u>>, <<"close", u>>}

LEMMA PushingIs ==
  ASSUME NEW td \in [Threads -> Seq(Op)]
  PROVE  {t \in Threads : td[t] # <<>> /\ Head(td[t])[1] \in {"link", "close"}}
           = {t \in Threads : IsPush(td[t])}
<1>1. ASSUME NEW op \in Op
      PROVE  op[1] \in {"link", "close"} <=> \E u \in AllSemas \cup Conds : op \in {<<"link", u>>, <<"close", u>>}
  <2>1. CASE op \in {<<"start">>, <<"idle">>}
    <3>1. op[1] \in {"start", "idle"} /\ Len(op) = 1
      BY <2>1
    <3>2. \A u : Len(<<"link", u>>) = 2 /\ Len(<<"close", u>>) = 2
      OBVIOUS
    <3> QED
      BY <3>1, <3>2
  <2>2. CASE op \notin {<<"start">>, <<"idle">>}
    <3>1. PICK a, b : op = <<a, b>> /\ b \in AllSemas \cup Conds
      BY <2>2 DEF Op
    <3> QED
      BY <3>1
  <2> QED
    BY <2>1, <2>2
<1>2. ASSUME NEW t \in Threads, td[t] # <<>> PROVE Head(td[t]) \in Op
  BY <1>2
<1> QED
  BY <1>1, <1>2 DEF IsPush

LEMMA TailSteps ==
  ASSUME NEW q \in Seq(Op), q # <<>>, NEW t, NEW hd, StepsOK(q, t, hd), NEW hd2,
         \A l \in Locks : hd[l] = t /\ Head(q) # <<"disown", l>> => hd2[l] = t,
         \A l \in Locks : Head(q) = <<"own", l>> => hd2[l] = t
  PROVE  /\ Tail(q) \in Seq(Op) /\ StepsOK(Tail(q), t, hd2)
         /\ \A u \in AllSemas \cup Conds :
              Head(q) = <<"link", u>> => Tail(q) # <<>> /\ Head(Tail(q)) = <<"close", u>>
         /\ ~(\E u \in AllSemas \cup Conds : Head(q) = <<"link", u>>) => ~IsPush(Tail(q))
<1> DEFINE r == Tail(q)
<1>0. /\ r \in Seq(Op) /\ Len(q) \in Nat /\ Len(q) >= 1
      /\ DOMAIN r = 1 .. Len(q) - 1 /\ DOMAIN q = 1 .. Len(q)
      /\ \A i \in 1 .. Len(q) - 1 : r[i] = q[i + 1] /\ i + 1 \in DOMAIN q /\ i + 1 # 1
      /\ Head(q) = q[1] /\ 1 \in DOMAIN q
  OBVIOUS
<1>1. (r # <<>> => 1 \in 1 .. Len(q) - 1 /\ Head(r) = r[1]) /\ (2 \in DOMAIN q => r # <<>>)
  <2>1. Len(r) = Len(q) - 1
    OBVIOUS
  <2> HIDE DEF r
  <2> QED
    BY <1>0, <2>1
<1> HIDE DEF r
<1>2. ASSUME NEW i \in DOMAIN r, NEW u \in AllSemas \cup Conds
      PROVE  r[i] # <<"link", u>> /\ (r[i] = <<"close", u>> => i = 1 /\ q[1] = <<"link", u>>)
  <2>1. i + 1 \in DOMAIN q /\ r[i] = q[i + 1] /\ i + 1 # 1 /\ i \in Nat
    BY <1>0
  <2>2. /\ q[i + 1] = <<"link", u>> => i + 1 = 1
        /\ q[i + 1] = <<"close", u>> => i + 1 = 1 \/ (i + 1 = 2 /\ q[1] = <<"link", u>>)
    BY <2>1 DEF StepsOK
  <2> QED
    BY <2>1, <2>2
<1>3. ASSUME NEW i \in DOMAIN r, NEW l \in Locks, r[i] = <<"disown", l>>
      PROVE  /\ hd2[l] = t \/ \E j \in DOMAIN r : j < i /\ r[j] = <<"own", l>>
             /\ \A j \in DOMAIN r, m \in Locks : r[j] = <<"disown", m>> => j = i
  <2>1. i + 1 \in DOMAIN q /\ r[i] = q[i + 1] /\ i + 1 # 1 /\ i \in Nat
    BY <1>0
  <2>2. /\ hd[l] = t \/ \E j \in DOMAIN q : j < i + 1 /\ q[j] = <<"own", l>>
        /\ \A j \in DOMAIN q, m \in Locks : q[j] = <<"disown", m>> => j = i + 1
    BY <1>3, <2>1 DEF StepsOK
  <2>3. \A m \in Locks : Head(q) # <<"disown", m>>
    BY <1>0, <2>1, <2>2
  <2>4. ASSUME NEW j \in DOMAIN r, NEW m \in Locks, r[j] = <<"disown", m>> PROVE j = i
    <3>1. j + 1 \in DOMAIN q /\ q[j + 1] = <<"disown", m>> /\ j \in Nat
      BY <1>0, <2>4
    <3>2. j + 1 = i + 1
      BY <2>2, <3>1
    <3> QED
      BY <2>1, <3>1, <3>2
  <2>5. ASSUME NEW j \in DOMAIN q, j < i + 1, q[j] = <<"own", l>>
        PROVE  hd2[l] = t \/ \E k \in DOMAIN r : k < i /\ r[k] = <<"own", l>>
    <3>1. CASE j = 1
      BY <1>0, <2>5, <3>1
    <3>2. CASE j # 1
      <4>1. j - 1 \in DOMAIN r /\ j - 1 < i /\ (j - 1) + 1 = j
        BY <1>0, <2>1, <2>5, <3>2
      <4>2. r[j - 1] = q[j]
        BY <1>0, <4>1
      <4> QED
        BY <2>5, <4>1, <4>2
    <3> QED
      BY <3>1, <3>2
  <2> QED
    BY <2>2, <2>3, <2>4, <2>5
<1>4. StepsOK(r, t, hd2)
  <2>1. \A i \in DOMAIN r, u \in AllSemas \cup Conds :
          /\ r[i] = <<"link", u>> => i = 1 /\ 2 \in DOMAIN r /\ r[2] = <<"close", u>>
          /\ r[i] = <<"close", u>> => i = 1 \/ (i = 2 /\ r[1] = <<"link", u>>)
    BY <1>2
  <2>2. \A i \in DOMAIN r, l \in Locks : r[i] = <<"disown", l>> =>
          /\ hd2[l] = t \/ \E j \in DOMAIN r : j < i /\ r[j] = <<"own", l>>
          /\ \A j \in DOMAIN r, m \in Locks : r[j] = <<"disown", m>> => j = i
    BY <1>3
  <2> QED
    BY <2>1, <2>2 DEF StepsOK
<1>5. ASSUME NEW u \in AllSemas \cup Conds, Head(q) = <<"link", u>>
      PROVE  r # <<>> /\ Head(r) = <<"close", u>>
  <2>1. 2 \in DOMAIN q /\ q[2] = <<"close", u>>
    BY <1>0, <1>5 DEF StepsOK
  <2> QED
    BY <1>0, <1>1, <2>1
<1>6. ASSUME IsPush(r) PROVE \E u \in AllSemas \cup Conds : Head(q) = <<"link", u>>
  <2>1. PICK u \in AllSemas \cup Conds : r # <<>> /\ Head(r) \in {<<"link", u>>, <<"close", u>>}
    BY <1>6 DEF IsPush
  <2>2. 1 \in DOMAIN r /\ r[1] \in {<<"link", u>>, <<"close", u>>}
    BY <1>0, <1>1, <2>1
  <2> QED
    BY <1>0, <1>2, <2>2
<1> QED
  BY <1>0, <1>4, <1>5, <1>6 DEF r

\* Steps of which none pushes or releases a lock.
LEMMA MildSteps ==
  ASSUME NEW q, NEW t, NEW hd,
         \A i \in DOMAIN q : /\ \A u \in AllSemas \cup Conds : q[i] # <<"link", u>> /\ q[i] # <<"close", u>>
                             /\ \A l \in Locks : q[i] # <<"disown", l>>
  PROVE  StepsOK(q, t, hd)
BY DEF StepsOK

\* Holders that t does not lose.
LEMMA OtherSteps ==
  ASSUME NEW q, NEW t, NEW hd, StepsOK(q, t, hd), NEW hd2, \A l \in Locks : hd[l] = t => hd2[l] = t
  PROVE  StepsOK(q, t, hd2)
BY DEF StepsOK

\* Another first step of the same kind.
LEMMA WokenShape ==
  ASSUME NEW q \in Seq(Op), q # <<>>, NEW t, NEW hd, StepsOK(q, t, hd), NEW s \in AllSemas,
         Head(q) \in Downs(s), NEW r, r = << <<"woken", s>> >> \o Tail(q)
  PROVE  r \in Seq(Op) /\ StepsOK(r, t, hd) /\ ~IsPush(q) /\ ~IsPush(r)
<1>0. <<"woken", s>> \in Op
  BY DEF Op
<1>1. /\ r \in Seq(Op) /\ DOMAIN r = DOMAIN q /\ r # <<>>
      /\ r[1] = <<"woken", s>> /\ 1 \in DOMAIN r /\ Head(r) = r[1] /\ Head(q) = q[1]
      /\ \A i \in DOMAIN r : i # 1 => r[i] = q[i]
  BY <1>0
<1>2. ASSUME NEW op, \A u \in AllSemas \cup Conds : op # <<"down", u>> /\ op # <<"woken", u>>
      PROVE  \A i \in DOMAIN q : r[i] = op <=> q[i] = op
  BY <1>1, <1>2 DEF Downs
<1>3. /\ \A i \in DOMAIN q, u \in AllSemas \cup Conds : r[i] = <<"link", u>> <=> q[i] = <<"link", u>>
      /\ \A i \in DOMAIN q, u \in AllSemas \cup Conds : r[i] = <<"close", u>> <=> q[i] = <<"close", u>>
      /\ \A i \in DOMAIN q, l \in Locks : r[i] = <<"disown", l>> <=> q[i] = <<"disown", l>>
      /\ \A i \in DOMAIN q, l \in Locks : r[i] = <<"own", l>> <=> q[i] = <<"own", l>>
  BY <1>2
<1>4. StepsOK(r, t, hd)
  <2>1. ASSUME NEW i \in DOMAIN r, NEW u \in AllSemas \cup Conds
        PROVE  /\ r[i] = <<"link", u>> => i = 1 /\ 2 \in DOMAIN r /\ r[2] = <<"close", u>>
               /\ r[i] = <<"close", u>> => i = 1 \/ (i = 2 /\ r[1] = <<"link", u>>)
    <3>1. /\ q[i] = <<"link", u>> => i = 1 /\ 2 \in DOMAIN q /\ q[2] = <<"close", u>>
          /\ q[i] = <<"close", u>> => i = 1 \/ (i = 2 /\ q[1] = <<"link", u>>)
      BY <1>1 DEF StepsOK
    <3> QED
      BY <1>1, <1>3, <3>1
  <2>2. ASSUME NEW i \in DOMAIN r, NEW l \in Locks, r[i] = <<"disown", l>>
        PROVE  /\ hd[l] = t \/ \E j \in DOMAIN r : j < i /\ r[j] = <<"own", l>>
               /\ \A j \in DOMAIN r, m \in Locks : r[j] = <<"disown", m>> => j = i
    <3>0. i \in DOMAIN q /\ q[i] = <<"disown", l>>
      BY <1>1, <1>3, <2>2
    <3>1. /\ hd[l] = t \/ \E j \in DOMAIN q : j < i /\ q[j] = <<"own", l>>
          /\ \A j \in DOMAIN q, m \in Locks : q[j] = <<"disown", m>> => j = i
      BY <3>0 DEF StepsOK
    <3>2. hd[l] = t \/ \E j \in DOMAIN r : j < i /\ r[j] = <<"own", l>>
      BY <1>1, <1>3, <3>1
    <3>3. \A j \in DOMAIN r, m \in Locks : r[j] = <<"disown", m>> => j = i
      BY <1>1, <1>3, <3>1
    <3> QED
      BY <3>2, <3>3
  <2> QED
    BY <2>1, <2>2 DEF StepsOK
<1>5. ~IsPush(q) /\ ~IsPush(r)
  BY <1>1 DEF IsPush, Downs
<1> QED
  BY <1>1, <1>4, <1>5

-----------------------------------------------------------------------------

LEMMA NodeSets ==
  /\ AllNodes \subseteq Nodes /\ LockNodes \subseteq Nodes /\ AllNodes \cap LockNodes = {}
  /\ Nodes \ AllNodes = LockNodes /\ Nodes \ LockNodes = AllNodes
  /\ "all" \in Lists /\ list_head("all") \in AllNodes /\ list_tail("all") \in AllNodes
  /\ \A t \in Threads : /\ t \in Lists /\ t # "all" /\ t \in AllNodes /\ t \in Elems /\ t \notin Locks
                        /\ list_head(t) \in LockNodes /\ list_tail(t) \in LockNodes
  /\ \A l \in Locks : l \in LockNodes /\ l \in Elems /\ l \notin Threads /\ l # None
  /\ None \notin Nodes /\ None \notin Threads
<1>1. "all" \in Lists /\ "all" \notin Threads /\ Elems = Threads \cup Locks
  BY NodesApart DEF Lists, Elems
<1>2. \A t \in Threads : t \in Lists /\ t # "all" /\ t \in Elems /\ t \in AllNodes /\ t \notin Locks
  BY <1>1, Names DEF Lists, AllNodes
<1>3. AllNodes \subseteq Nodes
  BY <1>1, <1>2, Sentinels DEF AllNodes
<1>4. ASSUME NEW t \in Threads PROVE list_head(t) \in LockNodes /\ list_tail(t) \in LockNodes
  <2>1. t # "all" /\ t \in Lists
    BY <1>2
  <2>2. list_head(t) # list_head("all") /\ list_tail(t) # list_tail("all")
        /\ list_head(t) # list_tail("all") /\ list_tail(t) # list_head("all")
    BY <2>1, Sentinels
  <2>3. list_head(t) \notin Threads /\ list_tail(t) \notin Threads /\ list_head(t) \in Nodes /\ list_tail(t) \in Nodes
    BY <1>1, <2>1, Sentinels
  <2> QED
    BY <2>2, <2>3 DEF LockNodes, AllNodes
<1>5. ASSUME NEW l \in Locks PROVE l \in LockNodes /\ l \in Elems /\ l \notin Threads /\ l # None
  <2>1. l \in Nodes /\ l \notin Threads /\ l # list_head("all") /\ l # list_tail("all") /\ l # None
    BY <1>1, Sentinels, Names
  <2> QED
    BY <1>1, <2>1 DEF LockNodes, AllNodes
<1> QED
  BY <1>1, <1>2, <1>3, <1>4, <1>5, NodesApart, ThreadConstants DEF LockNodes, AllNodes

SamePushes ==
  /\ Pushing' = Pushing
  /\ \A t, u \in Threads : /\ Next1(t, <<"link", u>>)' <=> Next1(t, <<"link", u>>)
                           /\ Next1(t, <<"close", u>>)' <=> Next1(t, <<"close", u>>)

LEMMA PushesSame ==
  ASSUME todo \in [Threads -> Seq(Op)], todo' \in [Threads -> Seq(Op)], NEW t \in Threads,
         \A v \in Threads : v # t => todo'[v] = todo[v], ~IsPush(todo[t]), ~IsPush(todo'[t])
  PROVE  SamePushes
<1>1. Pushing = {v \in Threads : IsPush(todo[v])}
  BY PushingIs DEF Pushing
<1>2. Pushing' = {v \in Threads : IsPush(todo'[v])}
  BY PushingIs DEF Pushing
<1>3. Pushing' = Pushing
  BY <1>1, <1>2
<1>4. ASSUME NEW v \in Threads, NEW u \in Threads
      PROVE  /\ Next1(v, <<"link", u>>)' <=> Next1(v, <<"link", u>>)
             /\ Next1(v, <<"close", u>>)' <=> Next1(v, <<"close", u>>)
  <2>1. CASE v # t
    BY <2>1 DEF Next1
  <2>2. CASE v = t
    <3>1. u \in AllSemas \cup Conds
      BY Names
    <3> QED
      BY <2>2, <3>1 DEF Next1, IsPush
  <2> QED
    BY <2>1, <2>2
<1> QED
  BY <1>3, <1>4 DEF SamePushes

LEMMA AllKept ==
  ASSUME AllOK, links \in Links, links' \in Links, SameAt(links', links, AllNodes),
         Alive' = Alive, SamePushes,
         faults' \cap {"overlap", "no_process"} = {} => faults \cap {"overlap", "no_process"} = {}
  PROVE  AllOK'
<1> SUFFICES ASSUME faults' \cap {"overlap", "no_process"} = {}
             PROVE  /\ \A t, u \in Pushing' : t = u
                    /\ \A ls \in Links : EndsAs(ls)' =>
                         \E xs \in Seq(Elems) : /\ Chained(ls, "all", xs)
                                                /\ \A e \in Elems : In(e, xs) <=> e \in Alive'
  BY DEF AllOK
<1>1. /\ \A t, u \in Pushing : t = u
      /\ \A ls \in Links : EndsAs(ls) =>
           \E xs \in Seq(Elems) : Chained(ls, "all", xs) /\ \A e \in Elems : In(e, xs) <=> e \in Alive
  BY DEF AllOK
<1>2. ASSUME NEW ls \in Links, EndsAs(ls)'
      PROVE  \E old \in Links : EndsAs(old) /\ SameAt(ls, old, AllNodes)
  <2>0. \A n \in AllNodes : n \in Nodes /\ links'.next[n] = links.next[n] /\ links'.prev[n] = links.prev[n]
    BY NodeSets DEF SameAt
  <2>a. \A u \in Threads : u \in Nodes
    BY NodeSets
  <2>b. "all" \in Lists /\ list_tail("all") \in AllNodes
    BY NodeSets
  <2>1. CASE Pushing' = {} /\ ls = links'
    BY <2>1 DEF EndsAs, SamePushes
  <2>2. ASSUME NEW t \in Threads, NEW u \in Threads, Next1(t, <<"link", u>>)',
               ls = CloseElem(LinkElem(links', "all", u), "all", u)
        PROVE  \E old \in Links : EndsAs(old) /\ SameAt(ls, old, AllNodes)
    <3>1. PICK a, b : a = LinkElem(links, "all", u) /\ b = LinkElem(links', "all", u)
      OBVIOUS
    <3>2. PICK old : old = CloseElem(a, "all", u)
      OBVIOUS
    <3>3. a \in Links /\ b \in Links /\ old \in Links
      BY <2>a, <2>b, <3>1, <3>2, LinkIs, CloseIs
    <3>4. SameAt(b, a, AllNodes)
      <4>1. \A n \in Nodes : /\ a.next[n] = IF n = links.prev[list_tail("all")] THEN u ELSE links.next[n]
                             /\ a.prev[n] = links.prev[n]
        BY <2>a, <2>b, <3>1, LinkIs
      <4>2. \A n \in Nodes : /\ b.next[n] = IF n = links'.prev[list_tail("all")] THEN u ELSE links'.next[n]
                             /\ b.prev[n] = links'.prev[n]
        BY <2>a, <2>b, <3>1, LinkIs
      <4> QED
        BY <2>0, <2>b, <4>1, <4>2 DEF SameAt
    <3>5. SameAt(ls, old, AllNodes)
      <4>1. \A n \in Nodes : /\ old.next[n] = a.next[n]
                             /\ old.prev[n] = IF n = list_tail("all") THEN u ELSE a.prev[n]
        BY <2>a, <2>b, <3>2, <3>3, CloseIs
      <4>2. \A n \in Nodes : /\ ls.next[n] = b.next[n]
                             /\ ls.prev[n] = IF n = list_tail("all") THEN u ELSE b.prev[n]
        BY <2>2, <2>a, <2>b, <3>1, <3>3, CloseIs
      <4> QED
        BY <2>0, <3>4, <4>1, <4>2 DEF SameAt
    <3> QED
      BY <2>2, <3>1, <3>2, <3>3, <3>5 DEF EndsAs, SamePushes
  <2>3. ASSUME NEW t \in Threads, NEW u \in Threads, Next1(t, <<"close", u>>)', ls = CloseElem(links', "all", u)
        PROVE  \E old \in Links : EndsAs(old) /\ SameAt(ls, old, AllNodes)
    <3>1. PICK old : old = CloseElem(links, "all", u)
      OBVIOUS
    <3>2. old \in Links
      BY <2>a, <2>b, <3>1, CloseIs
    <3>3. SameAt(ls, old, AllNodes)
      BY <2>0, <2>3, <2>a, <2>b, <3>1, CloseIs DEF SameAt
    <3> QED
      BY <2>3, <3>1, <3>2, <3>3 DEF EndsAs, SamePushes
  <2> QED
    BY <1>2, <2>1, <2>2, <2>3 DEF EndsAs
<1>3. ASSUME NEW ls \in Links, EndsAs(ls)'
      PROVE  \E xs \in Seq(Elems) : Chained(ls, "all", xs) /\ \A e \in Elems : In(e, xs) <=> e \in Alive'
  <2>1. PICK old \in Links : EndsAs(old) /\ SameAt(ls, old, AllNodes)
    BY <1>2, <1>3
  <2>2. PICK xs \in Seq(Elems) : Chained(old, "all", xs) /\ \A e \in Elems : In(e, xs) <=> e \in Alive
    BY <1>1, <2>1
  <2>3. Spot("all", xs) \subseteq AllNodes
    BY <2>2, NodeSets DEF Spot, Alive
  <2>4. SameAt(ls, old, Spot("all", xs))
    BY <2>1, <2>3 DEF SameAt
  <2>5. Chained(ls, "all", xs)
    BY <2>2, <2>4, ChainFrame, NodeSets
  <2> QED
    BY <2>2, <2>5
<1> QED
  BY <1>1, <1>3 DEF SamePushes

LEMMA HeldKept ==
  ASSUME LockListsOK, SameAt(links', links, LockNodes), holder' = holder, Alive' \subseteq Alive,
         "misfiled" \in faults => "misfiled" \in faults',
         \A l \in Locks : holder[l] \in Alive \ Coming(todo) => holder[l] \in Alive' \ Coming(todo')
  PROVE  LockListsOK'
<1>0. CASE "misfiled" \in faults'
  BY <1>0 DEF LockListsOK
<1>1. CASE "misfiled" \notin faults'
  <2>1. /\ \A t \in Alive : \E xs \in Seq(Elems) :
             Chained(links, t, xs) /\ \A e \in Elems : In(e, xs) <=> e \in Locks /\ holder[e] = t
        /\ \A l \in Locks : holder[l] \in (Alive \ Coming(todo)) \cup {None}
    BY <1>1 DEF LockListsOK
  <2>2. ASSUME NEW t \in Alive'
        PROVE  \E xs \in Seq(Elems) :
                 Chained(links', t, xs) /\ \A e \in Elems : In(e, xs) <=> e \in Locks /\ holder'[e] = t
    <3>1. t \in Alive /\ t \in Threads
      BY DEF Alive
    <3>2. PICK xs \in Seq(Elems) :
                 Chained(links, t, xs) /\ \A e \in Elems : In(e, xs) <=> e \in Locks /\ holder[e] = t
      BY <2>1, <3>1
    <3>3. Spot(t, xs) \subseteq LockNodes
      BY <3>1, <3>2, NodeSets DEF Spot
    <3>4. SameAt(links', links, Spot(t, xs))
      BY <3>3 DEF SameAt
    <3>5. Chained(links', t, xs)
      BY <3>1, <3>2, <3>4, ChainFrame, NodeSets
    <3> QED
      BY <3>2, <3>5
  <2> QED
    BY <1>1, <2>1, <2>2 DEF LockListsOK
<1> QED
  BY <1>0, <1>1

\* A step that leaves lists, holders and the living alone.
LEMMA QuietLists ==
  ASSUME QInv, QInv', ListInv, NEW t \in Threads, UNCHANGED <<links, holder, faults>>, ~panic',
         Alive' = Alive, \A v \in Threads : v # t => todo'[v] = todo[v],
         SamePushes, StepsOK(todo'[t], t, holder),
         Coming(todo') \subseteq Coming(todo), tid' \in [Threads -> Nat], next_tid' \in Nat
  PROVE  ListInv'
<1>0. /\ PtrOK /\ LockListsOK /\ AllOK /\ TodoShape /\ TidOK
  BY DEF ListInv
<1>1. SameAt(links', links, AllNodes) /\ SameAt(links', links, LockNodes) /\ links \in Links /\ links' \in Links
  BY <1>0 DEF SameAt, PtrOK
<1>3. AllOK'
  BY <1>0, <1>1, AllKept
<1>4. LockListsOK'
  BY <1>0, <1>1, HeldKept
<1>5. PtrOK' /\ TidOK'
  BY <1>0 DEF PtrOK, TidOK
<1>6. TodoShape'
  BY <1>0 DEF TodoShape
<1> QED
  BY <1>3, <1>4, <1>5, <1>6 DEF ListInv, NoAssertFails

LEMMA ComingTail ==
  ASSUME NEW td \in [Threads -> Seq(Op)], NEW t \in Threads, td[t] # <<>>
  PROVE  Coming([td EXCEPT ![t] = Tail(td[t])]) \subseteq Coming(td)
<1> SUFFICES ASSUME NEW u \in Threads, NEW v \in Threads, NEW i \in Nat,
                    Creates([td EXCEPT ![t] = Tail(td[t])], v, i, u)
             PROVE  \E w \in Threads, j \in Nat : Creates(td, w, j, u)
  BY DEF Coming
<1>1. CASE v # t
  BY <1>1 DEF Creates
<1>2. CASE v = t
  <2>1. i \in DOMAIN Tail(td[t]) /\ Tail(td[t])[i] = <<"process", u>>
    BY <1>2 DEF Creates
  <2>2. i + 1 \in DOMAIN td[t] /\ td[t][i + 1] = <<"process", u>>
    BY <2>1, TailOps
  <2> QED
    BY <2>2 DEF Creates
<1> QED
  BY <1>1, <1>2

\* The end of a step that is none of a list.
LEMMA DoneLists ==
  ASSUME QInv, QInv', ListInv, NEW t \in Threads, NEW op, NextStep(t, op), Done(t),
         UNCHANGED <<links, holder, faults>>, ~panic', Alive' = Alive,
         tid' \in [Threads -> Nat], next_tid' \in Nat,
         \A u \in AllSemas \cup Conds : op # <<"link", u>> /\ op # <<"close", u>>,
         \A l \in Locks : op # <<"own", l>>
  PROVE  ListInv'
<1>1. /\ todo \in [Threads -> Seq(Op)] /\ todo[t] \in Seq(Op) /\ todo[t] # <<>> /\ Head(todo[t]) = op
      /\ todo' = [todo EXCEPT ![t] = Tail(todo[t])]
  BY DEF QInv, LockInv, SynchTypeOK, NextStep, Done, Then
<1>2. StepsOK(todo[t], t, holder)
  BY DEF ListInv, TodoShape
<1>3. StepsOK(Tail(todo[t]), t, holder) /\ ~IsPush(Tail(todo[t]))
  BY <1>1, <1>2, TailSteps
<1>4. ~IsPush(todo[t])
  BY <1>1 DEF IsPush
<1>5. todo'[t] = Tail(todo[t]) /\ \A v \in Threads : v # t => todo'[v] = todo[v]
  BY <1>1
<1>6. Coming(todo') \subseteq Coming(todo)
  BY <1>1, ComingTail
<1>7. SamePushes
  BY <1>1, <1>3, <1>4, <1>5, PushesSame DEF QInv, LockInv, SynchTypeOK
<1> QED
  BY <1>3, <1>5, <1>6, <1>7, QuietLists

\* A program calls for steps that push nothing and create nothing.
LEMMA CallLists ==
  ASSUME QInv, QInv', ListInv, NEW t \in Threads, InProgram(t), NEW q, Then(t, q),
         UNCHANGED <<links, holder, faults, tid, next_tid>>, ~panic', Alive' = Alive,
         StepsOK(q, t, holder), ~IsPush(q), \A i \in DOMAIN q, u \in Threads : q[i] # <<"process", u>>
  PROVE  ListInv'
<1>1. todo \in [Threads -> Seq(Op)] /\ todo' = [todo EXCEPT ![t] = q] /\ todo[t] = <<>>
  BY DEF QInv, LockInv, SynchTypeOK, Then, InProgram
<1>2. todo'[t] = q /\ (\A v \in Threads : v # t => todo'[v] = todo[v]) /\ ~IsPush(todo[t])
  BY <1>1 DEF IsPush
<1>3. Coming(todo') \subseteq Coming(todo)
  BY <1>2 DEF Coming, Creates
<1>4. tid' \in [Threads -> Nat] /\ next_tid' \in Nat
  BY DEF ListInv, TidOK
<1>5. SamePushes
  BY <1>1, <1>2, PushesSame DEF QInv, LockInv, SynchTypeOK
<1> QED
  BY <1>2, <1>3, <1>4, <1>5, QuietLists

-----------------------------------------------------------------------------

\* Another thread than the idle thread finds one that can run.
LEMMA SomeReady ==
  ASSUME QInv, NEW t \in Threads, running = t, todo[t] # <<>> => Head(todo[t]) # <<"start">>,
         idle_thread = None
  PROVE  ready_list # <<>>
<1>1. ReadyOK(status, ready_list, idle_thread) /\ IdleOK(status, todo, idle_thread)
  BY QFacts DEF QueueOK
<1>2. PICK a, b, c : a = <<"start">> /\ b = <<"up", "idle_started">> /\ c = <<"idle">>
  OBVIOUS
<1>3. todo[first_idle] = <<a, b, c>> /\ status[first_idle] \in {"READY", "RUNNING"}
  BY <1>1, <1>2 DEF IdleOK
<1>4. <<a, b, c>> # <<>> /\ Head(<<a, b, c>>) = a
  OBVIOUS
<1>5. t # first_idle
  BY <1>2, <1>3, <1>4
<1>6. status[first_idle] = "READY" /\ first_idle # None
  BY <1>3, <1>5, QFacts, ThreadConstants
<1>7. In(first_idle, ready_list)
  BY <1>1, <1>6, ThreadConstants DEF ReadyOK
<1>8. DOMAIN <<>> = {}
  OBVIOUS
<1> QED
  BY <1>7, <1>8 DEF In

\* No thread dies of a switch, unless the one that leaves is DYING.
LEMMA AliveSwitch ==
  ASSUME QInv, NEW t \in Threads, NEW st \in Statuses, NEW sts \in [Threads -> Statuses],
         \A u \in Threads : sts[u] \in {"FREE", "DYING"} <=> status[u] \in {"FREE", "DYING"},
         NEW q \in Seq(Threads), \A i \in DOMAIN q : sts[q[i]] \notin {"FREE", "DYING"},
         st = "DYING" => t # idle_thread /\ \A i \in DOMAIN q : q[i] # t,
         q # <<>> \/ idle_thread # None, status[t] = "RUNNING", Schedule(t, st, sts, q), st # "FREE"
  PROVE  Alive' = (IF st = "DYING" THEN Alive \ {t} ELSE Alive) /\ panic' = panic
<1>1. PICK next : next = next_thread_to_run(q)
  OBVIOUS
<1>2. next \in Threads /\ next # None /\ sts[next] \notin {"FREE", "DYING"} /\ (st = "DYING" => next # t)
  <2>1. CASE q # <<>>
    <3>1. 1 \in DOMAIN q /\ q[1] = Head(q) /\ Head(q) \in Threads
      BY <2>1
    <3> QED
      BY <1>1, <2>1, <3>1, ThreadConstants DEF next_thread_to_run
  <2>2. CASE q = <<>>
    <3>1. IdleOK(status, todo, idle_thread)
      BY QFacts DEF QueueOK
    <3> QED
      BY <1>1, <2>2, <3>1, ThreadConstants DEF next_thread_to_run, IdleOK
  <2> QED
    BY <2>1, <2>2
<1>3. status' = [sts EXCEPT ![t] = AfterSwitch(t, st), ![next] = "RUNNING"] /\ panic' = panic
  BY <1>1, <1>2 DEF Schedule
<1>4. AfterSwitch(t, st) \in {"FREE", "DYING"} <=> st = "DYING"
  BY DEF AfterSwitch
<1>5. \A u \in Threads : status'[u] = IF u = next THEN "RUNNING" ELSE IF u = t THEN AfterSwitch(t, st) ELSE sts[u]
  BY <1>2, <1>3
<1>6. ASSUME NEW u \in Threads
      PROVE  status'[u] \in {"FREE", "DYING"} <=> status[u] \in {"FREE", "DYING"} \/ (u = t /\ st = "DYING")
  BY <1>2, <1>4, <1>5
<1> QED
  BY <1>3, <1>6 DEF Alive

\* thread_block and thread_yield.
LEMMA AliveSame ==
  ASSUME QInv, NEW t \in Threads, running = t,
         \/ Block(t) /\ (todo[t] # <<>> => Head(todo[t]) # <<"start">>)
         \/ Schedule(t, "READY", status, YieldTo(t))
  PROVE  Alive' = Alive /\ panic' = panic
<1>1. status[t] = "RUNNING" /\ status \in [Threads -> Statuses] /\ ready_list \in Seq(Threads)
  BY QFacts
<1>2. \A i \in DOMAIN ready_list : status[ready_list[i]] = "READY"
  <2>1. ReadyOK(status, ready_list, idle_thread)
    BY QFacts DEF QueueOK
  <2>2. \A i \in DOMAIN ready_list : ready_list[i] \in Threads
    BY <1>1
  <2> QED
    BY <2>1, <2>2 DEF ReadyOK, In
<1>4. CASE Block(t) /\ (todo[t] # <<>> => Head(todo[t]) # <<"start">>)
  <2>1. ready_list # <<>> \/ idle_thread # None
    BY <1>4, SomeReady
  <2> QED
    BY <1>1, <1>2, <1>4, <2>1, AliveSwitch DEF Block, Statuses
<1>5. CASE Schedule(t, "READY", status, YieldTo(t))
  <2>1. PICK q : q = YieldTo(t)
    OBVIOUS
  <2>2. q \in Seq(Threads) /\ (q # <<>> \/ idle_thread # None)
    BY <1>1, <2>1, ThreadConstants DEF YieldTo
  <2>3. \A i \in DOMAIN q : status[q[i]] \in {"READY", "RUNNING"}
    <3>1. CASE t = idle_thread
      BY <1>2, <2>1, <3>1 DEF YieldTo
    <3>2. CASE t # idle_thread
      <4>1. /\ DOMAIN q = 1 .. Len(ready_list) + 1 /\ DOMAIN ready_list = 1 .. Len(ready_list)
            /\ q[Len(ready_list) + 1] = t /\ \A i \in 1 .. Len(ready_list) : q[i] = ready_list[i]
            /\ Len(ready_list) \in Nat
        BY <1>1, <2>1, <3>2 DEF YieldTo
      <4> QED
        BY <1>1, <1>2, <4>1
    <3> QED
      BY <3>1, <3>2
  <2> QED
    BY <1>1, <1>5, <2>1, <2>2, <2>3, AliveSwitch DEF Statuses
<1> QED
  BY <1>4, <1>5

\* thread_unblock of blocked threads.
LEMMA AliveUnblock ==
  ASSUME QInv, NEW us \in Seq(Threads), \A i \in DOMAIN us : status[us[i]] = "BLOCKED", Unblock(us)
  PROVE  Alive' = Alive /\ ~panic'
<1>1. ~panic' /\ status' = [u \in Threads |-> IF u \in ToSet(us) THEN "READY" ELSE status[u]]
  BY DEF Unblock
<1>2. \A u \in Threads : u \in ToSet(us) => status[u] = "BLOCKED"
  BY DEF ToSet
<1> QED
  BY <1>1, <1>2 DEF Alive

-----------------------------------------------------------------------------

LEMMA DownLists ==
  ASSUME QInv, QInv', ListInv, ~panic, NEW t \in Threads, NEW s \in AllSemas, Down(t, s),
         UNCHANGED <<tid, next_tid>>
  PROVE  ListInv'
<1>1. PICK op \in Downs(s) : NextStep(t, op)
  BY DEF Down, Downs
<1>2. tid' \in [Threads -> Nat] /\ next_tid' \in Nat
  BY DEF ListInv, TidOK
<1>3. /\ \A u \in AllSemas \cup Conds : op # <<"link", u>> /\ op # <<"close", u>>
      /\ \A l \in Locks : op # <<"own", l>>
      /\ op # <<"start">>
  <2>1. Len(op) = 2 /\ Len(<<"start">>) = 1
    BY DEF Downs
  <2> QED
    BY <2>1 DEF Downs
<1>4. CASE DownTake(t, s)
  <2>1. Done(t) /\ UNCHANGED <<links, holder, faults>> /\ ~panic' /\ status' = status
    BY <1>4 DEF DownTake, Down
  <2>2. Alive' = Alive
    BY <2>1 DEF Alive
  <2> QED
    BY <1>1, <1>2, <1>3, <2>1, <2>2, DoneLists
<1>5. CASE DownSleep(t, s)
  <2>1. Block(t) /\ Becomes(t, <<"woken", s>>) /\ UNCHANGED <<links, holder, faults>>
    BY <1>5 DEF DownSleep, Down
  <2>2. running = t /\ todo[t] # <<>> /\ Head(todo[t]) = op
    BY <1>1 DEF NextStep
  <2>3. Alive' = Alive /\ ~panic'
    BY <1>3, <2>1, <2>2, AliveSame
  <2>4. todo \in [Threads -> Seq(Op)] /\ todo[t] \in Seq(Op) /\ StepsOK(todo[t], t, holder)
    BY DEF QInv, LockInv, SynchTypeOK, ListInv, TodoShape
  <2>5. PICK r : r = << <<"woken", s>> >> \o Tail(todo[t])
    OBVIOUS
  <2>6. todo' = [todo EXCEPT ![t] = r]
    BY <2>1, <2>5 DEF Becomes, Then
  <2>7. r \in Seq(Op) /\ StepsOK(r, t, holder) /\ ~IsPush(todo[t]) /\ ~IsPush(r)
    BY <2>2, <2>4, <2>5, WokenShape
  <2>8. todo'[t] = r /\ \A v \in Threads : v # t => todo'[v] = todo[v]
    BY <2>4, <2>6
  <2>9. Coming(todo') \subseteq Coming(todo)
    <3>1. ASSUME NEW u \in Threads, NEW v \in Threads, NEW i \in Nat, Creates(todo', v, i, u)
          PROVE  Creates(todo, v, i, u)
      <4>1. CASE v # t
        BY <2>8, <3>1, <4>1 DEF Creates
      <4>2. CASE v = t
        <5>1. i \in DOMAIN r /\ r[i] = <<"process", u>>
          BY <2>8, <3>1, <4>2 DEF Creates
        <5>2. DOMAIN r = DOMAIN todo[t] /\ r[1] = <<"woken", s>> /\ \A j \in DOMAIN r : j # 1 => r[j] = todo[t][j]
          <6>1. <<"woken", s>> \in Op
            BY DEF Op
          <6> QED
            BY <2>2, <2>4, <2>5, <6>1
        <5> QED
          BY <4>2, <5>1, <5>2 DEF Creates
      <4> QED
        BY <4>1, <4>2
    <3> QED
      BY <3>1 DEF Coming
  <2>10. SamePushes
    BY <2>7, <2>8, PushesSame DEF QInv, LockInv, SynchTypeOK
  <2> QED
    BY <1>2, <2>1, <2>3, <2>7, <2>8, <2>9, <2>10, QuietLists
<1> QED
  BY <1>4, <1>5 DEF Down

LEMMA SemaUpLists ==
  ASSUME QInv, QInv', ListInv, ~panic, NEW t \in Threads, NEW s \in AllSemas, SemaUp(t, s),
         UNCHANGED <<tid, next_tid>>
  PROVE  ListInv'
<1>1. NextStep(t, <<"up", s>>) /\ Done(t) /\ Unblock(First(s)) /\ UNCHANGED <<links, holder, faults>>
  BY DEF SemaUp
<1>2. First(s) \in Seq(Threads) /\ \A i \in DOMAIN First(s) : status[First(s)[i]] = "BLOCKED"
  <2>1. waiters[s] \in Seq(Threads) /\ WaitOK(status, waiters, todo)
    BY QFacts DEF QueueOK
  <2>2. CASE waiters[s] = <<>>
    BY <2>2 DEF First
  <2>3. CASE waiters[s] # <<>>
    <3>1. 1 \in DOMAIN waiters[s] /\ waiters[s][1] = Head(waiters[s]) /\ Head(waiters[s]) \in Threads
      BY <2>1, <2>3
    <3>2. status[Head(waiters[s])] = "BLOCKED"
      BY <2>1, <3>1 DEF WaitOK, In
    <3>3. PICK h : h = Head(waiters[s])
      OBVIOUS
    <3>4. First(s) = <<h>>
      BY <2>3, <3>3 DEF First
    <3> QED
      BY <3>1, <3>2, <3>3, <3>4
  <2> QED
    BY <2>2, <2>3
<1>3. Alive' = Alive /\ ~panic'
  BY <1>1, <1>2, AliveUnblock
<1>4. tid' \in [Threads -> Nat] /\ next_tid' \in Nat
  BY DEF ListInv, TidOK
<1> QED
  BY <1>1, <1>3, <1>4, DoneLists

LEMMA CountLists ==
  ASSUME QInv, QInv', ListInv, ~panic, NEW t \in Threads, NEW u \in Threads, CountTid(t, u)
  PROVE  ListInv'
<1>1. PICK x \in {"tid", "count"} : NextStep(t, <<x, u>>)
  BY DEF CountTid
<1>2. Done(t) /\ UNCHANGED <<links, holder, faults>> /\ ~panic' /\ status' = status
  BY DEF CountTid, synch_vars
<1>3. tid \in [Threads -> Nat] /\ next_tid \in Nat
  BY DEF ListInv, TidOK
<1>4. tid' \in [Threads -> Nat] /\ next_tid' \in Nat
  BY <1>3 DEF CountTid
<1>5. Alive' = Alive
  BY <1>2 DEF Alive
<1> QED
  BY <1>1, <1>2, <1>4, <1>5, DoneLists

LEMMA SwitchLists ==
  ASSUME QInv, QInv', ListInv, ~panic, NEW t \in Threads,
         UNCHANGED <<synch_vars, links, faults, tid, next_tid>>,
         StartIdle(t) \/ IdleBlock(t) \/ Preempt(t)
  PROVE  ListInv'
<1>0. UNCHANGED <<links, holder, faults>> /\ tid' \in [Threads -> Nat] /\ next_tid' \in Nat
  BY DEF synch_vars, ListInv, TidOK
<1>1. CASE StartIdle(t)
  <2>1. PICK op : op = <<"start">>
    OBVIOUS
  <2>2. NextStep(t, op) /\ Done(t) /\ ~panic' /\ status' = status
    BY <1>1, <2>1 DEF StartIdle
  <2>3. Len(op) = 1 /\ \A x, y : Len(<<x, y>>) = 2
    BY <2>1
  <2>4. /\ \A u \in AllSemas \cup Conds : op # <<"link", u>> /\ op # <<"close", u>>
        /\ \A l \in Locks : op # <<"own", l>>
    BY <2>3
  <2>5. Alive' = Alive
    BY <2>2 DEF Alive
  <2> QED
    BY <1>0, <2>2, <2>4, <2>5, DoneLists
<1>2. CASE IdleBlock(t) \/ Preempt(t)
  <2>1. todo' = todo
    BY <1>2 DEF IdleBlock, Preempt
  <2>2. ASSUME IdleBlock(t) PROVE Alive' = Alive /\ panic' = panic
    <3>1. running = t /\ todo[t] # <<>> /\ Head(todo[t]) = <<"idle">> /\ Block(t)
      BY <2>2 DEF IdleBlock, NextStep
    <3>2. <<"idle">> # <<"start">>
      <4>1. <<"idle">>[1] = "idle" /\ <<"start">>[1] = "start"
        OBVIOUS
      <4> QED
        BY <4>1
    <3> QED
      BY <3>1, <3>2, AliveSame
  <2>3. ASSUME Preempt(t) PROVE Alive' = Alive /\ panic' = panic
    <3>1. running = t /\ Schedule(t, "READY", status, YieldTo(t))
      BY <2>3 DEF Preempt
    <3> QED
      BY <3>1, AliveSame
  <2>4. Alive' = Alive /\ panic' = panic
    BY <1>2, <2>2, <2>3
  <2>5. SamePushes
    BY <2>1 DEF SamePushes, Pushing, Next1
  <2>6. StepsOK(todo'[t], t, holder)
    BY <2>1 DEF ListInv, TodoShape
  <2>7. Coming(todo') \subseteq Coming(todo) /\ \A v \in Threads : v # t => todo'[v] = todo[v]
    BY <2>1
  <2> QED
    BY <1>0, <2>4, <2>5, <2>6, <2>7, QuietLists
<1> QED
  BY <1>1, <1>2

-----------------------------------------------------------------------------

LEMMA SpotsApart ==
  ASSUME NEW q \in Lists, NEW r \in Lists, q # r, NEW xs, NEW ys,
         \A e \in Elems : ~(In(e, xs) /\ In(e, ys))
  PROVE  Spot(q, xs) \cap Spot(r, ys) = {}
BY Sentinels DEF Spot

\* The thread that runs lives, and has left thread_create.
LEMMA RunnerLives ==
  ASSUME QInv, NEW t \in Threads, running = t
  PROVE  t \in Alive /\ t \notin Coming(todo)
<1>1. status[t] = "RUNNING" /\ UnbornOK(status, waiters, todo)
  BY QFacts DEF QueueOK
<1> QED
  BY <1>1 DEF Alive, Coming, UnbornOK

\* list_push_back and list_remove on a lock_list.
LEMMA LockListOps ==
  ASSUME PtrOK, NEW t \in Threads, NEW l \in Locks,
         NEW ls, ls = list_push_back(links, t, l) \/ ls = list_remove(links, l)
  PROVE  ls \in Links /\ Closed(ls, LockNodes) /\ SameAt(ls, links, AllNodes)
<1>1. /\ links \in Links /\ Closed(links, LockNodes) /\ LockNodes \in SUBSET Nodes
      /\ l \in LockNodes \cap Elems /\ l \in Nodes /\ l \in Elems /\ l \in LockNodes
      /\ t \in Lists /\ list_tail(t) \in LockNodes /\ Nodes \ LockNodes = AllNodes
  BY NodeSets DEF PtrOK
<1>2. CASE ls = list_push_back(links, t, l)
  BY ONLY <1>1, <1>2, PushIs, PushClosed
<1>3. CASE ls = list_remove(links, l)
  BY ONLY <1>1, <1>3, RemoveIs, RemoveClosed
<1> QED
  BY <1>2, <1>3

\* The end of a step on a lock_list.
LEMMA LockOpLists ==
  ASSUME QInv, QInv', ListInv, NEW t \in Threads, NEW op, NextStep(t, op), Done(t), status' = status,
         \A u \in AllSemas \cup Conds : op # <<"link", u>> /\ op # <<"close", u>>,
         links' \in Links, Closed(links', LockNodes), SameAt(links', links, AllNodes),
         faults \subseteq faults', faults' \subseteq faults \cup {"misfiled"},
         \A v \in Threads \ {t}, l \in Locks : holder[l] = v => holder'[l] = v,
         \A l \in Locks : holder[l] = t /\ op # <<"disown", l>> => holder'[l] = t,
         \A l \in Locks : op = <<"own", l>> => holder'[l] = t,
         LockListsOK', NoAssertFails', UNCHANGED <<tid, next_tid>>
  PROVE  ListInv'
<1>0. /\ PtrOK /\ AllOK /\ TodoShape /\ TidOK
  BY DEF ListInv
<1>1. /\ todo \in [Threads -> Seq(Op)] /\ todo[t] \in Seq(Op) /\ todo[t] # <<>> /\ Head(todo[t]) = op
      /\ todo' = [todo EXCEPT ![t] = Tail(todo[t])]
  BY DEF QInv, LockInv, SynchTypeOK, NextStep, Done, Then
<1>2. StepsOK(todo[t], t, holder)
  BY <1>0 DEF TodoShape
<1>3. StepsOK(Tail(todo[t]), t, holder') /\ ~IsPush(Tail(todo[t]))
  <2>1. PICK q, h : q = todo[t] /\ h = holder'
    OBVIOUS
  <2>2. /\ q \in Seq(Op) /\ q # <<>> /\ StepsOK(q, t, holder) /\ Head(q) = op
        /\ \A l \in Locks : holder[l] = t /\ Head(q) # <<"disown", l>> => h[l] = t
        /\ \A l \in Locks : Head(q) = <<"own", l>> => h[l] = t
    BY <1>1, <1>2, <2>1
  <2>3. ~(\E u \in AllSemas \cup Conds : Head(q) = <<"link", u>>)
    BY <2>2
  <2>4. StepsOK(Tail(q), t, h) /\ ~IsPush(Tail(q))
    BY ONLY <2>2, <2>3, TailSteps
  <2> QED
    BY <2>1, <2>4
<1>4. ~IsPush(todo[t])
  BY <1>1 DEF IsPush
<1>5. todo'[t] = Tail(todo[t]) /\ \A v \in Threads : v # t => todo'[v] = todo[v]
  BY <1>1
<1>6. SamePushes
  BY <1>1, <1>3, <1>4, <1>5, PushesSame DEF QInv, LockInv, SynchTypeOK
<1>7. Alive' = Alive
  BY DEF Alive
<1>8. AllOK'
  BY <1>0, <1>6, <1>7, AllKept DEF PtrOK
<1>9. TodoShape'
  <2>1. ASSUME NEW v \in Threads, v # t PROVE StepsOK(todo[v], v, holder')
    <3>1. StepsOK(todo[v], v, holder)
      BY <1>0 DEF TodoShape
    <3> QED
      BY <2>1, <3>1, OtherSteps
  <2> QED
    BY <1>3, <1>5, <2>1 DEF TodoShape
<1>10. PtrOK' /\ TidOK'
  BY <1>0, NodeSets DEF PtrOK, TidOK, Closed, SameAt
<1> QED
  BY <1>8, <1>9, <1>10 DEF ListInv

LEMMA OwnLists ==
  ASSUME QInv, QInv', ListInv, ~panic, NEW t \in Threads, NEW l \in Locks, Own(t, l),
         UNCHANGED <<tid, next_tid>>
  PROVE  ListInv'
<1>1. PICK op : op = <<"own", l>>
  OBVIOUS
<1>2. /\ NextStep(t, op) /\ Done(t) /\ status' = status /\ ~panic' /\ faults' = faults
      /\ holder' = [holder EXCEPT ![l] = t] /\ links' = list_push_back(links, t, l) /\ running = t
  BY <1>1 DEF Own, NextStep
<1>3. /\ \A u \in AllSemas \cup Conds : op # <<"link", u>> /\ op # <<"close", u>>
      /\ \A m \in Locks : op # <<"disown", m>>
      /\ \A m \in Locks : op = <<"own", m>> => m = l
  BY <1>1
<1>4. holder \in [Locks -> Threads \cup {None}] /\ holder[l] = None
  <2>1. MutexInv /\ RestOK
    BY DEF QInv, LockInv, SynchTypeOK
  <2>2. Between(t, l)
    BY <1>1, <1>2 DEF Between, Next1, NextStep
  <2> QED
    BY <2>1, <2>2 DEF MutexInv, RestOK
<1>5. \A m \in Locks : holder'[m] = IF m = l THEN t ELSE holder[m]
  BY <1>2, <1>4
<1>6. PtrOK /\ LockListsOK
  BY DEF ListInv
<1>7. links' \in Links /\ Closed(links', LockNodes) /\ SameAt(links', links, AllNodes)
  BY <1>2, <1>6, LockListOps
<1>8. LockListsOK'
  <2>1. CASE "misfiled" \in faults
    BY <1>2, <2>1 DEF LockListsOK
  <2>2. CASE "misfiled" \notin faults
    <3>1. /\ \A v \in Alive : \E xs \in Seq(Elems) :
               Chained(links, v, xs) /\ \A e \in Elems : In(e, xs) <=> e \in Locks /\ holder[e] = v
          /\ \A m \in Locks : holder[m] \in (Alive \ Coming(todo)) \cup {None}
      BY <1>6, <2>2 DEF LockListsOK
    <3>2. Alive' = Alive /\ Alive \subseteq Threads
      BY <1>2 DEF Alive
    <3>3. t \in Alive /\ t \notin Coming(todo)
      BY <1>2, RunnerLives
    <3>4. Coming(todo') \subseteq Coming(todo)
      BY <1>2, ComingTail DEF Done, Then, NextStep, QInv, LockInv, SynchTypeOK
    <3>5. \A m \in Locks : holder'[m] \in (Alive' \ Coming(todo')) \cup {None}
      BY <1>5, <3>1, <3>2, <3>3, <3>4
    <3>6. PICK xs \in Seq(Elems) :
            Chained(links, t, xs) /\ \A e \in Elems : In(e, xs) <=> e \in Locks /\ holder[e] = t
      BY <3>1, <3>3
    <3>7. l \in Elems /\ t \in Lists /\ links \in Links /\ t # None
      BY <1>6, NodeSets, ThreadConstants DEF PtrOK
    <3>8. ~In(l, xs)
      BY <1>4, <3>6, <3>7
    <3>9. /\ Append(xs, l) \in Seq(Elems) /\ Chained(links', t, Append(xs, l))
          /\ \A x : In(x, Append(xs, l)) <=> In(x, xs) \/ x = l
          /\ SameAt(links', links, Nodes \ (Spot(t, xs) \cup {l}))
      BY <1>2, <3>6, <3>7, <3>8, ChainPush
    <3>10. ASSUME NEW v \in Alive, v # t
           PROVE  \E ys \in Seq(Elems) :
                    Chained(links', v, ys) /\ \A e \in Elems : In(e, ys) <=> e \in Locks /\ holder'[e] = v
      <4>1. PICK ys \in Seq(Elems) :
              Chained(links, v, ys) /\ \A e \in Elems : In(e, ys) <=> e \in Locks /\ holder[e] = v
        BY <3>1
      <4>2. v \in Lists /\ v # None
        BY <3>2, NodeSets, ThreadConstants
      <4>3. Spot(t, xs) \cap Spot(v, ys) = {}
        BY <3>6, <3>7, <3>10, <4>1, <4>2, SpotsApart
      <4>4. l \notin Spot(v, ys)
        BY <1>4, <3>7, <4>1, <4>2, Sentinels DEF Spot
      <4>5. SameAt(links', links, Spot(v, ys))
        BY <3>9, <4>2, <4>3, <4>4, SpotIs DEF SameAt
      <4>6. Chained(links', v, ys)
        BY <4>1, <4>2, <4>5, ChainFrame
      <4>7. \A e \in Locks : holder[e] = v <=> holder'[e] = v
        BY <1>4, <1>5, <3>10, <4>2
      <4> QED
        BY <4>1, <4>6, <4>7
    <3>11. \A e \in Elems : In(e, Append(xs, l)) <=> e \in Locks /\ holder'[e] = t
      BY <1>5, <3>6, <3>9
    <3>12. \A v \in Alive : \E ys \in Seq(Elems) :
               Chained(links', v, ys) /\ \A e \in Elems : In(e, ys) <=> e \in Locks /\ holder'[e] = v
      BY <3>9, <3>10, <3>11
    <3> QED
      BY <3>2, <3>5, <3>12 DEF LockListsOK
  <2> QED
    BY <2>1, <2>2
<1>9. \A v \in Threads \ {t}, m \in Locks : holder[m] = v => holder'[m] = v
  BY <1>4, <1>5, ThreadConstants
<1>10. \A m \in Locks : holder[m] = t \/ op = <<"own", m>> => holder'[m] = t
  BY <1>3, <1>5
<1>11. NoAssertFails'
  BY <1>2 DEF NoAssertFails
<1> QED
  BY <1>2, <1>3, <1>7, <1>8, <1>9, <1>10, <1>11, LockOpLists

LEMMA DisownLists ==
  ASSUME QInv, QInv', ListInv, ~panic, NEW t \in Threads, NEW l \in Locks, Disown(t, l),
         UNCHANGED <<tid, next_tid>>
  PROVE  ListInv'
<1>1. PICK op : op = <<"disown", l>>
  OBVIOUS
<1>2. /\ NextStep(t, op) /\ Done(t) /\ status' = status /\ faults' = faults /\ running = t
      /\ todo[t] # <<>> /\ Head(todo[t]) = op
  BY <1>1 DEF Disown, NextStep
<1>3. /\ \A u \in AllSemas \cup Conds : op # <<"link", u>> /\ op # <<"close", u>>
      /\ \A m \in Locks : op # <<"own", m>>
      /\ \A m \in Locks : op = <<"disown", m>> <=> m = l
  BY <1>1
<1>4. holder[l] = t
  <2>1. StepsOK(todo[t], t, holder) /\ todo[t] \in Seq(Op)
    BY DEF ListInv, TodoShape, QInv, LockInv, SynchTypeOK
  <2>2. 1 \in DOMAIN todo[t] /\ todo[t][1] = <<"disown", l>> /\ \A j \in DOMAIN todo[t] : ~(j < 1)
    BY <1>1, <1>2, <2>1
  <2> QED
    BY <2>1, <2>2 DEF StepsOK
<1>5. holder' = [holder EXCEPT ![l] = None] /\ links' = list_remove(links, l) /\ ~panic'
  BY <1>4 DEF Disown, Disowned
<1>6. holder \in [Locks -> Threads \cup {None}] /\ \A m \in Locks : holder'[m] = IF m = l THEN None ELSE holder[m]
  BY <1>5 DEF QInv, LockInv, SynchTypeOK, RestOK
<1>7. PtrOK /\ LockListsOK
  BY DEF ListInv
<1>8. links' \in Links /\ Closed(links', LockNodes) /\ SameAt(links', links, AllNodes)
  BY <1>5, <1>7, LockListOps
<1>9. LockListsOK'
  <2>1. CASE "misfiled" \in faults
    BY <1>2, <2>1 DEF LockListsOK
  <2>2. CASE "misfiled" \notin faults
    <3>1. /\ \A v \in Alive : \E xs \in Seq(Elems) :
               Chained(links, v, xs) /\ \A e \in Elems : In(e, xs) <=> e \in Locks /\ holder[e] = v
          /\ \A m \in Locks : holder[m] \in (Alive \ Coming(todo)) \cup {None}
      BY <1>7, <2>2 DEF LockListsOK
    <3>2. Alive' = Alive /\ Alive \subseteq Threads
      BY <1>2 DEF Alive
    <3>3. t \in Alive /\ t \notin Coming(todo)
      BY <1>2, RunnerLives
    <3>4. Coming(todo') \subseteq Coming(todo)
      BY <1>2, ComingTail DEF Done, Then, QInv, LockInv, SynchTypeOK
    <3>5. \A m \in Locks : holder'[m] \in (Alive' \ Coming(todo')) \cup {None}
      BY <1>6, <3>1, <3>2, <3>3, <3>4
    <3>6. PICK xs \in Seq(Elems) :
            Chained(links, t, xs) /\ \A e \in Elems : In(e, xs) <=> e \in Locks /\ holder[e] = t
      BY <3>1, <3>3
    <3>7. l \in Elems /\ t \in Lists /\ links \in Links /\ t # None
      BY <1>7, NodeSets, ThreadConstants DEF PtrOK
    <3>8. In(l, xs)
      BY <1>4, <3>6, <3>7
    <3>9. /\ \E ys \in Seq(Elems) : Chained(links', t, ys) /\ \A x : In(x, ys) <=> In(x, xs) /\ x # l
          /\ SameAt(links', links, Nodes \ Spot(t, xs))
      <4>1. PICK ls : ls = list_remove(links, l)
        OBVIOUS
      <4>2. /\ \E ys \in Seq(Elems) : Chained(ls, t, ys) /\ \A x : In(x, ys) <=> In(x, xs) /\ x # l
            /\ SameAt(ls, links, Nodes \ Spot(t, xs))
        <5>1. /\ \E ys \in Seq(Elems) : /\ Chained(list_remove(links, l), t, ys)
                                        /\ \A x : In(x, ys) <=> In(x, xs) /\ x # l
                                        /\ l = Head(xs) => /\ Len(ys) = Len(xs) - 1
                                                           /\ \A i \in 1 .. Len(ys) : ys[i] = xs[i + 1]
              /\ SameAt(list_remove(links, l), links, Nodes \ Spot(t, xs))
          <6>1. links \in Links /\ t \in Lists /\ xs \in Seq(Elems) /\ Chained(links, t, xs) /\ In(l, xs)
            BY <3>6, <3>7, <3>8
          <6> QED
            BY ONLY <6>1, ChainRemove
        <5> QED
          BY <4>1, <5>1
      <4> QED
        BY <1>5, <4>1, <4>2
    <3>10. ASSUME NEW v \in Alive, v # t
           PROVE  \E ys \in Seq(Elems) :
                    Chained(links', v, ys) /\ \A e \in Elems : In(e, ys) <=> e \in Locks /\ holder'[e] = v
      <4>1. PICK ys \in Seq(Elems) :
              Chained(links, v, ys) /\ \A e \in Elems : In(e, ys) <=> e \in Locks /\ holder[e] = v
        BY <3>1
      <4>2. v \in Lists /\ v # None
        BY <3>2, NodeSets, ThreadConstants
      <4>3. Spot(t, xs) \cap Spot(v, ys) = {}
        BY <3>6, <3>7, <3>10, <4>1, <4>2, SpotsApart
      <4>5. SameAt(links', links, Spot(v, ys))
        BY <3>9, <4>2, <4>3, SpotIs DEF SameAt
      <4>6. Chained(links', v, ys)
        BY <4>1, <4>2, <4>5, ChainFrame
      <4>7. \A e \in Locks : holder[e] = v <=> holder'[e] = v
        BY <1>4, <1>6, <3>10, <4>2
      <4> QED
        BY <4>1, <4>6, <4>7
    <3>11. \A e \in Locks : holder'[e] = t <=> holder[e] = t /\ e # l
      BY <1>6, <3>7
    <3>12. \A v \in Alive : \E ys \in Seq(Elems) :
               Chained(links', v, ys) /\ \A e \in Elems : In(e, ys) <=> e \in Locks /\ holder'[e] = v
      BY <3>6, <3>9, <3>10, <3>11
    <3> QED
      BY <3>2, <3>5, <3>12 DEF LockListsOK
  <2> QED
    BY <2>1, <2>2
<1>10. \A v \in Threads \ {t}, m \in Locks : holder[m] = v => holder'[m] = v
  BY <1>4, <1>6
<1>11. \A m \in Locks : holder[m] = t /\ op # <<"disown", m>> => holder'[m] = t
  BY <1>3, <1>6
<1>12. NoAssertFails'
  BY <1>5 DEF NoAssertFails
<1> QED
  BY <1>2, <1>3, <1>8, <1>9, <1>10, <1>11, <1>12, LockOpLists

LEMMA MisfileLists ==
  ASSUME QInv, QInv', ListInv, ~panic, NEW t \in Threads, NEW l \in Locks, Misfile(t, l),
         UNCHANGED <<tid, next_tid>>
  PROVE  ListInv'
<1>1. PICK op : op = <<"misfile", l>>
  OBVIOUS
<1>2. /\ NextStep(t, op) /\ Done(t) /\ status' = status /\ faults' = faults \cup {"misfiled"}
      /\ holder' = holder /\ links' = list_push_back(links, t, l) /\ ~panic'
  BY <1>1 DEF Misfile, synch_vars
<1>3. /\ \A u \in AllSemas \cup Conds : op # <<"link", u>> /\ op # <<"close", u>>
      /\ \A m \in Locks : op # <<"own", m>>
  BY <1>1
<1>4. links' \in Links /\ Closed(links', LockNodes) /\ SameAt(links', links, AllNodes)
  BY <1>2, LockListOps DEF ListInv
<1>5. LockListsOK' /\ NoAssertFails'
  BY <1>2 DEF LockListsOK, NoAssertFails
<1> QED
  BY <1>2, <1>3, <1>4, <1>5, LockOpLists

-----------------------------------------------------------------------------

\* None of a push, a lock_release or a thread_create.
Mild(q) == \A i \in DOMAIN q :
  /\ \A u \in AllSemas \cup Conds : q[i] # <<"link", u>> /\ q[i] # <<"close", u>>
  /\ \A l \in Locks : q[i] # <<"disown", l>>
  /\ \A u \in Threads : q[i] # <<"process", u>>

\* The thread that runs takes up mild steps.
LEMMA MildLists ==
  ASSUME QInv, QInv', ListInv, NEW t \in Threads, ~IsPush(todo[t]), NEW q, Then(t, q), Mild(q),
         UNCHANGED <<status, links, holder, faults, tid, next_tid>>, ~panic'
  PROVE  ListInv'
<1>1. todo \in [Threads -> Seq(Op)] /\ todo' = [todo EXCEPT ![t] = q] /\ todo' \in [Threads -> Seq(Op)]
  BY DEF QInv, LockInv, SynchTypeOK, Then
<1>2. todo'[t] = q /\ q \in Seq(Op) /\ \A v \in Threads : v # t => todo'[v] = todo[v]
  BY <1>1
<1>3. ~IsPush(q)
  <2>1. q # <<>> => 1 \in DOMAIN q /\ Head(q) = q[1]
    BY <1>2
  <2> QED
    BY <2>1 DEF IsPush, Mild
<1>4. Coming(todo') \subseteq Coming(todo)
  BY <1>2 DEF Coming, Creates, Mild
<1>5. SamePushes
  BY <1>1, <1>2, <1>3, PushesSame
<1>6. StepsOK(q, t, holder)
  BY MildSteps DEF Mild
<1>7. Alive' = Alive /\ tid' \in [Threads -> Nat] /\ next_tid' \in Nat
  BY DEF Alive, ListInv, TidOK
<1> QED
  BY <1>2, <1>4, <1>5, <1>6, <1>7, QuietLists

LEMMA SignalLists ==
  ASSUME QInv, QInv', ListInv, ~panic, NEW t \in Threads, ~IsPush(todo[t]), NEW c \in Conds,
         NEW rest \in {<<>>, << <<"broadcast", c>> >>}, Signal(t, c, rest), UNCHANGED <<tid, next_tid>>
  PROVE  ListInv'
<1>1. /\ UNCHANGED <<status, links, holder, faults, tid, next_tid>> /\ ~panic'
      /\ cond_waiters[c] \in Seq(Threads)
  BY QFacts DEF Signal, AtEntry, RestOK
<1>2. PICK a, b : a = <<"up", Head(cond_waiters[c])>> /\ b = <<"broadcast", c>>
  OBVIOUS
<1>3. PICK q : q = (IF cond_waiters[c] = <<>> THEN <<>> ELSE << <<"up", Head(cond_waiters[c])>> >>) \o rest
  OBVIOUS
<1>4. q \in {<<>> \o <<>>, <<a>> \o <<>>, <<>> \o <<b>>, <<a>> \o <<b>>}
  BY <1>2, <1>3
<1>5. \A i \in DOMAIN q : q[i] \in {a, b}
  <2>1. DOMAIN (<<>> \o <<>>) = {}
    OBVIOUS
  <2>2. DOMAIN (<<a>> \o <<>>) = {1} /\ (<<a>> \o <<>>)[1] = a
    OBVIOUS
  <2>3. DOMAIN (<<a>> \o <<b>>) = {1, 2} /\ (<<a>> \o <<b>>)[1] = a /\ (<<a>> \o <<b>>)[2] = b
    OBVIOUS
  <2>4. DOMAIN (<<>> \o <<b>>) = {1} /\ (<<>> \o <<b>>)[1] = b
    OBVIOUS
  <2> QED
    BY <1>4, <2>1, <2>2, <2>3, <2>4
<1>6. Mild(q)
  BY <1>2, <1>5 DEF Mild
<1>7. Then(t, q)
  BY <1>3 DEF Signal
<1> QED
  BY <1>1, <1>6, <1>7, MildLists

LEMMA CondStepLists ==
  ASSUME QInv, QInv', ListInv, ~panic, NEW t \in Threads, CondStep(t), UNCHANGED <<tid, next_tid>>
  PROVE  ListInv'
<1>1. ASSUME NEW c \in Conds, Enqueue(t, c) PROVE ListInv'
  <2>1. PICK op : op = <<"enqueue", c>>
    OBVIOUS
  <2>2. NextStep(t, op) /\ Done(t) /\ UNCHANGED <<links, holder, faults, status>> /\ ~panic'
    BY <1>1, <2>1 DEF Enqueue
  <2>3. /\ \A u \in AllSemas \cup Conds : op # <<"link", u>> /\ op # <<"close", u>>
        /\ \A l \in Locks : op # <<"own", l>>
    BY <2>1
  <2>4. Alive' = Alive /\ tid' \in [Threads -> Nat] /\ next_tid' \in Nat
    BY <2>2 DEF Alive, ListInv, TidOK
  <2> QED
    BY <2>2, <2>3, <2>4, DoneLists
<1>2. ASSUME NEW c \in Conds, Broadcast(t, c) PROVE ListInv'
  <2>1. PICK rest \in {<<>>, << <<"broadcast", c>> >>} : Signal(t, c, rest)
    BY <1>2 DEF Broadcast
  <2>2. Head(todo[t]) = <<"broadcast", c>>
    BY <1>2 DEF Broadcast, NextStep
  <2>3. ~IsPush(todo[t])
    BY <2>2 DEF IsPush
  <2> QED
    BY <2>1, <2>3, SignalLists
<1> QED
  BY <1>1, <1>2 DEF CondStep

\* The steps of a call that releases a lock which the caller holds.
LEMMA ReleaseSteps ==
  ASSUME NEW q, NEW t, NEW hd, NEW k \in DOMAIN q, NEW l \in Locks, q[k] = <<"disown", l>>, hd[l] = t,
         \A i \in DOMAIN q : \A u \in AllSemas \cup Conds : q[i] # <<"link", u>> /\ q[i] # <<"close", u>>,
         \A i \in DOMAIN q, m \in Locks : q[i] = <<"disown", m>> => i = k
  PROVE  StepsOK(q, t, hd)
<1>1. \A m \in Locks : q[k] = <<"disown", m>> => m = l
  OBVIOUS
<1> QED
  BY <1>1 DEF StepsOK

LEMMA ClientLists ==
  ASSUME QInv, QInv', ListInv, ~panic, NEW t \in Threads, UNCHANGED <<tid, next_tid>>,
         \/ \E s \in Semas : CallDown(t, s) \/ CallUp(t, s)
         \/ \E l \in Locks : Acquire(t, l) \/ Release(t, l) \/ TryAcquire(t, l)
         \/ \E c \in Conds : CondWait(t, c) \/ CondSignal(t, c) \/ CondBroadcast(t, c)
  PROVE  ListInv'
<1>0. IsPush(<<>>) = FALSE
  BY DEF IsPush
<1>a. ASSUME NEW q, Then(t, q), InProgram(t), AtEntry, UNCHANGED <<holder, faults>>, Mild(q) PROVE ListInv'
  BY <1>0, <1>a, MildLists DEF AtEntry, InProgram
<1>b. ASSUME NEW q, Then(t, q), InProgram(t), AtEntry, UNCHANGED <<holder, faults>>,
             StepsOK(q, t, holder), ~IsPush(q), \A i \in DOMAIN q, u \in Threads : q[i] # <<"process", u>>
      PROVE  ListInv'
  <2>1. Alive' = Alive /\ ~panic' /\ links' = links
    BY <1>b DEF AtEntry, Alive
  <2> QED
    BY <1>b, <2>1, CallLists
<1>1. ASSUME NEW s \in Semas, CallDown(t, s) \/ CallUp(t, s) PROVE ListInv'
  <2>1. PICK op \in {<<"down", s>>, <<"up", s>>} :
          Then(t, <<op>>) /\ InProgram(t) /\ AtEntry /\ UNCHANGED <<holder, faults>>
    BY <1>1 DEF CallDown, CallUp, synch_vars
  <2>2. Mild(<<op>>)
    BY DEF Mild
  <2> QED
    BY <1>a, <2>1, <2>2
<1>2. ASSUME NEW l \in Locks, Acquire(t, l) PROVE ListInv'
  <2>1. PICK q : q = lock_acquire(l)
    OBVIOUS
  <2>2. Then(t, q) /\ InProgram(t) /\ AtEntry /\ UNCHANGED <<holder, faults>>
    BY <1>2, <2>1 DEF Acquire, synch_vars
  <2>3. DOMAIN q = {1, 2} /\ q[1] = <<"down", l>> /\ q[2] = <<"own", l>>
    BY <2>1 DEF lock_acquire
  <2>4. Mild(q)
    BY <2>3 DEF Mild
  <2> QED
    BY <1>a, <2>2, <2>4
<1>3. ASSUME NEW l \in Locks, Release(t, l) PROVE ListInv'
  <2>1. PICK q : q = lock_release(l)
    OBVIOUS
  <2>2. Then(t, q) /\ InProgram(t) /\ AtEntry /\ UNCHANGED <<holder, faults>> /\ holder[l] = t
    BY <1>3, <2>1 DEF Release, synch_vars
  <2>3. DOMAIN q = {1, 2} /\ q[1] = <<"disown", l>> /\ q[2] = <<"up", l>> /\ Head(q) = q[1]
    BY <2>1 DEF lock_release
  <2>4. StepsOK(q, t, holder)
    <3>1. /\ 1 \in DOMAIN q
          /\ \A i \in DOMAIN q : \A u \in AllSemas \cup Conds : q[i] # <<"link", u>> /\ q[i] # <<"close", u>>
          /\ \A i \in DOMAIN q, m \in Locks : q[i] = <<"disown", m>> => i = 1
      BY <2>3
    <3> QED
      BY <2>2, <2>3, <3>1, ReleaseSteps
  <2>5. ~IsPush(q) /\ \A i \in DOMAIN q, u \in Threads : q[i] # <<"process", u>>
    BY <2>3 DEF IsPush
  <2> QED
    BY <1>b, <2>2, <2>4, <2>5
<1>4. ASSUME NEW l \in Locks, TryAcquire(t, l) PROVE ListInv'
  <2>1. PICK op \in {<<"own", l>>, <<"misfile", l>>} : TryRest(t, l) = <<op>>
    BY DEF TryRest
  <2>2. Then(t, <<op>>) /\ InProgram(t) /\ AtEntry /\ UNCHANGED <<holder, faults>>
    BY <1>4, <2>1 DEF TryAcquire
  <2>3. Mild(<<op>>)
    BY DEF Mild
  <2> QED
    BY <1>a, <2>2, <2>3
<1>5. ASSUME NEW c \in Conds, CondWait(t, c) PROVE ListInv'
  <2>1. PICK q, g : q = WaitSteps(t, c) /\ g = Guard[c]
    OBVIOUS
  <2>2. Then(t, q) /\ InProgram(t) /\ AtEntry /\ UNCHANGED <<holder, faults>> /\ holder[g] = t /\ g \in Locks
    BY <1>5, <2>1, Names DEF CondWait, synch_vars
  <2>3. PICK a, b, d, e, x, y : /\ a = <<"enqueue", c>> /\ b = <<"disown", g>> /\ d = <<"up", g>>
                                /\ e = <<"down", t>> /\ x = <<"down", g>> /\ y = <<"own", g>>
    OBVIOUS
  <2>4. q = ((<<a>> \o <<b, d>>) \o <<e>>) \o <<x, y>>
    BY <2>1, <2>3 DEF WaitSteps, lock_release, lock_acquire
  <2>5. /\ DOMAIN q = 1 .. 6 /\ q[1] = a /\ q[2] = b /\ q[3] = d /\ q[4] = e /\ q[5] = x /\ q[6] = y
        /\ Head(q) = q[1]
    BY <2>4
  <2>6. \A i \in DOMAIN q : i # 2 => q[i] \in {a, d, e, x, y}
    BY <2>5
  <2>7. /\ 2 \in DOMAIN q /\ q[2] = <<"disown", g>>
        /\ \A op \in {a, d, e, x, y} : /\ \A u \in AllSemas \cup Conds : op # <<"link", u>> /\ op # <<"close", u>>
                                       /\ \A m \in Locks : op # <<"disown", m>>
                                       /\ \A u \in Threads : op # <<"process", u>>
    BY <2>3, <2>5
  <2>8. StepsOK(q, t, holder)
    BY <2>2, <2>6, <2>7, ReleaseSteps
  <2>9. ~IsPush(q) /\ \A i \in DOMAIN q, u \in Threads : q[i] # <<"process", u>>
    BY <2>3, <2>5, <2>6, <2>7 DEF IsPush
  <2> QED
    BY <1>b, <2>2, <2>8, <2>9
<1>6. ASSUME NEW c \in Conds, CondSignal(t, c) PROVE ListInv'
  BY <1>0, <1>6, SignalLists DEF CondSignal, InProgram
<1>7. ASSUME NEW c \in Conds, CondBroadcast(t, c) PROVE ListInv'
  <2>1. PICK op : op = <<"broadcast", c>>
    OBVIOUS
  <2>2. Then(t, <<op>>) /\ InProgram(t) /\ AtEntry /\ UNCHANGED <<holder, faults>>
    BY <1>7, <2>1 DEF CondBroadcast, synch_vars
  <2>3. Mild(<<op>>)
    BY <2>1 DEF Mild
  <2> QED
    BY <1>a, <2>2, <2>3
<1> QED
  BY <1>1, <1>2, <1>3, <1>4, <1>5, <1>6, <1>7

-----------------------------------------------------------------------------

\* What the end of a step does to the steps of all threads.
LEMMA DoneShape ==
  ASSUME QInv, TodoShape, NEW t \in Threads, NEW op, NextStep(t, op), Done(t), holder' = holder,
         \A l \in Locks : op # <<"own", l>>
  PROVE  /\ TodoShape' /\ Coming(todo') \subseteq Coming(todo)
         /\ todo[t] \in Seq(Op) /\ todo[t] # <<>> /\ Head(todo[t]) = op /\ todo'[t] = Tail(todo[t])
         /\ \A v \in Threads : v # t => todo'[v] = todo[v]
         /\ \A u \in AllSemas \cup Conds :
              op = <<"link", u>> => todo'[t] # <<>> /\ Head(todo'[t]) = <<"close", u>>
         /\ ~(\E u \in AllSemas \cup Conds : op = <<"link", u>>) => ~IsPush(todo'[t])
<1>1. /\ todo \in [Threads -> Seq(Op)] /\ todo[t] \in Seq(Op) /\ todo[t] # <<>> /\ Head(todo[t]) = op
      /\ todo' = [todo EXCEPT ![t] = Tail(todo[t])]
  BY DEF QInv, LockInv, SynchTypeOK, NextStep, Done, Then
<1>2. PICK q : q = todo[t]
  OBVIOUS
<1>3. q \in Seq(Op) /\ q # <<>> /\ Head(q) = op /\ StepsOK(q, t, holder)
  BY <1>1, <1>2 DEF TodoShape
<1>4. /\ StepsOK(Tail(q), t, holder)
      /\ \A u \in AllSemas \cup Conds :
           Head(q) = <<"link", u>> => Tail(q) # <<>> /\ Head(Tail(q)) = <<"close", u>>
      /\ ~(\E u \in AllSemas \cup Conds : Head(q) = <<"link", u>>) => ~IsPush(Tail(q))
  BY <1>3, TailSteps
<1>5. todo'[t] = Tail(q) /\ \A v \in Threads : v # t => todo'[v] = todo[v]
  BY <1>1, <1>2
<1>6. Coming(todo') \subseteq Coming(todo)
  BY <1>1, ComingTail
<1>7. TodoShape'
  BY <1>4, <1>5 DEF TodoShape
<1> QED
  BY <1>1, <1>2, <1>3, <1>4, <1>5, <1>6, <1>7

LEMMA NewProcessLists ==
  ASSUME QInv, QInv', ListInv, ~panic, NEW t \in Threads, NEW u \in Threads, NewProcess(t, u)
  PROVE  ListInv'
<1>1. PICK op : op = <<"process", u>>
  OBVIOUS
<1>2. NextStep(t, op) /\ Done(t) /\ UNCHANGED <<links, holder, tid, next_tid>>
  BY <1>1 DEF NewProcess, synch_vars
<1>3. /\ \A x \in AllSemas \cup Conds : op # <<"link", x>> /\ op # <<"close", x>>
      /\ \A l \in Locks : op # <<"own", l>>
  BY <1>1
<1>4. PtrOK /\ LockListsOK /\ TodoShape /\ TidOK
  BY DEF ListInv
<1>5. /\ TodoShape' /\ Coming(todo') \subseteq Coming(todo)
      /\ todo[t] \in Seq(Op) /\ todo[t] # <<>> /\ Head(todo[t]) = op
  BY <1>2, <1>3, <1>4, DoneShape
<1>6. u \in Coming(todo) /\ status[u] = "BLOCKED"
  <2>1. 1 \in DOMAIN todo[t] /\ todo[t][1] = op
    BY <1>5
  <2>2. Creates(todo, t, 1, u)
    BY <1>1, <2>1 DEF Creates
  <2>3. UnbornOK(status, waiters, todo) /\ 1 \in Nat
    BY QFacts DEF QueueOK
  <2> QED
    BY <2>2, <2>3 DEF UnbornOK, Coming
<1>7. CASE Unblock(<<u>>) /\ UNCHANGED faults
  <2>1. PICK us : us = <<u>>
    OBVIOUS
  <2>2. us \in Seq(Threads) /\ \A i \in DOMAIN us : us[i] = u
    BY <2>1
  <2>3. Alive' = Alive /\ ~panic'
    BY <1>6, <1>7, <2>1, <2>2, AliveUnblock
  <2>4. tid' \in [Threads -> Nat] /\ next_tid' \in Nat
    BY <1>2, <1>4 DEF TidOK
  <2> QED
    BY <1>2, <1>3, <1>7, <2>3, <2>4, DoneLists
<1>8. CASE status' = [status EXCEPT ![u] = "FREE"] /\ faults' = faults \cup {"no_process"} /\ panic' = panic
  <2>1. Alive' = Alive \ {u}
    BY <1>8, QFacts DEF Alive
  <2>2. SameAt(links', links, LockNodes)
    BY <1>2 DEF SameAt
  <2>3. \A l \in Locks : holder[l] \in Alive \ Coming(todo) => holder[l] \in Alive' \ Coming(todo')
    BY <1>5, <1>6, <2>1
  <2>4. LockListsOK'
    BY <1>2, <1>4, <1>8, <2>1, <2>2, <2>3, HeldKept
  <2>5. AllOK' /\ NoAssertFails'
    BY <1>8 DEF AllOK, NoAssertFails
  <2>6. PtrOK' /\ TidOK'
    BY <1>2, <1>4, <1>8 DEF PtrOK, TidOK
  <2> QED
    BY <1>5, <2>4, <2>5, <2>6 DEF ListInv
<1> QED
  BY <1>7, <1>8 DEF NewProcess

\* The two stores that end a push on all_list.
LEMMA LinkThreadLists ==
  ASSUME QInv, QInv', ListInv, ~panic, NEW t \in Threads, NEW u \in Threads, LinkThread(t, u)
  PROVE  ListInv'
<1>1. PICK a, b : a = <<"link", u>> /\ b = <<"close", u>>
  OBVIOUS
<1>2. PICK op \in {a, b} : NextStep(t, op) /\ links' = IF op = a THEN LinkElem(links, "all", u)
                                                          ELSE CloseElem(links, "all", u)
  BY <1>1 DEF LinkThread
<1>3. /\ Done(t) /\ UNCHANGED <<status, panic, holder, faults, tid, next_tid>>
  BY DEF LinkThread, synch_vars
<1>4. PtrOK /\ LockListsOK /\ AllOK /\ TodoShape /\ TidOK /\ u \in AllSemas \cup Conds
  BY Names DEF ListInv
<1>5. \A l \in Locks : op # <<"own", l>>
  BY <1>1, <1>2
<1>6. /\ TodoShape' /\ Coming(todo') \subseteq Coming(todo)
      /\ todo[t] \in Seq(Op) /\ todo[t] # <<>> /\ Head(todo[t]) = op
      /\ \A v \in Threads : v # t => todo'[v] = todo[v]
      /\ op = a => todo'[t] # <<>> /\ Head(todo'[t]) = b
      /\ op = b => ~IsPush(todo'[t])
  <2>1. /\ TodoShape' /\ Coming(todo') \subseteq Coming(todo)
        /\ todo[t] \in Seq(Op) /\ todo[t] # <<>> /\ Head(todo[t]) = op
        /\ \A v \in Threads : v # t => todo'[v] = todo[v]
        /\ \A x \in AllSemas \cup Conds :
             op = <<"link", x>> => todo'[t] # <<>> /\ Head(todo'[t]) = <<"close", x>>
        /\ ~(\E x \in AllSemas \cup Conds : op = <<"link", x>>) => ~IsPush(todo'[t])
    BY <1>2, <1>3, <1>4, <1>5, DoneShape
  <2>2. op = b => ~(\E x \in AllSemas \cup Conds : op = <<"link", x>>)
    BY <1>1
  <2> QED
    BY <1>1, <1>4, <2>1, <2>2
<1>7. links' \in Links /\ Closed(links', AllNodes) /\ SameAt(links', links, LockNodes)
  <2>1. /\ links \in Links /\ Closed(links, AllNodes) /\ AllNodes \in SUBSET Nodes /\ u \in AllNodes /\ u \in Nodes
        /\ "all" \in Lists /\ list_tail("all") \in AllNodes /\ LockNodes = Nodes \ AllNodes
    BY <1>4, NodeSets DEF PtrOK
  <2>2. PICK x, y : x = LinkElem(links, "all", u) /\ y = CloseElem(links, "all", u)
    OBVIOUS
  <2>3. /\ x \in Links /\ Closed(x, AllNodes) /\ SameAt(x, links, LockNodes)
        /\ y \in Links /\ Closed(y, AllNodes) /\ SameAt(y, links, LockNodes)
    BY ONLY <2>1, <2>2, LinkIs, CloseIs, LinkClosed
  <2> QED
    BY <1>2, <2>2, <2>3
<1>8. PtrOK' /\ TidOK' /\ NoAssertFails'
  BY <1>3, <1>4, <1>7, NodeSets DEF PtrOK, TidOK, NoAssertFails, SameAt, Closed
<1>9. Alive' = Alive
  BY <1>3 DEF Alive
<1>10. LockListsOK'
  BY <1>3, <1>4, <1>6, <1>7, <1>9, HeldKept
<1>11. AllOK'
  <2> SUFFICES ASSUME faults \cap {"overlap", "no_process"} = {}
               PROVE  /\ \A v, w \in Pushing' : v = w
                      /\ \A ls \in Links : EndsAs(ls)' =>
                           \E xs \in Seq(Elems) : /\ Chained(ls, "all", xs)
                                                  /\ \A e \in Elems : In(e, xs) <=> e \in Alive
    BY <1>3, <1>9 DEF AllOK
  <2>1. /\ \A v, w \in Pushing : v = w
        /\ \A ls \in Links : EndsAs(ls) =>
             \E xs \in Seq(Elems) : Chained(ls, "all", xs) /\ \A e \in Elems : In(e, xs) <=> e \in Alive
    BY <1>4 DEF AllOK
  <2>2. Pushing = {v \in Threads : IsPush(todo[v])} /\ Pushing' = {v \in Threads : IsPush(todo'[v])}
    BY PushingIs DEF Pushing, QInv, LockInv, SynchTypeOK
  <2>3. IsPush(todo[t])
    BY <1>1, <1>2, <1>4, <1>6 DEF IsPush
  <2>4. \A v \in Threads : v # t => ~IsPush(todo[v]) /\ ~IsPush(todo'[v])
    BY <1>6, <2>1, <2>2, <2>3
  <2>5. \A v \in Pushing' : v = t
    BY <2>2, <2>4
  <2>6. ASSUME NEW v \in Threads, NEW w \in Threads, Next1(v, <<"link", w>>)' \/ Next1(v, <<"close", w>>)'
        PROVE  v = t /\ op = a /\ w = u /\ ~Next1(v, <<"link", w>>)'
    <3>1. IsPush(todo'[v])
      BY <2>6, Names DEF IsPush, Next1
    <3>2. v = t /\ op = a
      BY <1>2, <1>6, <2>4, <3>1
    <3> QED
      BY <1>1, <1>6, <2>6, <3>2 DEF Next1
  <2>7. ASSUME NEW ls \in Links, EndsAs(ls)' PROVE EndsAs(ls)
    <3>1. CASE op = a
      <4>1. t \in Pushing'
        BY <1>1, <1>4, <1>6, <2>2, <3>1 DEF IsPush
      <4>2. ls = CloseElem(links', "all", u)
        BY <2>6, <2>7, <4>1 DEF EndsAs
      <4>3. ls = CloseElem(LinkElem(links, "all", u), "all", u) /\ Next1(t, <<"link", u>>)
        BY <1>1, <1>2, <1>6, <3>1, <4>2 DEF Next1
      <4> QED
        BY <4>3 DEF EndsAs
    <3>2. CASE op = b
      <4>1. op # a
        BY <1>1, <3>2
      <4>2. ls = links'
        BY <2>6, <2>7, <4>1 DEF EndsAs
      <4>3. ls = CloseElem(links, "all", u) /\ Next1(t, <<"close", u>>)
        BY <1>1, <1>2, <1>6, <3>2, <4>1, <4>2 DEF Next1
      <4> QED
        BY <4>3 DEF EndsAs
    <3> QED
      BY <1>2, <3>1, <3>2
  <2> QED
    BY <2>1, <2>5, <2>7
<1> QED
  BY <1>6, <1>8, <1>10, <1>11 DEF ListInv

-----------------------------------------------------------------------------

\* The steps of thread_create after it has begun its push.
CreateOps(u) == << <<"link", u>>, <<"close", u>> >> \o allocate_tid(u) \o << <<"process", u>> >>

LEMMA CreateSteps ==
  ASSUME NEW t \in Threads, NEW u \in Threads, NEW hd, NEW q, q = CreateOps(u)
  PROVE  /\ StepsOK(q, t, hd) /\ q # <<>> /\ Head(q) = <<"link", u>>
         /\ \A i \in DOMAIN q, v \in Threads : q[i] = <<"process", v>> => v = u
<1>1. PICK a, b, d, o, x, y, r, p, z :
        /\ a = <<"link", u>> /\ b = <<"close", u>> /\ d = <<"down", tid_lock>> /\ o = <<"own", tid_lock>>
        /\ x = <<"tid", u>> /\ y = <<"count", u>> /\ r = <<"disown", tid_lock>> /\ p = <<"up", tid_lock>>
        /\ z = <<"process", u>>
  OBVIOUS
<1>2. q = <<a, b>> \o ((<<d, o>> \o <<x, y>>) \o <<r, p>>) \o <<z>>
  BY <1>1 DEF CreateOps, allocate_tid, lock_acquire, lock_release
<1>3. PICK c : c = (<<d, o>> \o <<x, y>>) \o <<r, p>>
  OBVIOUS
<1>4. c \in Seq({d, o, x, y, r, p}) /\ DOMAIN c = 1 .. 6 /\ Len(c) = 6
      /\ c[1] = d /\ c[2] = o /\ c[3] = x /\ c[4] = y /\ c[5] = r /\ c[6] = p
  BY <1>3
<1>5. PICK e : e = <<a, b>> \o c
  OBVIOUS
<1>6. /\ DOMAIN q = 1 .. 9 /\ q[1] = a /\ q[2] = b /\ q[3] = d /\ q[4] = o /\ q[5] = x /\ q[6] = y
      /\ q[7] = r /\ q[8] = p /\ q[9] = z /\ q # <<>> /\ Head(q) = q[1]
  <2>1. PICK S : S = {a, b, d, o, x, y, r, p, z}
    OBVIOUS
  <2>2. PICK f, g : f = <<a, b>> /\ g = <<z>>
    OBVIOUS
  <2>3. f \in Seq(S) /\ g \in Seq(S) /\ Len(f) = 2 /\ Len(g) = 1 /\ f[1] = a /\ f[2] = b /\ g[1] = z
    BY <2>1, <2>2
  <2>4. c \in Seq(S) /\ Len(c) = 6
    <3>1. {d, o, x, y, r, p} \subseteq S
      BY <2>1
    <3> QED
      BY ONLY <1>4, <3>1
  <2>5. e = f \o c /\ q = e \o g
    BY <1>2, <1>3, <1>5, <2>2
  <2>6. /\ e \in Seq(S) /\ Len(e) = Len(f) + Len(c)
        /\ \A i \in 1 .. Len(f) : e[i] = f[i]
        /\ \A i \in 1 .. Len(c) : e[Len(f) + i] = c[i]
    <3>1. f \in Seq(S) /\ c \in Seq(S) /\ e = f \o c
      BY ONLY <2>3, <2>4, <2>5
    <3>2. e \in Seq(S) /\ Len(e) = Len(f) + Len(c)
      BY ONLY <3>1
    <3>3. \A i \in 1 .. Len(f) : e[i] = f[i]
      BY ONLY <3>1
    <3>4. \A i \in 1 .. Len(c) : e[Len(f) + i] = c[i]
      BY ONLY <3>1
    <3> QED
      BY <3>2, <3>3, <3>4
  <2>7. /\ q \in Seq(S) /\ Len(q) = Len(e) + Len(g)
        /\ \A i \in 1 .. Len(e) : q[i] = e[i]
        /\ \A i \in 1 .. Len(g) : q[Len(e) + i] = g[i]
    <3>1. e \in Seq(S) /\ g \in Seq(S) /\ q = e \o g
      BY ONLY <2>3, <2>5, <2>6
    <3>2. q \in Seq(S) /\ Len(q) = Len(e) + Len(g)
      BY ONLY <3>1
    <3>3. \A i \in 1 .. Len(e) : q[i] = e[i]
      BY ONLY <3>1
    <3>4. \A i \in 1 .. Len(g) : q[Len(e) + i] = g[i]
      BY ONLY <3>1
    <3> QED
      BY <3>2, <3>3, <3>4
  <2>8. Len(e) = 8 /\ Len(q) = 9
    BY ONLY <2>3, <2>4, <2>6, <2>7
  <2>9. e[1] = a /\ e[2] = b /\ e[3] = c[1] /\ e[4] = c[2] /\ e[5] = c[3] /\ e[6] = c[4] /\ e[7] = c[5] /\ e[8] = c[6]
    <3>1. \A i \in 1 .. 6 : e[2 + i] = c[i]
      BY ONLY <2>3, <2>4, <2>6
    <3>2. e[2 + 1] = c[1] /\ e[2 + 2] = c[2] /\ e[2 + 3] = c[3] /\ e[2 + 4] = c[4] /\ e[2 + 5] = c[5] /\ e[2 + 6] = c[6]
      BY ONLY <3>1
    <3> QED
      BY ONLY <2>3, <2>6, <3>2
  <2>10. q[9] = z
    <3>1. q[8 + 1] = g[1]
      BY ONLY <2>3, <2>7, <2>8
    <3> QED
      BY ONLY <2>3, <3>1
  <2>11. \A i \in 1 .. 8 : q[i] = e[i]
    BY ONLY <2>7, <2>8
  <2>12. DOMAIN q = 1 .. 9 /\ q # <<>> /\ Head(q) = q[1]
    <3>1. q \in Seq(S) /\ Len(q) = 9
      BY ONLY <2>7, <2>8
    <3>2. DOMAIN q = 1 .. 9
      BY ONLY <3>1
    <3>3. q # <<>>
      <4>1. DOMAIN <<>> = {} /\ 1 \in DOMAIN q
        BY <3>2
      <4> QED
        BY ONLY <4>1
    <3>4. Head(q) = q[1]
      BY ONLY <3>1
    <3> QED
      BY <3>2, <3>3, <3>4
  <2> QED
    BY ONLY <1>4, <2>9, <2>10, <2>11, <2>12
<1>a. \A i \in 1 .. 9 : i = 1 \/ i = 2 \/ i = 3 \/ i = 4 \/ i = 5 \/ i = 6 \/ i = 7 \/ i = 8 \/ i = 9
  OBVIOUS
<1>b. \A i \in DOMAIN q : i \in Nat /\ (i = 1 \/ i = 2 \/ i = 7 \/ q[i] \in {d, o, x, y, p, z})
  <2>1. ASSUME NEW i \in 1 .. 9 PROVE i = 1 \/ i = 2 \/ i = 7 \/ q[i] \in {d, o, x, y, p, z}
    BY ONLY <1>6, <1>a, <2>1
  <2> QED
    BY <1>6, <2>1
<1>7. \A op \in {d, o, x, y, p, z} : /\ \A v \in AllSemas \cup Conds : op # <<"link", v>> /\ op # <<"close", v>>
                                     /\ \A l \in Locks : op # <<"disown", l>>
  BY <1>1
<1>8. ASSUME NEW i \in DOMAIN q, NEW v \in AllSemas \cup Conds
      PROVE  /\ q[i] = <<"link", v>> => i = 1 /\ 2 \in DOMAIN q /\ q[2] = <<"close", v>>
             /\ q[i] = <<"close", v>> => i = 1 \/ (i = 2 /\ q[1] = <<"link", v>>)
  <2>1. CASE i \in {1, 2, 7}
    BY ONLY <1>1, <1>6, <2>1
  <2>2. CASE i \notin {1, 2, 7}
    BY <1>b, <1>7, <2>2
  <2> QED
    BY <2>1, <2>2
<1>9. ASSUME NEW i \in DOMAIN q, NEW l \in Locks, q[i] = <<"disown", l>>
      PROVE  /\ \E j \in DOMAIN q : j < i /\ q[j] = <<"own", l>>
             /\ \A j \in DOMAIN q, m \in Locks : q[j] = <<"disown", m>> => j = i
  <2>1. ASSUME NEW j \in DOMAIN q, NEW m \in Locks, q[j] = <<"disown", m>> PROVE j = 7
    <3>1. CASE j \in {1, 2}
      BY ONLY <1>1, <1>6, <2>1, <3>1
    <3>2. CASE j \notin {1, 2, 7}
      BY <1>b, <1>7, <2>1, <3>2
    <3> QED
      BY <3>1, <3>2
  <2>2. i = 7 /\ l = tid_lock
    <3>1. i = 7
      BY <1>9, <2>1
    <3> QED
      BY ONLY <1>1, <1>6, <1>9, <3>1
  <2>3. 4 \in DOMAIN q /\ 4 < i /\ q[4] = <<"own", l>>
    BY ONLY <1>1, <1>6, <2>2
  <2> QED
    BY <2>1, <2>2, <2>3
<1>10. StepsOK(q, t, hd)
  BY <1>8, <1>9 DEF StepsOK
<1>11. ASSUME NEW i \in DOMAIN q, NEW v \in Threads, q[i] = <<"process", v>> PROVE v = u
  <2>1. q[i] \in {a, b, r, d, o, x, y, p, z}
    BY <1>6, <1>b
  <2> QED
    BY ONLY <1>1, <1>11, <2>1
<1> QED
  BY <1>1, <1>6, <1>10, <1>11

\* The pointers that thread_create leaves before it links u into all_list.
LEMMA ClearedIs ==
  ASSUME PtrOK, NEW u \in Threads, NEW ls, ls = Cleared(u), NEW ls2, ls2 = PointElem(ls, "all", u)
  PROVE  /\ ls \in Links /\ ls2 \in Links
         /\ SameAt(ls, links, Nodes \ {u, list_head(u), list_tail(u)})
         /\ SameAt(ls2, ls, Nodes \ {u})
         /\ ls2.next[list_head(u)] = list_tail(u) /\ ls2.prev[list_tail(u)] = list_head(u)
         /\ Closed(ls2, AllNodes) /\ Closed(ls2, LockNodes)
<1>0. /\ links \in Links /\ Closed(links, AllNodes) /\ Closed(links, LockNodes)
      /\ u \in AllNodes /\ u \in Nodes /\ u \in Lists /\ list_head(u) \in LockNodes /\ list_tail(u) \in LockNodes
      /\ "all" \in Lists /\ list_tail("all") \in AllNodes /\ AllNodes \cap LockNodes = {}
      /\ AllNodes \subseteq Nodes /\ LockNodes \subseteq Nodes
      /\ list_head(u) # list_tail(u)
  BY NodeSets, Sentinels DEF PtrOK
<1>1. /\ ls \in Links
      /\ \A n \in Nodes :
           /\ ls.next[n] = IF n = list_tail(u) THEN None ELSE IF n = list_head(u) THEN list_tail(u)
                           ELSE IF n = u THEN None ELSE links.next[n]
           /\ ls.prev[n] = IF n = list_head(u) THEN None ELSE IF n = list_tail(u) THEN list_head(u)
                           ELSE IF n = u THEN None ELSE links.prev[n]
  BY <1>0 DEF Cleared, Links
<1>2. /\ ls2 \in Links
      /\ \A n \in Nodes : /\ ls2.next[n] = IF n = u THEN list_tail("all") ELSE ls.next[n]
                          /\ ls2.prev[n] = IF n = u THEN ls.prev[list_tail("all")] ELSE ls.prev[n]
  <2>1. /\ PointElem(ls, "all", u) \in Links
        /\ \A n \in Nodes :
             /\ PointElem(ls, "all", u).next[n] = IF n = u THEN list_tail("all") ELSE ls.next[n]
             /\ PointElem(ls, "all", u).prev[n] = IF n = u THEN ls.prev[list_tail("all")] ELSE ls.prev[n]
    BY ONLY <1>0, <1>1, PointIs
  <2> QED
    BY <2>1
<1>3. SameAt(ls, links, Nodes \ {u, list_head(u), list_tail(u)}) /\ SameAt(ls2, ls, Nodes \ {u})
  BY <1>1, <1>2 DEF SameAt
<1>4. list_head(u) # u /\ list_tail(u) # u
  BY <1>0
<1>5. ls2.next[list_head(u)] = list_tail(u) /\ ls2.prev[list_tail(u)] = list_head(u)
  BY <1>0, <1>1, <1>2, <1>4
<1>6. ASSUME NEW n \in AllNodes PROVE ls2.next[n] \in AllNodes \cup {None} /\ ls2.prev[n] \in AllNodes \cup {None}
  <2>1. n \in Nodes /\ n # list_head(u) /\ n # list_tail(u) /\ list_tail("all") \in Nodes
        /\ list_tail("all") # list_head(u) /\ list_tail("all") # list_tail(u)
    BY <1>0
  <2>2. ls.next[n] \in AllNodes \cup {None} /\ ls.prev[n] \in AllNodes \cup {None}
        /\ ls.prev[list_tail("all")] \in AllNodes \cup {None}
    BY <1>0, <1>1, <2>1 DEF Closed
  <2> QED
    BY <1>0, <1>2, <2>1, <2>2
<1>7. ASSUME NEW n \in LockNodes PROVE ls2.next[n] \in LockNodes \cup {None} /\ ls2.prev[n] \in LockNodes \cup {None}
  <2>1. n \in Nodes /\ n # u
    BY <1>0
  <2>2. ls.next[n] \in LockNodes \cup {None} /\ ls.prev[n] \in LockNodes \cup {None}
    BY <1>0, <1>1, <2>1 DEF Closed
  <2> QED
    BY <1>2, <2>1, <2>2
<1> QED
  BY <1>1, <1>2, <1>3, <1>5, <1>6, <1>7 DEF Closed

LEMMA CreateLists ==
  ASSUME QInv, QInv', ListInv, ~panic, NEW t \in Threads, Create(t)
  PROVE  ListInv'
<1>1. PICK u \in Threads :
        /\ status[u] = "FREE" /\ status' = [status EXCEPT ![u] = "BLOCKED"]
        /\ tid' = [tid EXCEPT ![u] = 0] /\ links' = PointElem(Cleared(u), "all", u)
        /\ Then(t, << <<"link", u>>, <<"close", u>> >> \o allocate_tid(u) \o << <<"process", u>> >>)
  BY DEF Create
<1>2. /\ InProgram(t) /\ todo[t] = <<>> /\ faults' = Overlapping(t) /\ holder' = holder /\ next_tid' = next_tid /\ ~panic'
  BY DEF Create, synch_vars, InProgram
<1>3. PtrOK /\ LockListsOK /\ AllOK /\ TodoShape /\ TidOK
  BY DEF ListInv
<1>4. PICK q : q = CreateOps(u)
  OBVIOUS
<1>5. /\ StepsOK(q, t, holder) /\ q # <<>> /\ Head(q) = <<"link", u>>
      /\ \A i \in DOMAIN q, v \in Threads : q[i] = <<"process", v>> => v = u
  <2>1. PICK hd : hd = holder
    OBVIOUS
  <2>2. /\ StepsOK(q, t, hd) /\ q # <<>> /\ Head(q) = <<"link", u>>
        /\ \A i \in DOMAIN q, v \in Threads : q[i] = <<"process", v>> => v = u
    BY ONLY <1>4, t \in Threads, u \in Threads, CreateSteps
  <2> QED
    BY <2>1, <2>2
<1>6. todo \in [Threads -> Seq(Op)] /\ todo' \in [Threads -> Seq(Op)] /\ todo' = [todo EXCEPT ![t] = q]
  BY <1>1, <1>4 DEF QInv, LockInv, SynchTypeOK, Then, CreateOps
<1>7. todo'[t] = q /\ \A v \in Threads : v # t => todo'[v] = todo[v]
  BY <1>6
<1>8. Alive' = Alive \cup {u} /\ u \notin Alive /\ u # None
  BY <1>1, QFacts, ThreadConstants DEF Alive
<1>9. Coming(todo') \subseteq Coming(todo) \cup {u}
  BY <1>5, <1>7 DEF Coming, Creates
<1>10. PICK ls : ls = Cleared(u)
  OBVIOUS
<1>11. /\ ls \in Links /\ links' \in Links /\ links \in Links
       /\ SameAt(ls, links, Nodes \ {u, list_head(u), list_tail(u)})
       /\ SameAt(links', ls, Nodes \ {u})
       /\ links'.next[list_head(u)] = list_tail(u) /\ links'.prev[list_tail(u)] = list_head(u)
       /\ Closed(links', AllNodes) /\ Closed(links', LockNodes)
  BY <1>1, <1>3, <1>10, ClearedIs DEF PtrOK
<1>12. PtrOK' /\ NoAssertFails'
  BY <1>2, <1>11 DEF PtrOK, NoAssertFails
<1>13. TidOK'
  BY <1>1, <1>2, <1>3 DEF TidOK, Overlapping
<1>14. TodoShape'
  BY <1>2, <1>3, <1>5, <1>7 DEF TodoShape
<1>15. LockListsOK'
  <2>1. CASE "misfiled" \in faults'
    BY <2>1 DEF LockListsOK
  <2>2. CASE "misfiled" \notin faults'
    <3>0. "misfiled" \notin faults
      BY <1>2, <2>2 DEF Overlapping
    <3>1. /\ \A v \in Alive : \E xs \in Seq(Elems) :
               Chained(links, v, xs) /\ \A e \in Elems : In(e, xs) <=> e \in Locks /\ holder[e] = v
          /\ \A m \in Locks : holder[m] \in (Alive \ Coming(todo)) \cup {None}
      BY <1>3, <3>0 DEF LockListsOK
    <3>2. \A m \in Locks : holder[m] # u /\ holder[m] \in (Alive' \ Coming(todo')) \cup {None}
      BY <1>8, <1>9, <3>1
    <3>3. ASSUME NEW v \in Alive
          PROVE  \E ys \in Seq(Elems) :
                   Chained(links', v, ys) /\ \A e \in Elems : In(e, ys) <=> e \in Locks /\ holder[e] = v
      <4>1. PICK ys \in Seq(Elems) :
              Chained(links, v, ys) /\ \A e \in Elems : In(e, ys) <=> e \in Locks /\ holder[e] = v
        BY <3>1
      <4>2. v \in Threads /\ v \in Lists /\ u \in Lists /\ v # u /\ u \in Threads
        BY <1>8, NodeSets DEF Alive
      <4>3. /\ list_head(u) \notin Spot(v, ys) /\ list_tail(u) \notin Spot(v, ys)
        BY <4>2, Sentinels DEF Spot
      <4>4. u \notin Spot(v, ys)
        <5>1. u \in Elems /\ u \notin Locks
          BY <4>2, NodeSets
        <5>2. ~In(u, ys) /\ u # list_head(v) /\ u # list_tail(v)
          BY <4>1, <4>2, <5>1, Sentinels
        <5> QED
          BY <5>2 DEF Spot
      <4>5. SameAt(links', links, Spot(v, ys))
        BY <1>11, <4>2, <4>3, <4>4, SpotIs DEF SameAt
      <4>6. Chained(links', v, ys)
        BY <4>1, <4>2, <4>5, ChainFrame
      <4> QED
        BY <4>1, <4>6
    <3>4. /\ <<>> \in Seq(Elems) /\ Chained(links', u, <<>>) /\ \A e : ~In(e, <<>>)
      BY <1>11, EmptyChain
    <3>5. \A e \in Elems : In(e, <<>>) <=> e \in Locks /\ holder[e] = u
      BY <3>2, <3>4
    <3>6. \A v \in Alive' : \E ys \in Seq(Elems) :
            Chained(links', v, ys) /\ \A e \in Elems : In(e, ys) <=> e \in Locks /\ holder[e] = v
      BY <1>8, <3>3, <3>4, <3>5
    <3> QED
      BY <1>2, <3>2, <3>6 DEF LockListsOK
  <2> QED
    BY <2>1, <2>2
<1>16. AllOK'
  <2> SUFFICES ASSUME faults' \cap {"overlap", "no_process"} = {}
               PROVE  /\ \A v, w \in Pushing' : v = w
                      /\ \A l2 \in Links : EndsAs(l2)' =>
                           \E xs \in Seq(Elems) : /\ Chained(l2, "all", xs)
                                                  /\ \A e \in Elems : In(e, xs) <=> e \in Alive'
    BY DEF AllOK
  <2>1. Pushing = {v \in Threads : IsPush(todo[v])} /\ Pushing' = {v \in Threads : IsPush(todo'[v])}
    BY <1>6, PushingIs DEF Pushing
  <2>2. t \notin Pushing
    BY <1>2 DEF Pushing
  <2>3. Pushing = {} /\ faults \cap {"overlap", "no_process"} = {}
    BY <1>2, <2>2 DEF Overlapping
  <2>4. IsPush(todo'[t])
    BY <1>5, <1>7, Names DEF IsPush
  <2>5. \A v \in Threads : v # t => ~IsPush(todo'[v])
    BY <1>7, <2>1, <2>3
  <2>6. Pushing' = {t}
    BY <2>1, <2>4, <2>5
  <2>7. PICK xs \in Seq(Elems) : Chained(links, "all", xs) /\ \A e \in Elems : In(e, xs) <=> e \in Alive
    BY <1>3, <1>11, <2>3 DEF AllOK, EndsAs
  <2>8. u \in Elems /\ "all" \in Lists /\ u # "all" /\ ~In(u, xs) /\ u \in Lists
    BY <1>8, <2>7, NodeSets
  <2>9. /\ list_head(u) \notin Spot("all", xs) /\ list_tail(u) \notin Spot("all", xs) /\ u \notin Spot("all", xs)
    BY <2>8, Sentinels DEF Spot
  <2>10. SameAt(ls, links, Spot("all", xs))
    BY <1>11, <2>8, <2>9, SpotIs DEF SameAt
  <2>11. Chained(ls, "all", xs)
    BY <2>7, <2>8, <2>10, ChainFrame
  <2>12. PICK l3 : l3 = list_push_back(ls, "all", u)
    OBVIOUS
  <2>13. /\ Append(xs, u) \in Seq(Elems) /\ Chained(l3, "all", Append(xs, u))
         /\ \A x : In(x, Append(xs, u)) <=> In(x, xs) \/ x = u
    BY <1>11, <2>8, <2>11, <2>12, ChainPush
  <2>14. ASSUME NEW v \in Threads, NEW w \in Threads, Next1(v, <<"link", w>>)' \/ Next1(v, <<"close", w>>)'
         PROVE  w = u /\ ~Next1(v, <<"close", w>>)'
    <3>1. IsPush(todo'[v])
      BY <2>14, Names DEF IsPush, Next1
    <3>2. v = t
      BY <2>5, <3>1
    <3> QED
      BY <1>5, <1>7, <2>14, <3>2 DEF Next1
  <2>15. ASSUME NEW l2 \in Links, EndsAs(l2)' PROVE l2 = l3
    <3>1. l2 = CloseElem(LinkElem(links', "all", u), "all", u)
      BY <2>6, <2>14, <2>15 DEF EndsAs
    <3> QED
      BY <1>1, <1>10, <2>12, <3>1 DEF list_push_back
  <2> QED
    BY <1>8, <2>6, <2>7, <2>13, <2>15
<1> QED
  BY <1>12, <1>13, <1>14, <1>15, <1>16 DEF ListInv

-----------------------------------------------------------------------------

\* A sequence of distinct members of a finite set is no longer than the set.
LEMMA DistinctShort ==
  ASSUME NEW S, IsFiniteSet(S), NEW E, NEW xs \in Seq(E), Distinct(xs), \A i \in DOMAIN xs : xs[i] \in S
  PROVE  Len(xs) <= Cardinality(S) /\ Cardinality(S) \in Nat /\ Len(xs) \in Nat
<1>1. PICK n : n = Len(xs)
  OBVIOUS
<1>2. n \in Nat /\ DOMAIN xs = 1 .. n
  BY <1>1
<1>3. PICK f : f = [i \in 1 .. n |-> xs[i]]
  OBVIOUS
<1>4. f \in Injection(1 .. n, S)
  BY <1>2, <1>3 DEF Injection, IsInjective, Distinct
<1>5. Cardinality(1 .. n) <= Cardinality(S)
  BY <1>4, FS_Injection
<1>6. Cardinality(1 .. n) = n
  BY <1>2, FS_Interval
<1> QED
  BY <1>1, <1>2, <1>5, <1>6, FS_CardinalityType

\* release_locks finds the locks of t, and nothing else, if its lock_list holds
\* them.
LEMMA ReleasesAll ==
  ASSUME links \in Links, NEW t \in Threads, NEW xs \in Seq(Elems), Chained(links, t, xs),
         \A e \in Elems : In(e, xs) <=> e \in Locks /\ holder[e] = t
  PROVE  release_locks(t) = {xs}
<1>1. t \in Lists
  BY NodeSets
<1>2. PICK n, node, k : n = Cardinality(Locks) /\ node = Walk(links, t, n + 1) /\ k = Len(xs)
  OBVIOUS
<1>3. k \in Nat /\ n \in Nat /\ k <= n /\ DOMAIN xs = 1 .. k /\ \A i \in 1 .. k : xs[i] \in Locks /\ holder[xs[i]] = t
  <2>1. \A i \in DOMAIN xs : xs[i] \in Locks /\ holder[xs[i]] = t
    <3>1. \A i \in DOMAIN xs : xs[i] \in Elems /\ In(xs[i], xs)
      BY DEF In
    <3> QED
      BY <3>1
  <2>2. IsFiniteSet(Locks) /\ Distinct(xs)
    BY NodesApart DEF Chained
  <2> QED
    BY <1>2, <2>1, <2>2, DistinctShort
<1>4. \A i \in 0 .. k + 1 : node[i] = Stand(t, xs, i)
  <2>1. n + 1 \in Nat /\ n + 1 > Len(xs)
    BY <1>2, <1>3
  <2> QED
    BY <1>1, <1>2, <2>1, WalkIs
<1>5. /\ node[k + 1] = list_tail(t) /\ \A i \in 1 .. k : node[i] = xs[i]
      /\ list_tail(t) \notin Locks
  <2>1. \A i \in 1 .. k : i \in 0 .. k + 1
    BY <1>3
  <2>2. k + 1 \in 0 .. k + 1
    BY <1>3
  <2> QED
    BY <1>1, <1>2, <1>4, <2>1, <2>2, StandIs, Sentinels DEF Elems
<1>6. [i \in 1 .. k |-> node[i]] = xs
  BY <1>3, <1>5
<1>7. \A i, j \in 1 .. k : node[i] = node[j] => i = j
  BY <1>3, <1>5 DEF Chained, Distinct
<1> DEFINE Right(m) == /\ node[m + 1] = list_tail(t)
                       /\ \A i \in 1 .. m : /\ node[i] \in Locks /\ holder[node[i]] = t
                                            /\ \A j \in 1 .. m : node[i] = node[j] => i = j
<1>8. k \in 0 .. n /\ Right(k)
  BY <1>3, <1>5, <1>7
<1>9. ASSUME NEW m \in 0 .. n, Right(m) PROVE m = k
  <2>1. CASE m < k
    <3>1. m + 1 \in 1 .. k
      BY <1>3, <2>1
    <3>2. node[m + 1] \in Locks
      BY <1>3, <1>5, <3>1
    <3> QED
      BY <1>5, <1>9, <3>2
  <2>2. CASE m > k
    <3>1. k + 1 \in 1 .. m
      BY <1>3, <2>2
    <3> QED
      BY <1>5, <1>9, <3>1
  <2> QED
    BY <1>3, <2>1, <2>2
<1>10. release_locks(t) = {[i \in 1 .. m |-> node[i]] : m \in {m \in 0 .. n : Right(m)}}
  BY <1>2 DEF release_locks, Releasable
<1>11. {m \in 0 .. n : Right(m)} = {k}
  BY <1>8, <1>9
<1>12. {[i \in 1 .. m |-> node[i]] : m \in {k}} = {[i \in 1 .. k |-> node[i]]}
  OBVIOUS
<1> QED
  BY <1>6, <1>10, <1>11, <1>12

\* The locks of t have left its lock_list one after the other.
LEMMA ReleasedLinks ==
  ASSUME PtrOK, NEW t \in Threads, NEW ls \in Seq(Locks), NEW done,
         done = FoldLeft(list_remove, links, ls)
  PROVE  /\ done \in Links /\ Closed(done, LockNodes) /\ SameAt(done, links, AllNodes)
         /\ ls \in Seq(Elems) /\ Chained(links, t, ls) => SameAt(done, links, Nodes \ Spot(t, ls))
<1>0. /\ links \in Links /\ Closed(links, LockNodes) /\ Nodes \ LockNodes = AllNodes /\ AllNodes \subseteq Nodes
      /\ LockNodes \in SUBSET Nodes /\ t \in Lists /\ Locks \subseteq LockNodes /\ Locks \subseteq Nodes
  BY NodeSets DEF PtrOK
<1>1. PICK n \in Nat : n = Len(ls) /\ DOMAIN ls = 1 .. n
  OBVIOUS
<1>2. done \in Links /\ Closed(done, LockNodes) /\ SameAt(done, links, AllNodes)
  <2> DEFINE Good == [i \in 0 .. n |->
                       {x \in Links : Closed(x, LockNodes) /\ SameAt(x, links, AllNodes)}]
  <2>1. links \in Good[0]
    BY <1>0, <1>1 DEF SameAt
  <2>2. ASSUME NEW i \in 1 .. n, NEW x \in Good[i - 1] PROVE list_remove(x, ls[i]) \in Good[i]
    <3>1. i - 1 \in 0 .. n /\ i \in 0 .. n /\ ls[i] \in Locks
      BY <1>1
    <3>2. x \in Links /\ Closed(x, LockNodes) /\ SameAt(x, links, AllNodes)
      BY <3>1
    <3>3. PICK y : y = list_remove(x, ls[i])
      OBVIOUS
    <3>4. ls[i] \in Nodes /\ ls[i] \in LockNodes
      BY <1>0, <3>1
    <3>5. y \in Links /\ Closed(y, LockNodes) /\ SameAt(y, x, AllNodes)
      BY ONLY <1>0, <3>2, <3>3, <3>4, RemoveIs, RemoveClosed
    <3>6. SameAt(y, links, AllNodes)
      BY <3>2, <3>5 DEF SameAt
    <3> QED
      BY <3>1, <3>3, <3>5, <3>6
  <2>3. FoldLeft(list_remove, links, ls) \in Good[Len(ls)]
    <3> HIDE DEF Good
    <3> QED
      BY <1>1, <2>1, <2>2, FoldReaches
  <2>4. done \in Good[n] /\ n \in 0 .. n
    BY <1>1, <2>3
  <2> QED
    BY <2>4
<1>3. ASSUME ls \in Seq(Elems), Chained(links, t, ls) PROVE SameAt(done, links, Nodes \ Spot(t, ls))
  <2> DEFINE Good == [i \in 0 .. n |->
        {x \in Links : /\ SameAt(x, links, Nodes \ Spot(t, ls))
                       /\ \E ys \in Seq(Elems) : /\ Chained(x, t, ys) /\ Len(ys) = n - i
                                                 /\ \A j \in 1 .. n - i : ys[j] = ls[i + j]}]
  <2>1. links \in Good[0]
    <3>1. SameAt(links, links, Nodes \ Spot(t, ls))
      BY DEF SameAt
    <3>2. Len(ls) = n - 0 /\ \A j \in 1 .. n - 0 : ls[j] = ls[0 + j]
      BY <1>1
    <3>3. \E ys \in Seq(Elems) : /\ Chained(links, t, ys) /\ Len(ys) = n - 0
                                 /\ \A j \in 1 .. n - 0 : ys[j] = ls[0 + j]
      BY <1>3, <3>2
    <3>4. 0 \in 0 .. n
      BY <1>1
    <3> QED
      BY <1>0, <3>1, <3>3, <3>4
  <2>2. ASSUME NEW i \in 1 .. n, NEW x \in Good[i - 1] PROVE list_remove(x, ls[i]) \in Good[i]
    <3>1. i - 1 \in 0 .. n /\ i \in 0 .. n /\ ls[i] \in Locks /\ i \in Nat
      BY <1>1
    <3>2. x \in Links /\ SameAt(x, links, Nodes \ Spot(t, ls))
      BY <3>1
    <3>3. PICK ys \in Seq(Elems) : /\ Chained(x, t, ys) /\ Len(ys) = n - (i - 1)
                                   /\ \A j \in 1 .. n - (i - 1) : ys[j] = ls[(i - 1) + j]
      BY <3>1
    <3>4. 1 \in 1 .. n - (i - 1) /\ DOMAIN ys = 1 .. n - (i - 1)
      BY <1>1, <3>3
    <3>5. ys[1] = ls[i] /\ Head(ys) = ys[1] /\ In(ls[i], ys)
      <4>1. ys[1] = ls[(i - 1) + 1] /\ (i - 1) + 1 = i
        BY <3>1, <3>3, <3>4
      <4>2. Head(ys) = ys[1]
        BY <3>4
      <4> QED
        BY <3>4, <4>1, <4>2 DEF In
    <3>6. PICK y : y = list_remove(x, ls[i])
      OBVIOUS
    <3>7. PICK e : e = ls[i]
      OBVIOUS
    <3>8. /\ \E zs \in Seq(Elems) : /\ Chained(list_remove(x, e), t, zs)
                                    /\ \A v : In(v, zs) <=> In(v, ys) /\ v # e
                                    /\ e = Head(ys) => /\ Len(zs) = Len(ys) - 1
                                                       /\ \A j \in 1 .. Len(zs) : zs[j] = ys[j + 1]
          /\ SameAt(list_remove(x, e), x, Nodes \ Spot(t, ys))
      <4>1. x \in Links /\ t \in Lists /\ ys \in Seq(Elems) /\ Chained(x, t, ys) /\ In(e, ys)
        BY <1>0, <3>2, <3>3, <3>5, <3>7
      <4> QED
        BY ONLY <4>1, ChainRemove
    <3>9. PICK zs \in Seq(Elems) : /\ Chained(y, t, zs) /\ Len(zs) = Len(ys) - 1
                                   /\ \A j \in 1 .. Len(zs) : zs[j] = ys[j + 1]
      BY <3>5, <3>6, <3>7, <3>8
    <3>10. Len(zs) = n - i /\ \A j \in 1 .. n - i : zs[j] = ls[i + j]
      <4>1. Len(zs) = n - i
        BY <1>1, <3>1, <3>3, <3>9
      <4>2. ASSUME NEW j \in 1 .. n - i PROVE zs[j] = ls[i + j]
        <5>1. zs[j] = ys[j + 1] /\ j + 1 \in 1 .. n - (i - 1) /\ (i - 1) + (j + 1) = i + j
          BY <1>1, <3>1, <3>9, <4>1
        <5> QED
          BY <3>3, <5>1
      <4> QED
        BY <4>1, <4>2
    <3>11. Spot(t, ys) \subseteq Spot(t, ls)
      <4>1. ASSUME NEW j \in DOMAIN ys PROVE \E m \in DOMAIN ls : ls[m] = ys[j]
        <5>1. ys[j] = ls[(i - 1) + j] /\ (i - 1) + j \in 1 .. n
          BY <1>1, <3>1, <3>3, <3>4
        <5> QED
          BY <1>1, <5>1
      <4> QED
        BY <4>1 DEF Spot, In
    <3>12. SameAt(y, links, Nodes \ Spot(t, ls))
      BY <3>2, <3>6, <3>7, <3>8, <3>11 DEF SameAt
    <3>13. y \in Links
      BY <1>0, <3>1, <3>2, <3>6, RemoveIs
    <3>14. y \in {a \in Links : /\ SameAt(a, links, Nodes \ Spot(t, ls))
                                /\ \E bs \in Seq(Elems) : /\ Chained(a, t, bs) /\ Len(bs) = n - i
                                                          /\ \A j \in 1 .. n - i : bs[j] = ls[i + j]}
      BY <3>9, <3>10, <3>12, <3>13
    <3> QED
      BY <3>1, <3>6, <3>14
  <2>3. FoldLeft(list_remove, links, ls) \in Good[Len(ls)]
    <3> HIDE DEF Good
    <3> QED
      BY <1>1, <2>1, <2>2, FoldReaches
  <2>4. done \in Good[n] /\ n \in 0 .. n
    BY <1>1, <2>3
  <2> QED
    BY <2>4
<1> QED
  BY <1>2, <1>3

-----------------------------------------------------------------------------

\* An assertion fails in release_locks only after a lock_try_acquire has failed.
LEMMA ExitPanicLists ==
  ASSUME QInv, ListInv, ~panic, NEW t \in Threads, running = t, release_locks(t) = {},
         UNCHANGED <<status, holder, links, faults, todo, tid, next_tid>>
  PROVE  ListInv'
<1>1. PtrOK /\ LockListsOK /\ AllOK /\ TodoShape /\ TidOK
  BY DEF ListInv
<1>2. t \in Alive
  BY RunnerLives
<1>3. "misfiled" \in faults
  <2> SUFFICES ASSUME "misfiled" \notin faults PROVE FALSE
    OBVIOUS
  <2>1. PICK xs \in Seq(Elems) :
          Chained(links, t, xs) /\ \A e \in Elems : In(e, xs) <=> e \in Locks /\ holder[e] = t
    BY <1>1, <1>2 DEF LockListsOK
  <2>2. release_locks(t) = {xs}
    BY <1>1, <2>1, ReleasesAll DEF PtrOK
  <2> QED
    BY <2>2
<1>4. NoAssertFails' /\ LockListsOK'
  BY <1>3 DEF NoAssertFails, LockListsOK
<1>5. Alive' = Alive /\ SamePushes
  BY DEF Alive, SamePushes, Pushing, Next1
<1>6. AllOK'
  BY <1>1, <1>5, AllKept DEF PtrOK, SameAt
<1>7. PtrOK' /\ TodoShape' /\ TidOK'
  BY <1>1 DEF PtrOK, TodoShape, TidOK
<1> QED
  BY <1>4, <1>6, <1>7 DEF ListInv

\* A thread dies.
LEMMA ExitAlive ==
  ASSUME QInv, NEW t \in Threads, InProgram(t), NEW ls \in release_locks(t), NEW us \in Woken(ls), Up(ToSet(ls)),
         Schedule(t, "DYING", [u \in Threads |-> IF u \in ToSet(us) THEN "READY" ELSE status[u]],
                  ready_list \o us)
  PROVE  Alive' = Alive \ {t} /\ panic' = panic
<1>1. /\ us \in Seq(Threads) /\ Distinct(us)
      /\ \A u \in Threads :
           In(u, us) <=> \E s \in AllSemas : s \in ToSet(ls) /\ waiters[s] # <<>> /\ u = Head(waiters[s])
  BY WokenAll
<1>2. RestOK /\ QueueOK(status, ready_list, waiters, todo, idle_thread) /\ ready_list \in Seq(Threads)
      /\ status \in [Threads -> Statuses] /\ running = t /\ status[t] = "RUNNING" /\ todo[t] = <<>>
  BY QFacts DEF InProgram
<1>3. \A i \in DOMAIN us : status[us[i]] = "BLOCKED" /\ us[i] \in Threads
  <2>1. \A i \in DOMAIN us : status[us[i]] = "BLOCKED"
    <3>1. RestOK /\ QueueOK(status, ready_list, waiters, todo, idle_thread) /\ Up(ToSet(ls))
      BY <1>2
    <3> QED
      BY ONLY <1>1, <3>1, UpOK
  <2> QED
    BY <1>1, <2>1
<1>4. PICK q, sts : /\ q = ready_list \o us
                    /\ sts = [u \in Threads |-> IF u \in ToSet(us) THEN "READY" ELSE status[u]]
  OBVIOUS
<1>5. /\ q \in Seq(Threads)
      /\ \A i \in DOMAIN q : (\E j \in DOMAIN ready_list : q[i] = ready_list[j]) \/ \E j \in DOMAIN us : q[i] = us[j]
      /\ ready_list # <<>> => q # <<>>
  <2>1. q \in Seq(Threads)
    BY <1>1, <1>2, <1>4
  <2>2. PICK m, n : m = Len(ready_list) /\ n = Len(us)
    OBVIOUS
  <2>3. /\ m \in Nat /\ n \in Nat /\ DOMAIN q = 1 .. m + n /\ DOMAIN ready_list = 1 .. m /\ DOMAIN us = 1 .. n
        /\ \A i \in 1 .. m + n : q[i] = IF i <= m THEN ready_list[i] ELSE us[i - m]
    BY <1>1, <1>2, <1>4, <2>2
  <2>4. ASSUME NEW i \in DOMAIN q
        PROVE  (\E j \in DOMAIN ready_list : q[i] = ready_list[j]) \/ \E j \in DOMAIN us : q[i] = us[j]
    <3>1. CASE i <= m
      BY <2>3, <3>1
    <3>2. CASE ~(i <= m)
      <4>1. i - m \in DOMAIN us
        BY <2>3, <3>2
      <4> QED
        BY <2>3, <3>2, <4>1
    <3> QED
      BY <3>1, <3>2
  <2>5. ready_list # <<>> => 1 \in DOMAIN q
    <3>1. ready_list # <<>> => 1 \in DOMAIN ready_list
      BY <1>2
    <3> QED
      BY <2>3, <3>1
  <2>6. DOMAIN <<>> = {}
    OBVIOUS
  <2> QED
    BY <2>1, <2>4, <2>5, <2>6
<1>6. \A i \in DOMAIN ready_list : status[ready_list[i]] = "READY" /\ ready_list[i] \in Threads
  <2>1. \A i \in DOMAIN ready_list : ready_list[i] \in Threads
    BY <1>2
  <2> QED
    BY <1>2, <2>1 DEF QueueOK, ReadyOK, In
<1>7. \A u \in Threads : (u \in ToSet(us) => status[u] = "BLOCKED")
  BY <1>3 DEF ToSet
<1>8. /\ sts \in [Threads -> Statuses]
      /\ \A u \in Threads : sts[u] \in {"FREE", "DYING"} <=> status[u] \in {"FREE", "DYING"}
  BY <1>2, <1>4, <1>7 DEF Statuses
<1>9. \A i \in DOMAIN q : q[i] \in Threads /\ status[q[i]] \in {"READY", "BLOCKED"}
  BY <1>3, <1>5, <1>6
<1>10. \A i \in DOMAIN q : sts[q[i]] \notin {"FREE", "DYING"} /\ q[i] # t
  BY <1>2, <1>8, <1>9
<1>11. t # idle_thread /\ (q # <<>> \/ idle_thread # None)
  <2>1. t # first_idle
    BY <1>2, IdleBusy DEF QueueOK
  <2>2. idle_thread # None => idle_thread = first_idle
    BY <1>2 DEF QueueOK, IdleOK
  <2>3. idle_thread = None => ready_list # <<>>
    BY <1>2, SomeReady
  <2> QED
    BY <1>5, <2>1, <2>2, <2>3, ThreadConstants
<1>12. PICK st : st = "DYING"
  OBVIOUS
<1>13. /\ Schedule(t, st, sts, q) /\ st \in Statuses /\ st # "FREE" /\ status[t] = "RUNNING"
       /\ sts \in [Threads -> Statuses] /\ q \in Seq(Threads) /\ (q # <<>> \/ idle_thread # None)
  BY <1>2, <1>4, <1>5, <1>8, <1>11, <1>12 DEF Statuses
<1>14. /\ \A u \in Threads : sts[u] \in {"FREE", "DYING"} <=> status[u] \in {"FREE", "DYING"}
       /\ \A i \in DOMAIN q : sts[q[i]] \notin {"FREE", "DYING"}
       /\ st = "DYING" => t # idle_thread /\ \A i \in DOMAIN q : q[i] # t
  BY <1>8, <1>10, <1>11
<1>15. Alive' = (IF st = "DYING" THEN Alive \ {t} ELSE Alive) /\ panic' = panic
  BY ONLY QInv, t \in Threads, <1>13, <1>14, AliveSwitch
<1> QED
  BY <1>12, <1>15

LEMMA ExitLists ==
  ASSUME QInv, QInv', ListInv, ~panic, NEW t \in Threads, Exit(t)
  PROVE  ListInv'
<1>1. InProgram(t) /\ running = t /\ todo[t] = <<>> /\ UNCHANGED <<todo, tid, next_tid>>
  BY DEF Exit, InProgram
<1>2. CASE release_locks(t) = {} /\ UNCHANGED <<status, holder, links, faults>>
  BY <1>1, <1>2, ExitPanicLists
<1>3. ASSUME NEW ls \in release_locks(t), NEW us \in Woken(ls), Up(ToSet(ls)),
             holder' = [l \in Locks |-> IF l \in ToSet(ls) THEN None ELSE holder[l]],
             links' = Unlisted(ls, t), faults' = Overlapping(t),
             Schedule(t, "DYING", [u \in Threads |-> IF u \in ToSet(us) THEN "READY" ELSE status[u]],
                      ready_list \o us)
      PROVE  ListInv'
  <2>1. PtrOK /\ LockListsOK /\ AllOK /\ TodoShape /\ TidOK
    BY DEF ListInv
  <2>2. Alive' = Alive \ {t} /\ ~panic'
    BY <1>1, <1>3, ExitAlive
  <2>3. ls \in Seq(Locks) /\ \A l \in ToSet(ls) : l \in Locks /\ holder[l] = t
    <3>1. PICK k \in 0 .. Cardinality(Locks) :
            \E node : ls = [i \in 1 .. k |-> node[i]] /\ \A i \in 1 .. k : node[i] \in Locks
      BY DEF release_locks, Releasable
    <3>2. k \in Nat
      BY <3>1
    <3>3. ls \in Seq(Locks)
      BY <3>1, <3>2
    <3> QED
      BY <1>3, <3>3, ReleasedTypes
  <2>4. PICK done : done = FoldLeft(list_remove, links, ls)
    OBVIOUS
  <2>5. /\ done \in Links /\ Closed(done, LockNodes) /\ SameAt(done, links, AllNodes)
        /\ ls \in Seq(Elems) /\ Chained(links, t, ls) => SameAt(done, links, Nodes \ Spot(t, ls))
    BY <2>1, <2>3, <2>4, ReleasedLinks
  <2>6. /\ links' = list_remove(done, t) /\ t \in AllNodes /\ t \in Nodes /\ AllNodes \in SUBSET Nodes
        /\ Nodes \ AllNodes = LockNodes /\ t \in Lists /\ "all" \in Lists
    BY <1>3, <2>4, NodeSets DEF Unlisted
  <2>7. Closed(done, AllNodes)
    BY <2>1, <2>5 DEF PtrOK, Closed, SameAt
  <2>8. links' \in Links /\ Closed(links', AllNodes) /\ SameAt(links', done, LockNodes)
    <3>1. PICK y : y = list_remove(done, t)
      OBVIOUS
    <3>2. y \in Links /\ Closed(y, AllNodes) /\ SameAt(y, done, LockNodes)
      BY ONLY <2>5, <2>6, <2>7, <3>1, RemoveIs, RemoveClosed
    <3> QED
      BY <2>6, <3>1, <3>2
  <2>9. PtrOK'
    BY <2>5, <2>8 DEF PtrOK, Closed, SameAt
  <2>10. \A l \in Locks : holder'[l] = IF l \in ToSet(ls) THEN None ELSE holder[l]
    BY <1>3
  <2>11. TodoShape'
    <3>1. ASSUME NEW v \in Threads PROVE StepsOK(todo[v], v, holder')
      <4>1. CASE v = t
        <5>1. DOMAIN todo[v] = {}
          BY <1>1, <4>1
        <5> QED
          BY <5>1 DEF StepsOK
      <4>2. CASE v # t
        <5>1. \A l \in Locks : holder[l] = v => holder'[l] = v
          BY <2>3, <2>10, <4>2
        <5>2. StepsOK(todo[v], v, holder)
          BY <2>1 DEF TodoShape
        <5> QED
          BY <5>1, <5>2, OtherSteps
      <4> QED
        BY <4>1, <4>2
    <3> QED
      BY <1>1, <3>1 DEF TodoShape
  <2>12. LockListsOK'
    <3>1. CASE "misfiled" \in faults'
      BY <3>1 DEF LockListsOK
    <3>2. CASE "misfiled" \notin faults'
      <4>0. "misfiled" \notin faults
        BY <1>3, <3>2 DEF Overlapping
      <4>1. /\ \A v \in Alive : \E xs \in Seq(Elems) :
                 Chained(links, v, xs) /\ \A e \in Elems : In(e, xs) <=> e \in Locks /\ holder[e] = v
            /\ \A m \in Locks : holder[m] \in (Alive \ Coming(todo)) \cup {None}
        BY <2>1, <4>0 DEF LockListsOK
      <4>2. t \in Alive /\ t # None
        BY <1>1, RunnerLives, ThreadConstants
      <4>3. PICK xs \in Seq(Elems) :
              Chained(links, t, xs) /\ \A e \in Elems : In(e, xs) <=> e \in Locks /\ holder[e] = t
        BY <4>1, <4>2
      <4>4. ls = xs
        BY <1>3, <2>1, <4>3, ReleasesAll DEF PtrOK
      <4>5. SameAt(done, links, Nodes \ Spot(t, xs))
        BY <2>5, <4>3, <4>4
      <4>6. \A l \in Locks : l \in ToSet(ls) <=> holder[l] = t
        <5>1. \A l \in Locks : l \in ToSet(ls) <=> In(l, xs)
          BY <4>4 DEF ToSet, In
        <5> QED
          BY <4>3, <5>1 DEF Elems
      <4>7. \A m \in Locks : holder'[m] \in (Alive' \ Coming(todo')) \cup {None}
        BY <1>1, <2>2, <2>10, <4>1, <4>6
      <4>8. ASSUME NEW v \in Alive'
            PROVE  \E ys \in Seq(Elems) :
                     Chained(links', v, ys) /\ \A e \in Elems : In(e, ys) <=> e \in Locks /\ holder'[e] = v
        <5>1. v \in Alive /\ v # t /\ v \in Threads /\ v \in Lists /\ v # None
          BY <2>2, NodeSets, ThreadConstants DEF Alive
        <5>2. PICK ys \in Seq(Elems) :
                Chained(links, v, ys) /\ \A e \in Elems : In(e, ys) <=> e \in Locks /\ holder[e] = v
          BY <4>1, <5>1
        <5>3. Spot(t, xs) \cap Spot(v, ys) = {}
          BY <2>6, <4>3, <5>1, <5>2, SpotsApart
        <5>4. Spot(v, ys) \subseteq LockNodes /\ LockNodes \subseteq Nodes
          BY <5>1, <5>2, NodeSets DEF Spot
        <5>5. SameAt(links', links, Spot(v, ys))
          BY <2>8, <4>5, <5>3, <5>4 DEF SameAt
        <5>6. Chained(links', v, ys)
          BY <5>1, <5>2, <5>5, ChainFrame
        <5>7. \A e \in Locks : holder[e] = v <=> holder'[e] = v
          BY <2>3, <2>10, <5>1
        <5> QED
          BY <5>2, <5>6, <5>7
      <4> QED
        BY <4>7, <4>8 DEF LockListsOK
    <3> QED
      BY <3>1, <3>2
  <2>13. AllOK'
    <3> SUFFICES ASSUME faults' \cap {"overlap", "no_process"} = {}
                 PROVE  /\ \A v, w \in Pushing' : v = w
                        /\ \A l2 \in Links : EndsAs(l2)' =>
                             \E xs \in Seq(Elems) : /\ Chained(l2, "all", xs)
                                                    /\ \A e \in Elems : In(e, xs) <=> e \in Alive'
      BY DEF AllOK
    <3>1. t \notin Pushing
      BY <1>1 DEF Pushing
    <3>2. Pushing = {} /\ faults \cap {"overlap", "no_process"} = {}
      BY <1>3, <3>1 DEF Overlapping
    <3>3. Pushing' = {}
      BY <1>1, <3>2 DEF Pushing
    <3>4. PICK zs \in Seq(Elems) : Chained(links, "all", zs) /\ \A e \in Elems : In(e, zs) <=> e \in Alive
      BY <2>1, <3>2 DEF AllOK, EndsAs, PtrOK
    <3>5. Spot("all", zs) \subseteq AllNodes
      BY <3>4, NodeSets DEF Spot, Alive
    <3>6. SameAt(done, links, Spot("all", zs))
      BY <2>5, <3>5 DEF SameAt
    <3>7. Chained(done, "all", zs)
      BY <2>6, <3>4, <3>6, ChainFrame
    <3>8. In(t, zs)
      BY <1>1, <3>4, RunnerLives, NodeSets
    <3>9. /\ \E ys \in Seq(Elems) : /\ Chained(list_remove(done, t), "all", ys)
                                    /\ \A v : In(v, ys) <=> In(v, zs) /\ v # t
                                    /\ t = Head(zs) => /\ Len(ys) = Len(zs) - 1
                                                       /\ \A j \in 1 .. Len(ys) : ys[j] = zs[j + 1]
          /\ SameAt(list_remove(done, t), done, Nodes \ Spot("all", zs))
      <4>1. done \in Links /\ "all" \in Lists /\ zs \in Seq(Elems) /\ Chained(done, "all", zs) /\ In(t, zs)
        BY <2>5, <2>6, <3>7, <3>8
      <4> QED
        BY ONLY <4>1, ChainRemove
    <3>10. PICK ys \in Seq(Elems) : Chained(links', "all", ys) /\ \A v : In(v, ys) <=> In(v, zs) /\ v # t
      BY <2>6, <3>9
    <3>11. \A e \in Elems : In(e, ys) <=> e \in Alive'
      BY <2>2, <3>4, <3>10
    <3>12. ASSUME NEW l2 \in Links, EndsAs(l2)' PROVE l2 = links'
      <4>1. todo \in [Threads -> Seq(Op)] /\ todo' = todo
        BY <1>1, QFacts
      <4>2. \A v \in Threads : ~IsPush(todo'[v])
        BY <3>2, <4>1, PushingIs DEF Pushing
      <4>3. \A v, w \in Threads : ~Next1(v, <<"link", w>>)' /\ ~Next1(v, <<"close", w>>)'
        BY <4>2, Names DEF IsPush, Next1
      <4> QED
        BY <3>12, <4>3 DEF EndsAs
    <3> QED
      BY <3>3, <3>10, <3>11, <3>12
  <2>14. TidOK' /\ NoAssertFails'
    BY <1>1, <1>3, <2>1, <2>2 DEF TidOK, NoAssertFails, Overlapping
  <2> QED
    BY <2>9, <2>11, <2>12, <2>13, <2>14 DEF ListInv
<1> QED
  BY <1>1, <1>2, <1>3 DEF Exit

-----------------------------------------------------------------------------

LEMMA ListStart == Init => ListInv
<1> SUFFICES ASSUME Init PROVE ListInv
  OBVIOUS
<1>1. PICK a, b, c, d : a = <<"down", "idle_started">> /\ b = <<"start">>
                     /\ c = <<"up", "idle_started">> /\ d = <<"idle">>
  OBVIOUS
<1>2. ASSUME NEW op \in {a, b, c, d}
      PROVE  /\ \A u \in AllSemas \cup Conds : op # <<"link", u>> /\ op # <<"close", u>>
             /\ \A l \in Locks : op # <<"disown", l>>
  BY <1>1
<1>3. ASSUME NEW t \in Threads PROVE \A i \in DOMAIN todo[t] : todo[t][i] \in {a, b, c, d}
  <2>1. todo[t] \in {<<a>>, <<b, c, d>>, <<>>}
    <3>1. todo[t] = CASE t = initial_thread -> <<a>> [] t = first_idle -> <<b, c, d>> [] OTHER -> <<>>
      BY <1>1 DEF Init, ThreadInit
    <3> QED
      BY <3>1, ThreadConstants
  <2>2. CASE todo[t] = <<a>>
    BY <2>2
  <2>3. CASE todo[t] = <<b, c, d>>
    BY <2>3
  <2>4. CASE todo[t] = <<>>
    BY <2>4
  <2> QED
    BY <2>1, <2>2, <2>3, <2>4
<1>4. todo \in [Threads -> Seq(Op)]
  BY LocksStart DEF LockInv, SynchTypeOK
<1>5. TodoShape
  <2>1. ASSUME NEW t \in Threads PROVE StepsOK(todo[t], t, holder)
    BY <1>2, <1>3, MildSteps
  <2> QED
    BY <2>1 DEF TodoShape
<1>6. ASSUME NEW t \in Threads PROVE ~IsPush(todo[t])
  <2>1. todo[t] # <<>> => 1 \in DOMAIN todo[t] /\ Head(todo[t]) = todo[t][1]
    BY <1>4
  <2> QED
    BY <1>2, <1>3, <2>1 DEF IsPush
<1>7. Pushing = {}
  BY <1>4, <1>6, PushingIs DEF Pushing
<1>8. Alive = {initial_thread, first_idle}
  BY ThreadConstants DEF Alive, Init, ThreadInit
<1>9. PICK empty :
        empty = [next |-> [n \in Nodes |-> IF n \in Heads THEN list_tail(n[2]) ELSE None],
                 prev |-> [n \in Nodes |-> IF n \in Tails THEN list_head(n[2]) ELSE None]]
  OBVIOUS
<1>10. \A q \in Lists : list_head(q) \in Heads /\ list_head(q)[2] = q
                     /\ list_tail(q) \in Tails /\ list_tail(q)[2] = q
  BY DEF Heads, Tails, list_head, list_tail
<1>11. /\ \A n \in Nodes : empty.next[n] = IF n \in Heads THEN list_tail(n[2]) ELSE None
       /\ \A n \in Nodes : empty.prev[n] = IF n \in Tails THEN list_head(n[2]) ELSE None
  BY <1>9
<1>12. \A q \in Lists : empty.next[list_head(q)] = list_tail(q) /\ empty.prev[list_tail(q)] = list_head(q)
  BY <1>10, <1>11, Sentinels
<1>13. ASSUME NEW ns \in {AllNodes, LockNodes}, NEW n \in ns
       PROVE  empty.next[n] \in ns \cup {None} /\ empty.prev[n] \in ns \cup {None}
  <2>1. n \in Nodes
    BY NodeSets
  <2>2. ASSUME n \in Heads PROVE empty.next[n] \in ns
    <3>1. PICK q \in Lists : n = list_head(q)
      BY <2>2 DEF Heads
    <3>2. empty.next[n] = list_tail(q)
      BY <1>12, <3>1
    <3> QED
      BY <3>1, <3>2, NodeSets DEF Lists
  <2>3. ASSUME n \in Tails PROVE empty.prev[n] \in ns
    <3>1. PICK q \in Lists : n = list_tail(q)
      BY <2>3 DEF Tails
    <3>2. empty.prev[n] = list_head(q)
      BY <1>12, <3>1
    <3> QED
      BY <3>1, <3>2, NodeSets DEF Lists
  <2> QED
    BY <1>11, <2>1, <2>2, <2>3
<1>14. empty \in Links /\ Closed(empty, AllNodes) /\ Closed(empty, LockNodes)
  <2>1. Closed(empty, AllNodes) /\ Closed(empty, LockNodes)
    BY <1>13 DEF Closed
  <2>2. \A n \in Nodes : empty.next[n] \in Nodes \cup {None} /\ empty.prev[n] \in Nodes \cup {None}
    BY <2>1, NodeSets DEF Closed
  <2> QED
    BY <1>9, <2>1, <2>2 DEF Links
<1>15. PICK one : one = list_push_back(empty, "all", initial_thread)
  OBVIOUS
<1>16. links = list_push_back(one, "all", first_idle)
  BY <1>9, <1>15 DEF Init, LinksInit
<1>17. /\ "all" \in Lists /\ AllNodes \in SUBSET Nodes /\ list_tail("all") \in AllNodes
       /\ \A t \in {initial_thread, first_idle} : t \in AllNodes \cap Elems /\ t \in Elems
       /\ Nodes \ AllNodes = LockNodes
  BY NodeSets, ThreadConstants
<1>18. one \in Links /\ Closed(one, AllNodes) /\ SameAt(one, empty, LockNodes)
  BY <1>14, <1>15, <1>17, PushIs, PushClosed
<1>19. links \in Links /\ Closed(links, AllNodes) /\ SameAt(links, one, LockNodes)
  BY <1>16, <1>17, <1>18, PushIs, PushClosed
<1>20. SameAt(links, empty, LockNodes)
  BY <1>18, <1>19 DEF SameAt
<1>21. PtrOK
  BY <1>14, <1>19, <1>20 DEF PtrOK, Closed, SameAt
<1>22. LockListsOK
  <2>1. \A l \in Locks : holder[l] = None
    BY DEF Init, SynchInit
  <2>2. ASSUME NEW t \in Alive
        PROVE  \E xs \in Seq(Elems) :
                 Chained(links, t, xs) /\ \A e \in Elems : In(e, xs) <=> e \in Locks /\ holder[e] = t
    <3>1. t \in Threads /\ t \in Lists /\ t # None /\ list_head(t) \in LockNodes /\ list_tail(t) \in LockNodes
      BY NodeSets DEF Alive
    <3>2. links.next[list_head(t)] = list_tail(t) /\ links.prev[list_tail(t)] = list_head(t)
      BY <1>12, <1>20, <3>1 DEF SameAt
    <3>3. <<>> \in Seq(Elems) /\ Chained(links, t, <<>>) /\ \A e : ~In(e, <<>>)
      BY <3>2, EmptyChain
    <3>4. \A e \in Elems : In(e, <<>>) <=> e \in Locks /\ holder[e] = t
      BY <2>1, <3>1, <3>3
    <3> QED
      BY <3>3, <3>4
  <2> QED
    BY <2>1, <2>2 DEF LockListsOK
<1>23. AllOK
  <2>1. <<>> \in Seq(Elems) /\ Chained(empty, "all", <<>>) /\ \A e : ~In(e, <<>>)
    BY <1>12, <1>17, EmptyChain
  <2>2. PICK xs \in Seq(Elems) : Chained(one, "all", xs) /\ \A e : In(e, xs) <=> e = initial_thread
    <3>1. /\ Append(<<>>, initial_thread) \in Seq(Elems)
          /\ Chained(one, "all", Append(<<>>, initial_thread))
          /\ \A e : In(e, Append(<<>>, initial_thread)) <=> In(e, <<>>) \/ e = initial_thread
      BY <1>14, <1>15, <1>17, <2>1, ChainPush
    <3> QED
      BY <2>1, <3>1
  <2>3. /\ Append(xs, first_idle) \in Seq(Elems)
        /\ Chained(links, "all", Append(xs, first_idle))
        /\ \A e : In(e, Append(xs, first_idle)) <=> In(e, xs) \/ e = first_idle
    BY <1>16, <1>17, <1>18, <2>2, ChainPush, ThreadConstants
  <2>4. \A e : In(e, Append(xs, first_idle)) <=> e \in Alive
    BY <1>8, <2>2, <2>3
  <2>5. ASSUME NEW ls \in Links, EndsAs(ls) PROVE ls = links
    <3>1. \A t, u \in Threads : ~Next1(t, <<"link", u>>) /\ ~Next1(t, <<"close", u>>)
      BY <1>6, Names DEF IsPush, Next1
    <3> QED
      BY <2>5, <3>1 DEF EndsAs
  <2> QED
    BY <1>7, <2>3, <2>4, <2>5 DEF AllOK
<1>24. TidOK /\ NoAssertFails
  <2>1. tid = [t \in Threads |-> CASE t = initial_thread -> 1 [] t = first_idle -> 2 [] OTHER -> 0]
        /\ next_tid = 3 /\ faults = {} /\ panic = FALSE
    BY DEF Init, ThreadInit
  <2> QED
    BY <2>1 DEF TidOK, NoAssertFails
<1> QED
  BY <1>5, <1>21, <1>22, <1>23, <1>24 DEF ListInv

LEMMA StillLists ==
  ASSUME ListInv, UNCHANGED vars
  PROVE  ListInv'
<1>1. UNCHANGED <<links, holder, faults, todo, status, tid, next_tid, panic>>
  BY DEF vars, thread_vars, synch_vars
<1>2. Alive' = Alive /\ Pushing' = Pushing /\ SamePushes
  BY <1>1 DEF Alive, Pushing, SamePushes, Next1
<1>3. PtrOK' /\ LockListsOK' /\ TodoShape' /\ TidOK' /\ NoAssertFails'
  BY <1>1, <1>2 DEF ListInv, PtrOK, LockListsOK, TodoShape, TidOK, NoAssertFails
<1>4. AllOK'
  BY <1>1, <1>2, <1>3, AllKept DEF ListInv, PtrOK, SameAt
<1> QED
  BY <1>3, <1>4 DEF ListInv

LEMMA ListStep == QInv /\ ListInv /\ [Next]_vars => QInv' /\ ListInv'
<1> SUFFICES ASSUME QInv, ListInv, [Next]_vars PROVE QInv' /\ ListInv'
  OBVIOUS
<1>1. QInv'
  BY LocksStep, QueueStep DEF QInv
<1>2. ASSUME ~panic, NEW t \in Threads, KernelStep(t) PROVE ListInv'
  <2>1. CASE UNCHANGED <<tid, next_tid>> /\ \E s \in AllSemas : Down(t, s) \/ SemaUp(t, s)
    BY <1>1, <1>2, <2>1, DownLists, SemaUpLists
  <2>2. CASE UNCHANGED <<tid, next_tid>> /\ LockStep(t)
    BY <1>1, <1>2, <2>2, OwnLists, DisownLists, MisfileLists DEF LockStep
  <2>3. CASE UNCHANGED <<tid, next_tid>> /\ CondStep(t)
    BY <1>1, <1>2, <2>3, CondStepLists
  <2>4. CASE CreateStep(t)
    BY <1>1, <1>2, <2>4, LinkThreadLists, CountLists, NewProcessLists DEF CreateStep
  <2>5. CASE StartIdle(t) /\ UNCHANGED <<synch_vars, links, faults, tid, next_tid>>
    BY <1>1, <1>2, <2>5, SwitchLists
  <2> QED
    BY <1>2, <2>1, <2>2, <2>3, <2>4, <2>5 DEF KernelStep
<1>3. ASSUME ~panic, NEW t \in Threads, Idle(t) \/ Yield(t) PROVE ListInv'
  BY <1>1, <1>3, SwitchLists DEF Idle, Yield
<1>4. ASSUME ~panic, NEW t \in Threads, Call(t) PROVE ListInv'
  <2>1. CASE Create(t) \/ Exit(t)
    BY <1>1, <1>4, <2>1, CreateLists, ExitLists
  <2>2. CASE ~(Create(t) \/ Exit(t))
    <3>1. /\ UNCHANGED <<tid, next_tid>>
          /\ \/ \E s \in Semas : CallDown(t, s) \/ CallUp(t, s)
             \/ \E l \in Locks : Acquire(t, l) \/ Release(t, l) \/ TryAcquire(t, l)
             \/ \E c \in Conds : CondWait(t, c) \/ CondSignal(t, c) \/ CondBroadcast(t, c)
      BY <1>4, <2>2 DEF Call
    <3> QED
      BY <1>1, <1>4, <3>1, ClientLists
  <2> QED
    BY <2>1, <2>2
<1> QED
  BY <1>1, <1>2, <1>3, <1>4, StillLists DEF Next

LEMMA ListsInductive == Spec => [](QInv /\ ListInv)
<1>1. Init => QInv /\ ListInv
  BY LocksStart, QueueStart, ListStart DEF QInv
<1> QED
  BY <1>1, ListStep, PTL DEF Spec

-----------------------------------------------------------------------------

\* Every variable of the threads, the scheduler and the synchronisation of
\* Project 3 (thread.c, synch.c) keeps its type, every pointer of a list leads
\* to a node or is NULL included.
THEOREM ThreadTypesKept == Spec => []ThreadsTypeOK
<1>1. ASSUME QInv, ListInv PROVE ThreadsTypeOK
  <2>1. RestOK /\ todo \in [Threads -> Seq(Op)] /\ QueueOK(status, ready_list, waiters, todo, idle_thread)
    BY <1>1, QFacts
  <2>2. idle_thread \in {None, first_idle}
    BY <2>1 DEF QueueOK, IdleOK
  <2> QED
    BY <1>1, <2>1, <2>2 DEF RestOK, ListInv, PtrOK, Links, TidOK, ThreadsTypeOK
<1> QED
  BY <1>1, ListsInductive, PTL

\* No assertion of thread.c or synch.c fails unless lock_try_acquire has put a
\* lock that it did not get into a second lock_list.
THEOREM AssertionsHold == Spec => []NoAssertFails
<1>1. ListInv => NoAssertFails
  BY DEF ListInv
<1> QED
  BY <1>1, ListsInductive, PTL

\* As long as no lock_try_acquire has failed, the lock_list of a living thread
\* (lock_acquire, lock_release, release_locks) holds the locks that the thread
\* holds, forwards and backwards, and a thread that has died holds none.
THEOREM LockListsRight == Spec => []LockListRight
<1>1. ASSUME QInv, ListInv PROVE LockListRight
  <2> SUFFICES ASSUME "misfiled" \notin faults
               PROVE  /\ \A t \in Alive : Holds(links, t, {l \in Locks : holder[l] = t}, Cardinality(Locks))
                      /\ \A l \in Locks : holder[l] \in Alive \cup {None}
    BY DEF LockListRight
  <2>1. /\ \A t \in Alive : \E xs \in Seq(Elems) :
             Chained(links, t, xs) /\ \A e \in Elems : In(e, xs) <=> e \in Locks /\ holder[e] = t
        /\ \A l \in Locks : holder[l] \in Alive \cup {None}
        /\ links \in Links
    BY <1>1 DEF ListInv, LockListsOK, PtrOK
  <2>2. ASSUME NEW t \in Alive
        PROVE  Holds(links, t, {l \in Locks : holder[l] = t}, Cardinality(Locks))
    <3>1. PICK xs \in Seq(Elems) :
            Chained(links, t, xs) /\ \A e \in Elems : In(e, xs) <=> e \in Locks /\ holder[e] = t
      BY <2>1
    <3>2. \A i \in DOMAIN xs : xs[i] \in Elems /\ xs[i] \in Locks
      BY <3>1 DEF In
    <3>3. Len(xs) <= Cardinality(Locks) /\ Cardinality(Locks) \in Nat
      BY <3>1, <3>2, DistinctShort, NodesApart DEF Chained
    <3>4. \A e : e \in {l \in Locks : holder[l] = t} <=> In(e, xs)
      BY <3>1, <3>2 DEF In, Elems
    <3>5. t \in Lists
      BY DEF Alive, Lists
    <3> QED
      BY <2>1, <3>1, <3>3, <3>4, <3>5, ChainHolds
  <2> QED
    BY <2>1, <2>2
<1> QED
  BY <1>1, ListsInductive, PTL

\* all_list (init_thread, thread_exit) holds every living thread once, forwards
\* and backwards, if no two operations on it overlap and no struct process was
\* refused.
THEOREM LivingListed == Spec => []AllListed
<1>1. ASSUME QInv, ListInv PROVE AllListed
  <2> SUFFICES ASSUME faults \cap {"overlap", "no_process"} = {}, Pushing = {}
               PROVE  Holds(links, "all", Alive, Cardinality(Threads))
    BY DEF AllListed
  <2>1. PICK xs \in Seq(Elems) : Chained(links, "all", xs) /\ \A e \in Elems : In(e, xs) <=> e \in Alive
    BY <1>1 DEF ListInv, AllOK, EndsAs, PtrOK
  <2>2. \A i \in DOMAIN xs : xs[i] \in Elems /\ xs[i] \in Threads
    BY <2>1 DEF In, Alive
  <2>3. Len(xs) <= Cardinality(Threads) /\ Cardinality(Threads) \in Nat
    BY <2>1, <2>2, DistinctShort, ThreadConstants DEF Chained
  <2>4. \A e : e \in Alive <=> In(e, xs)
    BY <2>1, <2>2 DEF In, Elems, Alive
  <2> QED
    BY <1>1, <2>1, <2>3, <2>4, ChainHolds, NodeSets DEF ListInv, PtrOK
<1> QED
  BY <1>1, ListsInductive, PTL
=============================================================================
