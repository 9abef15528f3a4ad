---------------------------- MODULE AlarmProofs ----------------------------
(***************************************************************************)
(* Theorems about the alarm clock and the thread system under it, for any  *)
(* number of threads, any priorities and any arguments of timer_sleep.     *)
(* Before them: what the ordered insertions and the removals from the      *)
(* front do to ready_list and wait_list, and every action keeps the        *)
(* inductive invariant.                                                    *)
(***************************************************************************)
EXTENDS Alarm, TLAPS

\* list_insert: the elements from position i on move up by one.
LEMMA InsertAtElements ==
  ASSUME NEW S, NEW s \in Seq(S), NEW x \in S, NEW i \in 1 .. Len(s) + 1
  PROVE  /\ InsertAt(s, i, x) \in Seq(S)
         /\ Len(InsertAt(s, i, x)) = Len(s) + 1
         /\ DOMAIN InsertAt(s, i, x) = 1 .. Len(s) + 1
         /\ \A j \in 1 .. Len(s) + 1 :
              InsertAt(s, i, x)[j] = IF j < i THEN s[j] ELSE IF j = i THEN x ELSE s[j - 1]
<1> DEFINE front == SubSeq(s, 1, i - 1)
           back == SubSeq(s, i, Len(s))
           r == InsertAt(s, i, x)
<1>0. Len(s) \in Nat /\ i \in Nat
  OBVIOUS
<1>1. /\ front \in Seq(S)
      /\ Len(front) = i - 1
      /\ \A j \in 1 .. i - 1 : front[j] = s[j]
  OBVIOUS
<1>2. /\ back \in Seq(S)
      /\ Len(back) = Len(s) - i + 1
      /\ \A j \in 1 .. Len(s) - i + 1 : back[j] = s[i + j - 1]
  OBVIOUS
<1>3. r = front \o <<x>> \o back
  BY DEF InsertAt
<1> HIDE DEF front, back
<1> DEFINE q == front \o <<x>>
<1>4. /\ q \in Seq(S)
      /\ Len(q) = i
      /\ \A j \in 1 .. i : q[j] = IF j < i THEN s[j] ELSE x
  BY <1>1
<1> HIDE DEF q
<1>5. r = q \o back
  BY <1>3 DEF q
<1>6. r \in Seq(S) /\ Len(r) = Len(s) + 1
  <2>1. Len(q \o back) = i + (Len(s) - i + 1)
    BY <1>0, <1>2, <1>4
  <2>2. q \o back \in Seq(S)
    BY <1>0, <1>2, <1>4
  <2> QED  BY <1>0, <1>5, <2>1, <2>2
<1>7. \A j \in 1 .. Len(s) + 1 : r[j] = IF j <= i THEN q[j] ELSE back[j - i]
  <2>1. \A j \in 1 .. i : r[j] = q[j]
    BY ONLY <1>0, <1>2, <1>4, <1>5
  <2>2. \A j \in i + 1 .. i + Len(back) : r[j] = back[j - i]
    BY ONLY <1>0, <1>2, <1>4, <1>5
  <2>3. i + Len(back) = Len(s) + 1
    BY ONLY <1>0, <1>2
  <2> QED  BY ONLY <1>0, <2>1, <2>2, <2>3
<1> HIDE DEF r
<1>8. ASSUME NEW j \in 1 .. Len(s) + 1
      PROVE  r[j] = IF j < i THEN s[j] ELSE IF j = i THEN x ELSE s[j - 1]
  <2>1. CASE j <= i
    BY <1>4, <1>7, <2>1
  <2>2. CASE j > i
    <3>1. j - i \in 1 .. Len(s) - i + 1 /\ i + (j - i) - 1 = j - 1
      BY <2>2
    <3> QED  BY <1>2, <1>7, <2>2, <3>1
  <2> QED  BY <2>1, <2>2
<1> QED  BY <1>6, <1>8 DEF r

\* list_pop_front: the elements move down by one.
LEMMA TailElements ==
  ASSUME NEW S, NEW s \in Seq(S), s # <<>>
  PROVE  /\ Tail(s) \in Seq(S)
         /\ Len(s) \in Nat \ {0}
         /\ DOMAIN s = 1 .. Len(s)
         /\ Len(Tail(s)) = Len(s) - 1
         /\ DOMAIN Tail(s) = 1 .. Len(s) - 1
         /\ \A j \in 1 .. Len(s) - 1 : Tail(s)[j] = s[j + 1]
         /\ Head(s) = s[1]
OBVIOUS
\* Inserting x keeps a relation R that holds between earlier and later elements,
\* if x has it to its new neighbours.
LEMMA InsertPairwise ==
  ASSUME NEW S, NEW s \in Seq(S), NEW x \in S, NEW k \in 1 .. Len(s) + 1, NEW R,
         \A i, j \in DOMAIN s : i < j => <<s[i], s[j]>> \in R,
         \A i \in 1 .. k - 1 : <<s[i], x>> \in R,
         \A j \in k .. Len(s) : <<x, s[j]>> \in R
  PROVE  /\ InsertAt(s, k, x) \in Seq(S)
         /\ InsertAt(s, k, x) # <<>>
         /\ {InsertAt(s, k, x)[i] : i \in DOMAIN InsertAt(s, k, x)} =
              {s[i] : i \in DOMAIN s} \cup {x}
         /\ \A i, j \in DOMAIN InsertAt(s, k, x) :
              i < j => <<InsertAt(s, k, x)[i], InsertAt(s, k, x)[j]>> \in R
<1>0. /\ InsertAt(s, k, x) \in Seq(S)
      /\ Len(InsertAt(s, k, x)) = Len(s) + 1
      /\ DOMAIN InsertAt(s, k, x) = 1 .. Len(s) + 1
      /\ \A j \in 1 .. Len(s) + 1 :
           InsertAt(s, k, x)[j] = IF j < k THEN s[j] ELSE IF j = k THEN x ELSE s[j - 1]
  BY ONLY s \in Seq(S), x \in S, k \in 1 .. Len(s) + 1, InsertAtElements
<1> DEFINE n == Len(s)
           r == InsertAt(s, k, x)
<1>1. n \in Nat /\ DOMAIN s = 1 .. n /\ k \in Int /\ 1 <= k /\ k <= n + 1
  OBVIOUS
<1>2. /\ r \in Seq(S)
      /\ Len(r) = n + 1
      /\ DOMAIN r = 1 .. n + 1
      /\ \A j \in 1 .. n + 1 :
           r[j] = IF j < k THEN s[j] ELSE IF j = k THEN x ELSE s[j - 1]
  BY <1>0
<1>3. /\ \A i, j \in 1 .. n : i < j => <<s[i], s[j]>> \in R
      /\ \A i \in 1 .. k - 1 : <<s[i], x>> \in R
      /\ \A j \in k .. n : <<x, s[j]>> \in R
  BY <1>1
<1>4. r # <<>>
  BY <1>1, <1>2
<1> HIDE DEF n, r
<1>5. ASSUME NEW i \in DOMAIN s
      PROVE  s[i] \in {r[j] : j \in DOMAIN r}
  <2>1. CASE i < k
    <3>1. i \in 1 .. n + 1 /\ r[i] = s[i]
      BY <1>1, <1>2, <2>1
    <3> QED  BY <1>2, <3>1
  <2>2. CASE i >= k
    <3>1. i + 1 \in 1 .. n + 1 /\ r[i + 1] = s[i]
      BY <1>1, <1>2, <2>2
    <3> QED  BY <1>2, <3>1
  <2> QED  BY <1>1, <2>1, <2>2
<1>6. x \in {r[j] : j \in DOMAIN r}
  <2>1. k \in 1 .. n + 1 /\ r[k] = x
    BY <1>1, <1>2
  <2> QED  BY <1>2, <2>1
<1>7. ASSUME NEW j \in DOMAIN r
      PROVE  r[j] \in {s[i] : i \in DOMAIN s} \cup {x}
  <2>1. j < k => j \in 1 .. n
    BY <1>1, <1>2
  <2>2. j > k => j - 1 \in 1 .. n
    BY <1>1, <1>2
  <2> QED  BY <1>1, <1>2, <2>1, <2>2
<1>8. ASSUME NEW i \in 1 .. n + 1, NEW j \in 1 .. n + 1, i < j
      PROVE  <<r[i], r[j]>> \in R
  <2>1. CASE j < k
    <3>1. i \in 1 .. n /\ j \in 1 .. n
      BY <1>1, <1>8, <2>1
    <3> QED  BY <1>1, <1>2, <1>3, <1>8, <2>1, <3>1
  <2>2. CASE j = k
    <3>1. i \in 1 .. k - 1
      BY <1>1, <1>8, <2>2
    <3> QED  BY <1>1, <1>2, <1>3, <2>2, <3>1
  <2>3. CASE i = k
    <3>1. j - 1 \in k .. n
      BY <1>1, <1>8, <2>3
    <3> QED  BY <1>1, <1>2, <1>3, <2>3, <3>1
  <2>4. CASE i < k /\ j > k
    <3>1. i \in 1 .. n /\ j - 1 \in 1 .. n /\ i < j - 1
      BY <1>1, <1>8, <2>4
    <3> QED  BY <1>1, <1>2, <1>3, <2>4, <3>1
  <2>5. CASE i > k
    <3>1. i - 1 \in 1 .. n /\ j - 1 \in 1 .. n /\ i - 1 < j - 1
      BY <1>1, <1>8, <2>5
    <3> QED  BY <1>1, <1>2, <1>3, <2>5, <3>1
  <2> QED  BY <1>1, <1>8, <2>1, <2>2, <2>3, <2>4, <2>5
<1>9. {r[i] : i \in DOMAIN r} = {s[i] : i \in DOMAIN s} \cup {x}
  BY <1>5, <1>6, <1>7
<1> QED  BY <1>2, <1>4, <1>8, <1>9 DEF r

\* So does taking the first element off, which is related to all others.
LEMMA TailPairwise ==
  ASSUME NEW S, NEW s \in Seq(S), s # <<>>, NEW R,
         \A i, j \in DOMAIN s : i < j => <<s[i], s[j]>> \in R
  PROVE  /\ Tail(s) \in Seq(S)
         /\ Head(s) \in {s[i] : i \in DOMAIN s}
         /\ {s[i] : i \in DOMAIN s} = {Head(s)} \cup {Tail(s)[i] : i \in DOMAIN Tail(s)}
         /\ \A i \in DOMAIN Tail(s) : <<Head(s), Tail(s)[i]>> \in R
         /\ \A i, j \in DOMAIN Tail(s) : i < j => <<Tail(s)[i], Tail(s)[j]>> \in R
<1> DEFINE n == Len(s)
           r == Tail(s)
<1>1. /\ r \in Seq(S)
      /\ n \in Nat \ {0}
      /\ DOMAIN s = 1 .. n
      /\ DOMAIN r = 1 .. n - 1
      /\ \A j \in 1 .. n - 1 : r[j] = s[j + 1]
      /\ Head(s) = s[1]
  BY TailElements
<1> HIDE DEF n, r
<1>2. ASSUME NEW i \in DOMAIN s, i # 1
      PROVE  s[i] \in {r[j] : j \in DOMAIN r}
  <2>1. i - 1 \in DOMAIN r /\ r[i - 1] = s[i]
    BY <1>1, <1>2
  <2> QED  BY <2>1
<1>3. \A i \in DOMAIN r : i + 1 \in DOMAIN s /\ r[i] = s[i + 1] /\ 1 \in DOMAIN s /\ 1 < i + 1
  BY <1>1
<1>4. {s[i] : i \in DOMAIN s} = {Head(s)} \cup {r[i] : i \in DOMAIN r}
  BY <1>1, <1>2, <1>3
<1>5. \A i \in DOMAIN r : <<Head(s), r[i]>> \in R
  BY <1>1, <1>3
<1>6. ASSUME NEW i \in DOMAIN r, NEW j \in DOMAIN r, i < j
      PROVE  <<r[i], r[j]>> \in R
  <2>1. i + 1 < j + 1
    BY <1>1, <1>6
  <2> QED  BY <1>3, <2>1
<1> QED  BY <1>1, <1>4, <1>5, <1>6 DEF r

-----------------------------------------------------------------------------

\* A thread's priority is an integer, which the provers need for comparisons.
LEMMA PriorityIsInt ==
  ASSUME AlarmTypeOK
  PROVE  \A u \in Threads : priority[u] \in Int
<1>1. priority \in [Threads -> PRI_MIN .. PRI_MAX]
  BY DEF AlarmTypeOK
<1>2. PRI_MIN .. PRI_MAX \subseteq Int
  BY DEF PRI_MIN, PRI_MAX
<1> QED  BY <1>1, <1>2

ReadyDistinct == \A i, j \in DOMAIN ready_list : ready_list[i] = ready_list[j] => i = j

\* An earlier thread of ready_list is another one and has no lower priority.
ReadyOrder == {p \in Threads \X Threads : p[1] # p[2] /\ priority[p[1]] >= priority[p[2]]}

\* ReadyDistinct and ReadySorted together say that ReadyOrder holds between an
\* earlier and a later thread of ready_list.
LEMMA ReadyPairwise ==
  ASSUME ready_list \in Seq(Threads)
  PROVE  (ReadyDistinct /\ ReadySorted) <=>
           \A i, j \in DOMAIN ready_list : i < j => <<ready_list[i], ready_list[j]>> \in ReadyOrder
<1>1. \A i \in DOMAIN ready_list : i \in Int /\ ready_list[i] \in Threads
  OBVIOUS
<1>2. ASSUME ReadyDistinct, ReadySorted,
             NEW i \in DOMAIN ready_list, NEW j \in DOMAIN ready_list, i < j
      PROVE  <<ready_list[i], ready_list[j]>> \in ReadyOrder
  BY <1>1, <1>2 DEF ReadyDistinct, ReadySorted, ReadyOrder
<1>3. ASSUME \A i, j \in DOMAIN ready_list : i < j => <<ready_list[i], ready_list[j]>> \in ReadyOrder
      PROVE  ReadyDistinct /\ ReadySorted
  <2>1. ReadySorted
    BY <1>3 DEF ReadySorted, ReadyOrder
  <2>2. ReadyDistinct
    <3> SUFFICES ASSUME NEW i \in DOMAIN ready_list, NEW j \in DOMAIN ready_list, i < j
                 PROVE  ready_list[i] # ready_list[j]
      BY <1>1 DEF ReadyDistinct
    <3> QED  BY <1>3 DEF ReadyOrder
  <2> QED  BY <2>1, <2>2
<1> QED  BY <1>2, <1>3

\* A thread that was not in ready_list is in it once, and the list stays sorted
\* as long as no priority changes.
LEMMA ReadyInsert ==
  ASSUME AlarmTypeOK, ReadyDistinct, ReadySorted,
         NEW t \in Threads, t \notin ReadyThreads, InsertReady(t)
  PROVE  /\ ready_list' \in Seq(Threads)
         /\ ready_list' # <<>>
         /\ ReadyThreads' = ReadyThreads \cup {t}
         /\ \A i, j \in DOMAIN ready_list' : i < j => <<ready_list'[i], ready_list'[j]>> \in ReadyOrder
<1> DEFINE n == Len(ready_list)
<1>1. ready_list \in Seq(Threads)
  BY DEF AlarmTypeOK
<1>2. n \in Nat /\ DOMAIN ready_list = 1 .. n /\ \A i \in 1 .. n : ready_list[i] \in Threads
  BY <1>1
<1>3. PICK k \in 1 .. n + 1 :
        /\ \A j \in 1 .. k - 1 : ~prio_detect(t, ready_list[j])
        /\ k <= n => prio_detect(t, ready_list[k])
        /\ ready_list' = InsertAt(ready_list, k, t)
  BY DEF InsertReady
<1>4. \A i, j \in DOMAIN ready_list : i < j => <<ready_list[i], ready_list[j]>> \in ReadyOrder
  BY <1>1, ReadyPairwise
<1> HIDE DEF n
<1>5. \A i \in 1 .. n : ready_list[i] # t /\ priority[ready_list[i]] \in Int /\ priority[t] \in Int
  BY <1>2, PriorityIsInt DEF ReadyThreads
<1>6. \A i \in 1 .. k - 1 : <<ready_list[i], t>> \in ReadyOrder
  <2> SUFFICES ASSUME NEW i \in 1 .. k - 1
               PROVE  <<ready_list[i], t>> \in ReadyOrder
    OBVIOUS
  <2>1. i \in 1 .. n
    BY <1>2
  <2> QED  BY <1>2, <1>3, <1>5, <2>1 DEF ReadyOrder, prio_detect
<1>7. \A j \in k .. n : <<t, ready_list[j]>> \in ReadyOrder
  <2> SUFFICES ASSUME NEW j \in k .. n
               PROVE  <<t, ready_list[j]>> \in ReadyOrder
    OBVIOUS
  <2>1. j \in 1 .. n /\ k \in 1 .. n
    BY <1>2
  <2>2. priority[t] > priority[ready_list[k]]
    BY <1>2, <1>3, <2>1 DEF prio_detect
  <2>3. priority[ready_list[k]] >= priority[ready_list[j]]
    BY <1>2, <1>5, <2>1 DEF ReadySorted
  <2> QED  BY <1>2, <1>5, <2>1, <2>2, <2>3 DEF ReadyOrder
<1>8. /\ InsertAt(ready_list, k, t) \in Seq(Threads)
      /\ InsertAt(ready_list, k, t) # <<>>
      /\ {InsertAt(ready_list, k, t)[i] : i \in DOMAIN InsertAt(ready_list, k, t)} =
           {ready_list[i] : i \in DOMAIN ready_list} \cup {t}
      /\ \A i, j \in DOMAIN InsertAt(ready_list, k, t) :
           i < j => <<InsertAt(ready_list, k, t)[i], InsertAt(ready_list, k, t)[j]>> \in ReadyOrder
  <2>1. k \in 1 .. Len(ready_list) + 1
    BY DEF n
  <2>2. \A j \in k .. Len(ready_list) : <<t, ready_list[j]>> \in ReadyOrder
    BY <1>7 DEF n
  <2> QED  BY <1>1, <1>4, <1>6, <2>1, <2>2, InsertPairwise
<1> QED  BY <1>3, <1>8 DEF ReadyThreads

\* schedule takes the first thread off ready_list: none is before it.
LEMMA ReadyPop ==
  ASSUME AlarmTypeOK, ReadyDistinct, ReadySorted, ready_list # <<>>,
         ready_list' = Tail(ready_list)
  PROVE  /\ Head(ready_list) \in ReadyThreads
         /\ ready_list' \in Seq(Threads)
         /\ ReadyThreads' = ReadyThreads \ {Head(ready_list)}
         /\ \A i, j \in DOMAIN ready_list' : i < j => <<ready_list'[i], ready_list'[j]>> \in ReadyOrder
         /\ \A t \in ReadyThreads : priority[Head(ready_list)] >= priority[t]
<1>1. ready_list \in Seq(Threads)
  BY DEF AlarmTypeOK
<1>2. \A i, j \in DOMAIN ready_list : i < j => <<ready_list[i], ready_list[j]>> \in ReadyOrder
  BY <1>1, ReadyPairwise
<1>3. /\ ready_list' \in Seq(Threads)
      /\ Head(ready_list) \in ReadyThreads
      /\ ReadyThreads = {Head(ready_list)} \cup ReadyThreads'
      /\ \A i \in DOMAIN ready_list' : <<Head(ready_list), ready_list'[i]>> \in ReadyOrder
      /\ \A i, j \in DOMAIN ready_list' : i < j => <<ready_list'[i], ready_list'[j]>> \in ReadyOrder
  <2>1. /\ Tail(ready_list) \in Seq(Threads)
        /\ Head(ready_list) \in {ready_list[i] : i \in DOMAIN ready_list}
        /\ {ready_list[i] : i \in DOMAIN ready_list} =
             {Head(ready_list)} \cup {Tail(ready_list)[i] : i \in DOMAIN Tail(ready_list)}
        /\ \A i \in DOMAIN Tail(ready_list) : <<Head(ready_list), Tail(ready_list)[i]>> \in ReadyOrder
        /\ \A i, j \in DOMAIN Tail(ready_list) :
             i < j => <<Tail(ready_list)[i], Tail(ready_list)[j]>> \in ReadyOrder
    BY <1>1, <1>2, TailPairwise
  <2> QED  BY <2>1 DEF ReadyThreads
<1>4. \A t \in ReadyThreads' : <<Head(ready_list), t>> \in ReadyOrder
  BY <1>3 DEF ReadyThreads
<1>5. Head(ready_list) \notin ReadyThreads'
  BY <1>4 DEF ReadyOrder
<1>6. Head(ready_list) \in Threads
  BY <1>1, TailElements
<1>7. \A t \in ReadyThreads : priority[Head(ready_list)] >= priority[t]
  <2>1. priority[Head(ready_list)] >= priority[Head(ready_list)]
    BY <1>6, PriorityIsInt
  <2>2. \A t \in ReadyThreads' : priority[Head(ready_list)] >= priority[t]
    BY <1>4 DEF ReadyOrder
  <2> QED  BY <1>3, <2>1, <2>2
<1> QED  BY <1>3, <1>5, <1>7

-----------------------------------------------------------------------------

SleepersDistinct ==
  \A i, j \in DOMAIN wait_list : wait_list[i].thread = wait_list[j].thread => i = j

\* An earlier entry of wait_list is another thread's and wakes no later.
SleepOrder ==
  {p \in Entry \X Entry : p[1].thread # p[2].thread /\ p[1].wake_tick <= p[2].wake_tick}

Queued == {wait_list[i] : i \in DOMAIN wait_list}

\* SleepersDistinct and SleepersSorted together say that SleepOrder holds between
\* an earlier and a later entry of wait_list.
LEMMA SleepersPairwise ==
  ASSUME wait_list \in Seq(Entry)
  PROVE  (SleepersDistinct /\ SleepersSorted) <=>
           \A i, j \in DOMAIN wait_list : i < j => <<wait_list[i], wait_list[j]>> \in SleepOrder
<1>1. \A i \in DOMAIN wait_list : i \in Int /\ wait_list[i] \in Entry
  OBVIOUS
<1>2. ASSUME SleepersDistinct, SleepersSorted,
             NEW i \in DOMAIN wait_list, NEW j \in DOMAIN wait_list, i < j
      PROVE  <<wait_list[i], wait_list[j]>> \in SleepOrder
  BY <1>1, <1>2 DEF SleepersDistinct, SleepersSorted, SleepOrder
<1>3. ASSUME \A i, j \in DOMAIN wait_list : i < j => <<wait_list[i], wait_list[j]>> \in SleepOrder
      PROVE  SleepersDistinct /\ SleepersSorted
  <2>1. SleepersSorted
    <3> SUFFICES ASSUME NEW i \in DOMAIN wait_list, NEW j \in DOMAIN wait_list, i < j
                 PROVE  wait_list[i].wake_tick <= wait_list[j].wake_tick
      BY DEF SleepersSorted
    <3> QED  BY <1>3 DEF SleepOrder
  <2>2. SleepersDistinct
    <3> SUFFICES ASSUME NEW i \in DOMAIN wait_list, NEW j \in DOMAIN wait_list, i < j
                 PROVE  wait_list[i].thread # wait_list[j].thread
      BY <1>1 DEF SleepersDistinct
    <3> QED  BY <1>3 DEF SleepOrder
  <2> QED  BY <2>1, <2>2
<1> QED  BY <1>2, <1>3

\* The same in the next state; SleepOrder has no variable.
LEMMA NewPairwise ==
  ASSUME wait_list' \in Seq(Entry),
         \A i, j \in DOMAIN wait_list' : i < j => <<wait_list'[i], wait_list'[j]>> \in SleepOrder
  PROVE  SleepersDistinct' /\ SleepersSorted'
<1>1. \A i \in DOMAIN wait_list' : i \in Int /\ wait_list'[i] \in Entry
  OBVIOUS
<1>2. SleepersSorted'
  <2> SUFFICES ASSUME NEW i \in DOMAIN wait_list', NEW j \in DOMAIN wait_list', i < j
               PROVE  wait_list'[i].wake_tick <= wait_list'[j].wake_tick
    BY DEF SleepersSorted
  <2> QED  BY DEF SleepOrder
<1>3. SleepersDistinct'
  <2> SUFFICES ASSUME NEW i \in DOMAIN wait_list', NEW j \in DOMAIN wait_list', i < j
               PROVE  wait_list'[i].thread # wait_list'[j].thread
    BY <1>1 DEF SleepersDistinct
  <2> QED  BY DEF SleepOrder
<1> QED  BY <1>2, <1>3

\* The threads and the alarms of wait_list, from its entries.
LEMMA QueuedViews ==
  /\ WaitingThreads = {e.thread : e \in Queued}
  /\ Alarms = {<<e.thread, e.wake_tick>> : e \in Queued}
BY DEF WaitingThreads, Alarms, Queued

\* A thread that did not sleep has one entry, at its place.
LEMMA SleeperInsert ==
  ASSUME AlarmTypeOK, SleepersDistinct, SleepersSorted,
         NEW e \in Entry, e.thread \notin WaitingThreads, InsertSleeper(e)
  PROVE  /\ wait_list' \in Seq(Entry)
         /\ wait_list' # <<>>
         /\ WaitingThreads' = WaitingThreads \cup {e.thread}
         /\ Alarms' = Alarms \cup {<<e.thread, e.wake_tick>>}
         /\ SleepersDistinct'
         /\ SleepersSorted'
<1> DEFINE n == Len(wait_list)
<1>1. wait_list \in Seq(Entry)
  BY DEF AlarmTypeOK
<1>2. n \in Nat /\ DOMAIN wait_list = 1 .. n /\ \A i \in 1 .. n : wait_list[i] \in Entry
  BY <1>1
<1>3. PICK k \in 1 .. n + 1 :
        /\ \A j \in 1 .. k - 1 : ~least_sleep(e.wake_tick, wait_list[j].wake_tick)
        /\ k <= n => least_sleep(e.wake_tick, wait_list[k].wake_tick)
        /\ wait_list' = InsertAt(wait_list, k, e)
  BY DEF InsertSleeper
<1>4. \A i, j \in DOMAIN wait_list : i < j => <<wait_list[i], wait_list[j]>> \in SleepOrder
  BY <1>1, SleepersPairwise
<1> HIDE DEF n
<1>5. e.wake_tick \in Int /\ \A i \in 1 .. n :
        wait_list[i].thread # e.thread /\ wait_list[i].wake_tick \in Int
  BY <1>2 DEF WaitingThreads, Entry
<1>6. \A i \in 1 .. k - 1 : <<wait_list[i], e>> \in SleepOrder
  <2> SUFFICES ASSUME NEW i \in 1 .. k - 1
               PROVE  <<wait_list[i], e>> \in SleepOrder
    OBVIOUS
  <2>1. i \in 1 .. n
    BY <1>2
  <2> QED  BY <1>2, <1>3, <1>5, <2>1 DEF SleepOrder, least_sleep
<1>7. \A j \in k .. n : <<e, wait_list[j]>> \in SleepOrder
  <2> SUFFICES ASSUME NEW j \in k .. n
               PROVE  <<e, wait_list[j]>> \in SleepOrder
    OBVIOUS
  <2>1. j \in 1 .. n /\ k \in 1 .. n
    BY <1>2
  <2>2. e.wake_tick < wait_list[k].wake_tick
    BY <1>2, <1>3, <2>1 DEF least_sleep
  <2>3. wait_list[k].wake_tick <= wait_list[j].wake_tick
    BY <1>2, <1>5, <2>1 DEF SleepersSorted
  <2> QED  BY <1>2, <1>5, <2>1, <2>2, <2>3 DEF SleepOrder
<1>8. /\ wait_list' \in Seq(Entry)
      /\ wait_list' # <<>>
      /\ Queued' = Queued \cup {e}
      /\ \A i, j \in DOMAIN wait_list' : i < j => <<wait_list'[i], wait_list'[j]>> \in SleepOrder
  <2>1. k \in 1 .. Len(wait_list) + 1
    BY DEF n
  <2>2. \A j \in k .. Len(wait_list) : <<e, wait_list[j]>> \in SleepOrder
    BY <1>7 DEF n
  <2>3. /\ InsertAt(wait_list, k, e) \in Seq(Entry)
        /\ InsertAt(wait_list, k, e) # <<>>
        /\ {InsertAt(wait_list, k, e)[i] : i \in DOMAIN InsertAt(wait_list, k, e)} =
             {wait_list[i] : i \in DOMAIN wait_list} \cup {e}
        /\ \A i, j \in DOMAIN InsertAt(wait_list, k, e) :
             i < j => <<InsertAt(wait_list, k, e)[i], InsertAt(wait_list, k, e)[j]>> \in SleepOrder
    BY <1>1, <1>4, <1>6, <2>1, <2>2, InsertPairwise
  <2> QED  BY <1>3, <2>3 DEF Queued
<1>9. SleepersDistinct' /\ SleepersSorted'
  BY <1>8, NewPairwise
<1>10. /\ WaitingThreads' = {f.thread : f \in Queued'}
       /\ Alarms' = {<<f.thread, f.wake_tick>> : f \in Queued'}
  BY DEF WaitingThreads, Alarms, Queued
<1>11. /\ WaitingThreads' = WaitingThreads \cup {e.thread}
       /\ Alarms' = Alarms \cup {<<e.thread, e.wake_tick>>}
  BY <1>8, <1>10, QueuedViews
<1> QED  BY <1>8, <1>9, <1>11

\* timer_interrupt takes the first entry off wait_list: none wakes before it.
LEMMA SleeperPop ==
  ASSUME AlarmTypeOK, SleepersDistinct, SleepersSorted, wait_list # <<>>,
         wait_list' = Tail(wait_list)
  PROVE  /\ wait_list' \in Seq(Entry)
         /\ Head(wait_list) \in Entry
         /\ Head(wait_list).thread \in WaitingThreads
         /\ <<Head(wait_list).thread, Head(wait_list).wake_tick>> \in Alarms
         /\ WaitingThreads' = WaitingThreads \ {Head(wait_list).thread}
         /\ Alarms' = Alarms \ {<<Head(wait_list).thread, Head(wait_list).wake_tick>>}
         /\ SleepersDistinct'
         /\ SleepersSorted'
<1> DEFINE h == Head(wait_list)
<1>1. wait_list \in Seq(Entry)
  BY DEF AlarmTypeOK
<1>2. \A i, j \in DOMAIN wait_list : i < j => <<wait_list[i], wait_list[j]>> \in SleepOrder
  BY <1>1, SleepersPairwise
<1>3. /\ wait_list' \in Seq(Entry)
      /\ h \in Queued
      /\ Queued = {h} \cup Queued'
      /\ \A i \in DOMAIN wait_list' : <<h, wait_list'[i]>> \in SleepOrder
      /\ \A i, j \in DOMAIN wait_list' : i < j => <<wait_list'[i], wait_list'[j]>> \in SleepOrder
  <2>1. /\ Tail(wait_list) \in Seq(Entry)
        /\ h \in {wait_list[i] : i \in DOMAIN wait_list}
        /\ {wait_list[i] : i \in DOMAIN wait_list} =
             {h} \cup {Tail(wait_list)[i] : i \in DOMAIN Tail(wait_list)}
        /\ \A i \in DOMAIN Tail(wait_list) : <<h, Tail(wait_list)[i]>> \in SleepOrder
        /\ \A i, j \in DOMAIN Tail(wait_list) :
             i < j => <<Tail(wait_list)[i], Tail(wait_list)[j]>> \in SleepOrder
    BY <1>1, <1>2, TailPairwise
  <2> QED  BY <2>1 DEF Queued
<1>4. h \in Entry
  BY <1>1, TailElements
<1> HIDE DEF h
<1>5. \A f \in Queued' : f.thread # h.thread
  <2>1. \A f \in Queued' : <<h, f>> \in SleepOrder
    BY <1>3 DEF Queued
  <2> QED  BY <2>1 DEF SleepOrder
<1>6. SleepersDistinct' /\ SleepersSorted'
  BY <1>3, NewPairwise
<1>7. /\ WaitingThreads' = {f.thread : f \in Queued'}
      /\ Alarms' = {<<f.thread, f.wake_tick>> : f \in Queued'}
  BY DEF WaitingThreads, Alarms, Queued
<1>8. WaitingThreads' = WaitingThreads \ {h.thread}
  BY <1>3, <1>5, <1>7, QueuedViews
<1>9. Alarms' = Alarms \ {<<h.thread, h.wake_tick>>}
  BY <1>3, <1>5, <1>7, QueuedViews
<1>10. h.thread \in WaitingThreads /\ <<h.thread, h.wake_tick>> \in Alarms
  BY <1>3, QueuedViews
<1> QED  BY <1>3, <1>4, <1>6, <1>8, <1>9, <1>10 DEF h

\* When the first sleeper is not due, none is.
LEMMA NobodyDue ==
  ASSUME AlarmTypeOK, SleepersSorted, ~SomeoneDue
  PROVE  \A a \in Alarms : a[2] > ticks
<1>1. wait_list \in Seq(Entry) /\ ticks \in Nat
  BY DEF AlarmTypeOK
<1>2. ASSUME NEW i \in DOMAIN wait_list
      PROVE  wait_list[i].wake_tick > ticks
  <2>1. wait_list # <<>>
    BY <1>1
  <2>2. 1 \in DOMAIN wait_list /\ Head(wait_list) = wait_list[1] /\ i \in Int /\ 1 <= i
    BY <1>1, <2>1, TailElements
  <2>a. wait_list[1] \in Entry /\ wait_list[i] \in Entry
    BY <1>1, <2>2
  <2>3. wait_list[1].wake_tick \in Int /\ wait_list[i].wake_tick \in Int
    BY <2>a DEF Entry
  <2>4. wait_list[1].wake_tick > ticks
    BY <1>1, <2>1, <2>2, <2>3 DEF SomeoneDue, IsDue
  <2>5. wait_list[1].wake_tick <= wait_list[i].wake_tick
    BY <2>2, <2>3 DEF SleepersSorted
  <2> QED  BY <1>1, <2>3, <2>4, <2>5
<1> QED  BY <1>2 DEF Alarms

-----------------------------------------------------------------------------
\* What QueuesMatchStatus says of a thread's status.
StatusMatch ==
  /\ \A t \in Threads : t \in ReadyThreads <=> status[t] = "READY"
  /\ \A t \in Threads : status[t] = "BLOCKED" => t \in WaitingThreads \cup BlockedElsewhere
  /\ \A t \in WaitingThreads : status[t] = "BLOCKED" \/ (t = running /\ pc[t] = "block")

\* QueuesMatchStatus by its parts, in both states of a step.
LEMMA QueuesParts ==
  /\ QueuesMatchStatus <=> ReadyDistinct /\ SleepersDistinct /\ StatusMatch
  /\ QueuesMatchStatus' <=> ReadyDistinct' /\ SleepersDistinct' /\ StatusMatch'
BY DEF QueuesMatchStatus, ReadyDistinct, SleepersDistinct, StatusMatch

\* The parts of the invariant that a step must establish.
LEMMA InvParts ==
  /\ AlarmInv => /\ AlarmTypeOK /\ NoAssertFails /\ ReadyDistinct /\ SleepersDistinct /\ StatusMatch
                 /\ CpuInv /\ BlockedInv /\ BootInv /\ ReadySorted /\ SleepersSorted /\ DueInv
  /\ AlarmTypeOK' /\ NoAssertFails' /\ ReadyDistinct' /\ SleepersDistinct' /\ StatusMatch'
     /\ CpuInv' /\ BlockedInv' /\ BootInv' /\ ReadySorted' /\ SleepersSorted' /\ DueInv' => AlarmInv'
BY QueuesParts DEF AlarmInv

\* ready_list is unchanged, and so are the priorities of the threads in it.
LEMMA ReadyKept ==
  ASSUME AlarmInv, UNCHANGED ready_list, \A t \in ReadyThreads : priority'[t] = priority[t]
  PROVE  ready_list' \in Seq(Threads) /\ ReadyThreads' = ReadyThreads /\ ReadyDistinct' /\ ReadySorted'
<1>1. ready_list \in Seq(Threads) /\ ReadyDistinct /\ ReadySorted
  BY InvParts DEF AlarmTypeOK
<1>2. \A i \in DOMAIN ready_list : priority'[ready_list[i]] = priority[ready_list[i]]
  BY DEF ReadyThreads
<1>3. ReadySorted'
  BY <1>1, <1>2 DEF ReadySorted
<1> QED  BY <1>1, <1>3 DEF ReadyThreads, ReadyDistinct

\* A new ready_list in ReadyOrder, with the priorities of its threads unchanged.
LEMMA ReadyOrdered ==
  ASSUME ready_list' \in Seq(Threads), \A t \in ReadyThreads' : priority'[t] = priority[t],
         \A i, j \in DOMAIN ready_list' : i < j => <<ready_list'[i], ready_list'[j]>> \in ReadyOrder
  PROVE  ReadyDistinct' /\ ReadySorted'
<1>1. \A i \in DOMAIN ready_list' :
        /\ i \in Int
        /\ ready_list'[i] \in Threads
        /\ priority'[ready_list'[i]] = priority[ready_list'[i]]
  BY DEF ReadyThreads
<1>2. ReadyDistinct'
  <2> SUFFICES ASSUME NEW i \in DOMAIN ready_list', NEW j \in DOMAIN ready_list', i < j
               PROVE  ready_list'[i] # ready_list'[j]
    BY <1>1 DEF ReadyDistinct
  <2> QED  BY DEF ReadyOrder
<1>3. ReadySorted'
  BY <1>1 DEF ReadySorted, ReadyOrder
<1> QED  BY <1>2, <1>3

\* thread_unblock and thread_yield insert a thread that was not in ready_list.
LEMMA ReadyAdded ==
  ASSUME AlarmInv, NEW t \in Threads, t \notin ReadyThreads, InsertReady(t), UNCHANGED priority
  PROVE  /\ ready_list' \in Seq(Threads) /\ ready_list' # <<>>
         /\ ReadyThreads' = ReadyThreads \cup {t} /\ ReadyDistinct' /\ ReadySorted'
<1>1. /\ ready_list' \in Seq(Threads) /\ ready_list' # <<>>
      /\ ReadyThreads' = ReadyThreads \cup {t}
      /\ \A i, j \in DOMAIN ready_list' : i < j => <<ready_list'[i], ready_list'[j]>> \in ReadyOrder
  BY ReadyInsert, InvParts
<1> QED  BY <1>1, ReadyOrdered

\* schedule takes the first thread out of ready_list.
LEMMA ReadyTaken ==
  ASSUME AlarmInv, ready_list # <<>>, ready_list' = Tail(ready_list),
         \A t \in ReadyThreads : priority'[t] = priority[t]
  PROVE  /\ ready_list' \in Seq(Threads)
         /\ Head(ready_list) \in ReadyThreads
         /\ ReadyThreads' = ReadyThreads \ {Head(ready_list)} /\ ReadyDistinct' /\ ReadySorted'
<1>1. /\ Head(ready_list) \in ReadyThreads
      /\ ready_list' \in Seq(Threads)
      /\ ReadyThreads' = ReadyThreads \ {Head(ready_list)}
      /\ \A i, j \in DOMAIN ready_list' : i < j => <<ready_list'[i], ready_list'[j]>> \in ReadyOrder
  BY ReadyPop, InvParts
<1> QED  BY <1>1, ReadyOrdered

\* wait_list is unchanged.
LEMMA SleepersKept ==
  ASSUME AlarmInv, UNCHANGED wait_list
  PROVE  /\ wait_list' \in Seq(Entry) /\ WaitingThreads' = WaitingThreads
         /\ SleepersDistinct' /\ SleepersSorted'
<1>1. wait_list \in Seq(Entry) /\ SleepersDistinct /\ SleepersSorted
  BY InvParts DEF AlarmTypeOK
<1> QED  BY <1>1 DEF WaitingThreads, SleepersDistinct, SleepersSorted

\* The two queues hold threads only.
LEMMA ReadyInThreads ==
  ASSUME AlarmInv
  PROVE  ReadyThreads \subseteq Threads /\ WaitingThreads \subseteq Threads
<1>1. ready_list \in Seq(Threads) /\ wait_list \in Seq(Entry)
  BY InvParts DEF AlarmTypeOK
<1>2. \A i \in DOMAIN wait_list : wait_list[i] \in Entry
  BY <1>1
<1> QED  BY <1>1, <1>2 DEF ReadyThreads, WaitingThreads, Entry

-----------------------------------------------------------------------------
\* The idle thread is set up while interrupts are off.
LEMMA CreateIdleInv ==
  ASSUME AlarmInv, NEW t \in Threads, CreateIdle(t), UNCHANGED timer_vars
  PROVE  AlarmInv'
<1>0. AlarmTypeOK /\ NoAssertFails /\ StatusMatch /\ CpuInv /\ BlockedInv /\ BootInv /\ DueInv
  BY InvParts
<1>1. ready_list' \in Seq(Threads) /\ ReadyThreads' = ReadyThreads /\ ReadyDistinct' /\ ReadySorted'
  <2>1. UNCHANGED ready_list /\ \A u \in ReadyThreads : priority'[u] = priority[u]
    BY <1>0 DEF CreateIdle, CreateThread, StatusMatch
  <2> QED  BY <2>1, ReadyKept
<1>2. /\ wait_list' \in Seq(Entry) /\ WaitingThreads' = WaitingThreads
      /\ SleepersDistinct' /\ SleepersSorted'
  <2>1. UNCHANGED wait_list
    BY DEF timer_vars
  <2> QED  BY <2>1, SleepersKept
<1>3. AlarmTypeOK'
  BY <1>0
     DEF CreateIdle, Goto, timer_vars, CreateThread, AlarmTypeOK, Statuses, Labels,
         PRI_MIN, PRI_MAX
<1>4. NoAssertFails'
  BY <1>0 DEF CreateIdle, CreateThread, NoAssertFails
<1>5. StatusMatch'
  BY <1>0, <1>1, <1>2
     DEF CreateIdle, At, CreateThread, StatusMatch, BlockedElsewhere, CpuInv, BlockedInv
<1>6. CpuInv'
  BY <1>0 DEF CreateIdle, At, Goto, CreateThread, CpuInv, Interruptible
<1>7. BlockedInv'
  <2>1. PICK u \in Threads : CreateThread(t, u, PRI_MIN)
    BY DEF CreateIdle
  <2>2. /\ status[u] = "FREE" /\ status' = [status EXCEPT ![u] = "BLOCKED"] /\ child' = u
        /\ pc' = [pc EXCEPT ![t] = "create"] /\ running' = running /\ idle_thread' = idle_thread
    BY <2>1 DEF CreateThread, Goto
  <2>3. t = running /\ child = None /\ pc[running] # "block" /\ u # None
    BY <1>0, ThreadConstants DEF CreateIdle, At, BlockedInv
  <2>4. pc'[running] = "create" /\ status'[u] = "BLOCKED" /\ WaitingThreads' = WaitingThreads
        /\ \A v \in Threads : v # u => status'[v] = status[v]
    BY <1>0, <1>2, <2>2, <2>3 DEF AlarmTypeOK
  <2>5. u \notin WaitingThreads
    BY <1>0, <2>2, <2>3 DEF StatusMatch, AlarmTypeOK
  <2>6. u # idle_thread
    BY <1>0, <2>2, <2>3 DEF BlockedInv
  <2>7. idle_thread # None => idle_thread \in Threads
    BY <1>0 DEF AlarmTypeOK
  <2> QED
    BY <1>0, <2>2, <2>3, <2>4, <2>5, <2>6, <2>7 DEF BlockedInv
<1>8. BootInv'
  BY <1>0 DEF CreateIdle, At, Goto, timer_vars, CreateThread, BootInv
<1>9. DueInv'
  BY DEF CreateIdle, At, Goto, CreateThread, DueInv
<1> QED  BY <1>1, <1>2, <1>3, <1>4, <1>5, <1>6, <1>7, <1>8, <1>9, InvParts

\* A new thread is blocked and known only to its creator.
LEMMA CreateInv ==
  ASSUME AlarmInv, NEW t \in Threads, Create(t), UNCHANGED timer_vars
  PROVE  AlarmInv'
<1>0. AlarmTypeOK /\ NoAssertFails /\ StatusMatch /\ CpuInv /\ BlockedInv /\ BootInv /\ DueInv
  BY InvParts
<1>x. PICK new \in Threads, p \in PRI_MIN .. PRI_MAX : CreateThread(t, new, p)
  BY ThreadConstants DEF Create
<1>1. ready_list' \in Seq(Threads) /\ ReadyThreads' = ReadyThreads /\ ReadyDistinct' /\ ReadySorted'
  <2>1. UNCHANGED ready_list /\ \A u \in ReadyThreads : priority'[u] = priority[u]
    BY <1>0 DEF Create, CreateThread, StatusMatch
  <2> QED  BY <2>1, ReadyKept
<1>2. /\ wait_list' \in Seq(Entry) /\ WaitingThreads' = WaitingThreads
      /\ SleepersDistinct' /\ SleepersSorted'
  <2>1. UNCHANGED wait_list
    BY DEF timer_vars
  <2> QED  BY <2>1, SleepersKept
<1>3. AlarmTypeOK'
  BY <1>0, ThreadConstants
     DEF Create, Goto, timer_vars, CreateThread, AlarmTypeOK, Statuses, Labels
<1>4. NoAssertFails'
  BY <1>0 DEF Create, CreateThread, NoAssertFails
<1>5. StatusMatch'
  BY <1>0, <1>1, <1>2, ThreadConstants
     DEF Create, At, InProgram, CreateThread, StatusMatch, BlockedElsewhere, BlockedInv
<1>6. CpuInv'
  BY <1>0 DEF Create, At, Goto, InProgram, CreateThread, CpuInv, Interruptible
<1>7. BlockedInv'
  <2>1. PICK u \in Threads : u = new /\ CreateThread(t, u, p)
    BY <1>x
  <2>2. /\ status[u] = "FREE" /\ status' = [status EXCEPT ![u] = "BLOCKED"] /\ child' = u
        /\ pc' = [pc EXCEPT ![t] = "create"] /\ running' = running /\ idle_thread' = idle_thread
    BY <2>1 DEF CreateThread, Goto
  <2>3. t = running /\ child = None /\ pc[running] # "block" /\ u # None
    BY <1>0, ThreadConstants DEF Create, InProgram, At, BlockedInv
  <2>4. pc'[running] = "create" /\ status'[u] = "BLOCKED" /\ WaitingThreads' = WaitingThreads
        /\ \A v \in Threads : v # u => status'[v] = status[v]
    BY <1>0, <1>2, <2>2, <2>3 DEF AlarmTypeOK
  <2>5. u \notin WaitingThreads
    BY <1>0, <2>2, <2>3 DEF StatusMatch, AlarmTypeOK
  <2>6. u # idle_thread
    BY <1>0, <2>2, <2>3 DEF BlockedInv
  <2>7. idle_thread # None => idle_thread \in Threads
    BY <1>0 DEF AlarmTypeOK
  <2> QED
    BY <1>0, <2>2, <2>3, <2>4, <2>5, <2>6, <2>7 DEF BlockedInv
<1>8. BootInv'
  BY DEF Create, InProgram, CreateThread, BootInv
<1>9. DueInv'
  BY DEF Create, At, Goto, InProgram, CreateThread, DueInv
<1> QED  BY <1>1, <1>2, <1>3, <1>4, <1>5, <1>6, <1>7, <1>8, <1>9, InvParts

\* The new thread becomes ready.
LEMMA CreateUnblockInv ==
  ASSUME AlarmInv, NEW t \in Threads, CreateUnblock(t), UNCHANGED timer_vars
  PROVE  AlarmInv'
<1>0. AlarmTypeOK /\ NoAssertFails /\ StatusMatch /\ CpuInv /\ BlockedInv /\ BootInv /\ DueInv
  BY InvParts
<1>x. child \in Threads /\ status[child] = "BLOCKED"
  BY <1>0 DEF CreateUnblock, At, BlockedInv, AlarmTypeOK
<1>1. /\ ready_list' \in Seq(Threads) /\ ready_list' # <<>>
      /\ ReadyThreads' = ReadyThreads \cup {child} /\ ReadyDistinct' /\ ReadySorted'
  <2>1. child \in Threads /\ child \notin ReadyThreads /\ InsertReady(child) /\ UNCHANGED priority
    BY <1>0, <1>x DEF CreateUnblock, Unblock, StatusMatch
  <2> QED  BY <2>1, ReadyAdded
<1>2. /\ wait_list' \in Seq(Entry) /\ WaitingThreads' = WaitingThreads
      /\ SleepersDistinct' /\ SleepersSorted'
  <2>1. UNCHANGED wait_list
    BY DEF timer_vars
  <2> QED  BY <2>1, SleepersKept
<1>3. AlarmTypeOK'
  BY <1>0, <1>1
     DEF CreateUnblock, Goto, timer_vars, Unblock, AlarmTypeOK, Statuses, Labels
<1>4. NoAssertFails'
  BY <1>x DEF CreateUnblock, Unblock, NoAssertFails
<1>5. StatusMatch'
  BY <1>0, <1>1, <1>2
     DEF CreateUnblock, At, Unblock, StatusMatch, AlarmTypeOK, BlockedElsewhere,
         BlockedInv
<1>6. CpuInv'
  BY <1>0
     DEF CreateUnblock, At, Goto, Unblock, CpuInv, AlarmTypeOK, Interruptible,
         BlockedInv
<1>7. BlockedInv'
  BY <1>0, <1>2 DEF CreateUnblock, At, Goto, Unblock, BlockedInv, AlarmTypeOK
<1>8. BootInv'
  BY <1>0, <1>1 DEF CreateUnblock, At, Goto, timer_vars, BootInv
<1>9. DueInv'
  BY DEF CreateUnblock, At, Goto, DueInv
<1> QED  BY <1>1, <1>2, <1>3, <1>4, <1>5, <1>6, <1>7, <1>8, <1>9, InvParts

\* The initial thread blocks while the idle thread is ready.
LEMMA AwaitIdleInv ==
  ASSUME AlarmInv, NEW t \in Threads, AwaitIdle(t), UNCHANGED timer_vars
  PROVE  AlarmInv'
<1>0. AlarmTypeOK /\ NoAssertFails /\ StatusMatch /\ CpuInv /\ BlockedInv /\ BootInv /\ DueInv
  BY InvParts
<1>1. ready_list' \in Seq(Threads) /\ ReadyThreads' = ReadyThreads /\ ReadyDistinct' /\ ReadySorted'
  <2>1. UNCHANGED ready_list /\ \A u \in ReadyThreads : priority'[u] = priority[u]
    BY DEF AwaitIdle
  <2> QED  BY <2>1, ReadyKept
<1>2. /\ wait_list' \in Seq(Entry) /\ WaitingThreads' = WaitingThreads
      /\ SleepersDistinct' /\ SleepersSorted'
  <2>1. UNCHANGED wait_list
    BY DEF timer_vars
  <2> QED  BY <2>1, SleepersKept
<1>3. AlarmTypeOK'
  BY <1>0 DEF AwaitIdle, Goto, timer_vars, AlarmTypeOK, Statuses, Labels
<1>4. NoAssertFails'
  BY <1>0 DEF AwaitIdle, NoAssertFails
<1>5. StatusMatch'
  BY <1>0, <1>1, <1>2 DEF AwaitIdle, At, StatusMatch, BlockedElsewhere, CpuInv, BootInv
<1>6. CpuInv'
  BY <1>0 DEF AwaitIdle, At, Goto, CpuInv, AlarmTypeOK, Interruptible
<1>7. BlockedInv'
  BY <1>0 DEF AwaitIdle, At, Goto, BlockedInv
<1>8. BootInv'
  BY <1>0 DEF AwaitIdle, At, Goto, timer_vars, BootInv, AlarmTypeOK
<1>9. DueInv'
  BY DEF AwaitIdle, At, Goto, DueInv
<1> QED  BY <1>1, <1>2, <1>3, <1>4, <1>5, <1>6, <1>7, <1>8, <1>9, InvParts

\* The idle thread wakes the initial thread.
LEMMA StartIdleInv ==
  ASSUME AlarmInv, NEW t \in Threads, StartIdle(t), UNCHANGED timer_vars
  PROVE  AlarmInv'
<1>0. AlarmTypeOK /\ NoAssertFails /\ StatusMatch /\ CpuInv /\ BlockedInv /\ BootInv /\ DueInv
  BY InvParts
<1>x. initial_thread \in Threads /\ status[initial_thread] = "BLOCKED"
  BY <1>0, ThreadConstants DEF StartIdle, At, InProgram, BootInv
<1>1. /\ ready_list' \in Seq(Threads) /\ ready_list' # <<>>
      /\ ReadyThreads' = ReadyThreads \cup {initial_thread} /\ ReadyDistinct' /\ ReadySorted'
  <2>1. initial_thread \in Threads /\ initial_thread \notin ReadyThreads /\ InsertReady(initial_thread) /\ UNCHANGED priority
    BY <1>0, <1>x DEF StartIdle, Unblock, StatusMatch
  <2> QED  BY <2>1, ReadyAdded
<1>2. /\ wait_list' \in Seq(Entry) /\ WaitingThreads' = WaitingThreads
      /\ SleepersDistinct' /\ SleepersSorted'
  <2>1. UNCHANGED wait_list
    BY DEF timer_vars
  <2> QED  BY <2>1, SleepersKept
<1>3. AlarmTypeOK'
  BY <1>0, <1>1 DEF StartIdle, Goto, timer_vars, Unblock, AlarmTypeOK, Statuses, Labels
<1>4. NoAssertFails'
  BY <1>x DEF StartIdle, Unblock, NoAssertFails
<1>5. StatusMatch'
  <2>1. /\ child = None /\ t \in Threads /\ status[t] = "RUNNING" /\ t = running
        /\ idle_thread = None /\ idle_thread' = t /\ None \notin Threads
        /\ initial_thread # t
        /\ status' = [status EXCEPT ![initial_thread] = "READY"]
        /\ status \in [Threads -> Statuses] /\ running' = running /\ child' = child
        /\ pc[t] = "resume"
    BY <1>0, ThreadConstants
       DEF StartIdle, Unblock, At, CpuInv, BlockedInv, BootInv, AlarmTypeOK
  <2>2. \A u \in Threads : status[u] = "BLOCKED" /\ u # initial_thread => u \in WaitingThreads
    BY <1>0, <2>1 DEF StatusMatch, BlockedElsewhere
  <2>3. \A u \in Threads : status'[u] = IF u = initial_thread THEN "READY" ELSE status[u]
    BY <2>1
  <2>4. \A u \in Threads : status'[u] = "BLOCKED" => u \in WaitingThreads'
    BY <1>2, <2>2, <2>3
  <2>5. WaitingThreads' = {}
    <3>1. wait_list = <<>>
      BY <1>0, <2>1 DEF BootInv
    <3>2. WaitingThreads = {}
      BY <3>1 DEF WaitingThreads
    <3> QED  BY <1>2, <3>2
  <2>6. \A u \in Threads : u \in ReadyThreads' <=> status'[u] = "READY"
    BY <1>0, <1>1, <2>3 DEF StatusMatch
  <2> QED  BY <2>4, <2>5, <2>6 DEF StatusMatch
<1>6. CpuInv'
  BY <1>0 DEF StartIdle, At, Goto, Unblock, CpuInv, AlarmTypeOK, Interruptible, BootInv
<1>7. BlockedInv'
  BY <1>0, <1>2
     DEF StartIdle, At, Goto, Unblock, BlockedInv, CpuInv, StatusMatch, BootInv
<1>8. BootInv'
  BY ThreadConstants DEF StartIdle, BootInv
<1>9. DueInv'
  BY DEF StartIdle, At, Goto, DueInv
<1> QED  BY <1>1, <1>2, <1>3, <1>4, <1>5, <1>6, <1>7, <1>8, <1>9, InvParts

\* The idle thread is blocked outside every queue.
LEMMA IdleBlockInv ==
  ASSUME AlarmInv, NEW t \in Threads, IdleBlock(t), UNCHANGED timer_vars
  PROVE  AlarmInv'
<1>0. AlarmTypeOK /\ NoAssertFails /\ StatusMatch /\ CpuInv /\ BlockedInv /\ BootInv /\ DueInv
  BY InvParts
<1>1. ready_list' \in Seq(Threads) /\ ReadyThreads' = ReadyThreads /\ ReadyDistinct' /\ ReadySorted'
  <2>1. UNCHANGED ready_list /\ \A u \in ReadyThreads : priority'[u] = priority[u]
    BY DEF IdleBlock
  <2> QED  BY <2>1, ReadyKept
<1>2. /\ wait_list' \in Seq(Entry) /\ WaitingThreads' = WaitingThreads
      /\ SleepersDistinct' /\ SleepersSorted'
  <2>1. UNCHANGED wait_list
    BY DEF timer_vars
  <2> QED  BY <2>1, SleepersKept
<1>3. AlarmTypeOK'
  BY <1>0 DEF IdleBlock, Goto, timer_vars, AlarmTypeOK, Statuses, Labels
<1>4. NoAssertFails'
  BY <1>0 DEF IdleBlock, NoAssertFails
<1>5. StatusMatch'
  BY <1>0, <1>1, <1>2 DEF IdleBlock, At, StatusMatch, BlockedElsewhere, CpuInv
<1>6. CpuInv'
  BY <1>0 DEF IdleBlock, At, Goto, CpuInv, AlarmTypeOK, Interruptible
<1>7. BlockedInv'
  BY <1>0, <1>2 DEF IdleBlock, Goto, BlockedInv, CpuInv
<1>8. BootInv'
  BY ThreadConstants DEF IdleBlock, BootInv
<1>9. DueInv'
  BY DEF IdleBlock, At, Goto, DueInv
<1> QED  BY <1>1, <1>2, <1>3, <1>4, <1>5, <1>6, <1>7, <1>8, <1>9, InvParts

\* The idle thread waits with interrupts on.
LEMMA IdleHaltInv ==
  ASSUME AlarmInv, NEW t \in Threads, IdleHalt(t), UNCHANGED timer_vars
  PROVE  AlarmInv'
<1>0. AlarmTypeOK /\ NoAssertFails /\ StatusMatch /\ CpuInv /\ BlockedInv /\ BootInv /\ DueInv
  BY InvParts
<1>1. ready_list' \in Seq(Threads) /\ ReadyThreads' = ReadyThreads /\ ReadyDistinct' /\ ReadySorted'
  <2>1. UNCHANGED ready_list /\ \A u \in ReadyThreads : priority'[u] = priority[u]
    BY DEF IdleHalt
  <2> QED  BY <2>1, ReadyKept
<1>2. /\ wait_list' \in Seq(Entry) /\ WaitingThreads' = WaitingThreads
      /\ SleepersDistinct' /\ SleepersSorted'
  <2>1. UNCHANGED wait_list
    BY DEF timer_vars
  <2> QED  BY <2>1, SleepersKept
<1>3. AlarmTypeOK'
  BY <1>0, <1>1, <1>2, ThreadConstants, ReadyInThreads
     DEF IdleHalt, At, Goto, timer_vars, AlarmTypeOK, Statuses, Labels, PRI_MIN, PRI_MAX
<1>4. NoAssertFails'
  BY <1>0 DEF IdleHalt, NoAssertFails
<1>5. StatusMatch'
  BY <1>0, <1>1, <1>2
     DEF IdleHalt, Goto, StatusMatch, BlockedElsewhere, BlockedInv, BootInv
<1>6. CpuInv'
  BY <1>0 DEF IdleHalt, At, Goto, CpuInv, AlarmTypeOK, Interruptible
<1>7. BlockedInv'
  BY <1>0, <1>2 DEF IdleHalt, Goto, BlockedInv, CpuInv
<1>8. BootInv'
  BY ThreadConstants DEF IdleHalt, BootInv
<1>9. DueInv'
  BY DEF IdleHalt, At, Goto, DueInv
<1> QED  BY <1>1, <1>2, <1>3, <1>4, <1>5, <1>6, <1>7, <1>8, <1>9, InvParts

\* The running thread joins ready_list with interrupts off.
LEMMA YieldInv ==
  ASSUME AlarmInv, NEW t \in Threads, Yield(t), UNCHANGED timer_vars
  PROVE  AlarmInv'
<1>0. AlarmTypeOK /\ NoAssertFails /\ StatusMatch /\ CpuInv /\ BlockedInv /\ BootInv /\ DueInv
  BY InvParts
<1>1. /\ ready_list' \in Seq(Threads) /\ ready_list' # <<>>
      /\ ReadyThreads' = ReadyThreads \cup {t} /\ ReadyDistinct' /\ ReadySorted'
  <2>1. t \in Threads /\ t \notin ReadyThreads /\ InsertReady(t) /\ UNCHANGED priority
    BY <1>0 DEF Yield, InProgram, At, StatusMatch, CpuInv
  <2> QED  BY <2>1, ReadyAdded
<1>2. /\ wait_list' \in Seq(Entry) /\ WaitingThreads' = WaitingThreads
      /\ SleepersDistinct' /\ SleepersSorted'
  <2>1. UNCHANGED wait_list
    BY DEF timer_vars
  <2> QED  BY <2>1, SleepersKept
<1>3. AlarmTypeOK'
  BY <1>0, <1>1 DEF Yield, Goto, timer_vars, Disabled, AlarmTypeOK, Statuses, Labels
<1>4. NoAssertFails'
  BY <1>0 DEF Yield, At, InProgram, NoAssertFails, CpuInv
<1>5. StatusMatch'
  BY <1>0, <1>1, <1>2
     DEF Yield, At, InProgram, StatusMatch, AlarmTypeOK, BlockedElsewhere, CpuInv
<1>6. CpuInv'
  BY <1>0 DEF Yield, At, Goto, InProgram, Disabled, CpuInv, AlarmTypeOK, Interruptible
<1>7. BlockedInv'
  BY <1>0, <1>2 DEF Yield, At, Goto, InProgram, BlockedInv
<1>8. BootInv'
  BY DEF Yield, InProgram, BootInv
<1>9. DueInv'
  BY DEF Yield, At, Goto, InProgram, DueInv
<1> QED  BY <1>1, <1>2, <1>3, <1>4, <1>5, <1>6, <1>7, <1>8, <1>9, InvParts

\* The dying thread is in no queue.
LEMMA ExitInv ==
  ASSUME AlarmInv, NEW t \in Threads, Exit(t), UNCHANGED timer_vars
  PROVE  AlarmInv'
<1>0. AlarmTypeOK /\ NoAssertFails /\ StatusMatch /\ CpuInv /\ BlockedInv /\ BootInv /\ DueInv
  BY InvParts
<1>1. ready_list' \in Seq(Threads) /\ ReadyThreads' = ReadyThreads /\ ReadyDistinct' /\ ReadySorted'
  <2>1. UNCHANGED ready_list /\ \A u \in ReadyThreads : priority'[u] = priority[u]
    BY DEF Exit
  <2> QED  BY <2>1, ReadyKept
<1>2. /\ wait_list' \in Seq(Entry) /\ WaitingThreads' = WaitingThreads
      /\ SleepersDistinct' /\ SleepersSorted'
  <2>1. UNCHANGED wait_list
    BY DEF timer_vars
  <2> QED  BY <2>1, SleepersKept
<1>3. AlarmTypeOK'
  BY <1>0 DEF Exit, Goto, timer_vars, Disabled, AlarmTypeOK, Statuses, Labels
<1>4. NoAssertFails'
  BY <1>0 DEF Exit, At, InProgram, NoAssertFails, CpuInv
<1>5. StatusMatch'
  BY <1>0, <1>1, <1>2 DEF Exit, At, InProgram, StatusMatch, BlockedElsewhere, CpuInv
<1>6. CpuInv'
  BY <1>0 DEF Exit, At, Goto, InProgram, Disabled, CpuInv, AlarmTypeOK, Interruptible
<1>7. BlockedInv'
  BY <1>0, <1>2 DEF Exit, At, Goto, InProgram, BlockedInv
<1>8. BootInv'
  BY DEF Exit, InProgram, BootInv
<1>9. DueInv'
  BY DEF Exit, At, Goto, InProgram, DueInv
<1> QED  BY <1>1, <1>2, <1>3, <1>4, <1>5, <1>6, <1>7, <1>8, <1>9, InvParts

\* Only the running thread changes its priority, and it is not in ready_list.
LEMMA SetPriorityInv ==
  ASSUME AlarmInv, NEW t \in Threads, SetPriority(t), UNCHANGED timer_vars
  PROVE  AlarmInv'
<1>0. AlarmTypeOK /\ NoAssertFails /\ StatusMatch /\ CpuInv /\ BlockedInv /\ BootInv /\ DueInv
  BY InvParts
<1>1. ready_list' \in Seq(Threads) /\ ReadyThreads' = ReadyThreads /\ ReadyDistinct' /\ ReadySorted'
  <2>1. UNCHANGED ready_list /\ \A u \in ReadyThreads : priority'[u] = priority[u]
    BY <1>0 DEF SetPriority, At, InProgram, StatusMatch, CpuInv
  <2> QED  BY <2>1, ReadyKept
<1>2. /\ wait_list' \in Seq(Entry) /\ WaitingThreads' = WaitingThreads
      /\ SleepersDistinct' /\ SleepersSorted'
  <2>1. UNCHANGED wait_list
    BY DEF timer_vars
  <2> QED  BY <2>1, SleepersKept
<1>3. AlarmTypeOK'
  BY <1>0, ThreadConstants DEF SetPriority, timer_vars, AlarmTypeOK
<1>4. NoAssertFails'
  BY <1>0 DEF SetPriority, At, InProgram, NoAssertFails, CpuInv
<1>5. StatusMatch'
  BY <1>0, <1>1, <1>2 DEF SetPriority, StatusMatch, BlockedElsewhere
<1>6. CpuInv'
  BY <1>0 DEF SetPriority, CpuInv, Interruptible
<1>7. BlockedInv'
  BY <1>0, <1>2 DEF SetPriority, BlockedInv
<1>8. BootInv'
  BY DEF SetPriority, InProgram, BootInv
<1>9. DueInv'
  BY DEF SetPriority, At, InProgram, DueInv
<1> QED  BY <1>1, <1>2, <1>3, <1>4, <1>5, <1>6, <1>7, <1>8, <1>9, InvParts

\* The thread that got the CPU restores the interrupt level.
LEMMA ResumeInv ==
  ASSUME AlarmInv, NEW t \in Threads, Resume(t), UNCHANGED timer_vars
  PROVE  AlarmInv'
<1>0. AlarmTypeOK /\ NoAssertFails /\ StatusMatch /\ CpuInv /\ BlockedInv /\ BootInv /\ DueInv
  BY InvParts
<1>1. ready_list' \in Seq(Threads) /\ ReadyThreads' = ReadyThreads /\ ReadyDistinct' /\ ReadySorted'
  <2>1. UNCHANGED ready_list /\ \A u \in ReadyThreads : priority'[u] = priority[u]
    BY DEF Resume
  <2> QED  BY <2>1, ReadyKept
<1>2. /\ wait_list' \in Seq(Entry) /\ WaitingThreads' = WaitingThreads
      /\ SleepersDistinct' /\ SleepersSorted'
  <2>1. UNCHANGED wait_list
    BY DEF timer_vars
  <2> QED  BY <2>1, SleepersKept
<1>3. AlarmTypeOK'
  BY <1>0 DEF Resume, Goto, timer_vars, AlarmTypeOK, Labels
<1>4. NoAssertFails'
  BY <1>0 DEF Resume, NoAssertFails
<1>5. StatusMatch'
  BY <1>0, <1>1, <1>2 DEF Resume, At, StatusMatch, BlockedElsewhere
<1>6. CpuInv'
  BY <1>0 DEF Resume, At, Goto, CpuInv, AlarmTypeOK, Interruptible
<1>7. BlockedInv'
  BY <1>0, <1>2 DEF Resume, At, Goto, BlockedInv
<1>8. BootInv'
  BY DEF Resume, BootInv
<1>9. DueInv'
  BY DEF Resume, At, Goto, DueInv
<1> QED  BY <1>1, <1>2, <1>3, <1>4, <1>5, <1>6, <1>7, <1>8, <1>9, InvParts

\* The tick counter is read.
LEMMA SleepStartInv ==
  ASSUME AlarmInv, NEW t \in Threads, SleepStart(t)
  PROVE  AlarmInv'
<1>0. AlarmTypeOK /\ NoAssertFails /\ StatusMatch /\ CpuInv /\ BlockedInv /\ BootInv /\ DueInv
  BY InvParts
<1>1. ready_list' \in Seq(Threads) /\ ReadyThreads' = ReadyThreads /\ ReadyDistinct' /\ ReadySorted'
  <2>1. UNCHANGED ready_list /\ \A u \in ReadyThreads : priority'[u] = priority[u]
    BY DEF SleepStart
  <2> QED  BY <2>1, ReadyKept
<1>2. /\ wait_list' \in Seq(Entry) /\ WaitingThreads' = WaitingThreads
      /\ SleepersDistinct' /\ SleepersSorted'
  <2>1. UNCHANGED wait_list
    BY DEF SleepStart
  <2> QED  BY <2>1, SleepersKept
<1>3. AlarmTypeOK'
  BY <1>0 DEF SleepStart, Goto, AlarmTypeOK, Labels
<1>4. NoAssertFails'
  BY <1>0 DEF SleepStart, NoAssertFails
<1>5. StatusMatch'
  BY <1>0, <1>1, <1>2 DEF SleepStart, At, InProgram, StatusMatch, BlockedElsewhere
<1>6. CpuInv'
  BY <1>0 DEF SleepStart, At, Goto, InProgram, CpuInv, Interruptible
<1>7. BlockedInv'
  BY <1>0, <1>2 DEF SleepStart, At, Goto, InProgram, BlockedInv
<1>8. BootInv'
  BY DEF SleepStart, InProgram, BootInv
<1>9. DueInv'
  BY <1>0 DEF SleepStart, DueInv, AlarmTypeOK
<1> QED  BY <1>1, <1>2, <1>3, <1>4, <1>5, <1>6, <1>7, <1>8, <1>9, InvParts

\* The sleeper blocks, already in wait_list.
LEMMA SleepBlockInv ==
  ASSUME AlarmInv, NEW t \in Threads, SleepBlock(t)
  PROVE  AlarmInv'
<1>0. AlarmTypeOK /\ NoAssertFails /\ StatusMatch /\ CpuInv /\ BlockedInv /\ BootInv /\ DueInv
  BY InvParts
<1>1. ready_list' \in Seq(Threads) /\ ReadyThreads' = ReadyThreads /\ ReadyDistinct' /\ ReadySorted'
  <2>1. UNCHANGED ready_list /\ \A u \in ReadyThreads : priority'[u] = priority[u]
    BY DEF SleepBlock, Block
  <2> QED  BY <2>1, ReadyKept
<1>2. /\ wait_list' \in Seq(Entry) /\ WaitingThreads' = WaitingThreads
      /\ SleepersDistinct' /\ SleepersSorted'
  <2>1. UNCHANGED wait_list
    BY DEF SleepBlock, timer_vars
  <2> QED  BY <2>1, SleepersKept
<1>3. AlarmTypeOK'
  BY <1>0 DEF SleepBlock, Goto, timer_vars, Block, AlarmTypeOK, Statuses, Labels
<1>4. NoAssertFails'
  BY <1>0 DEF SleepBlock, At, Block, NoAssertFails, AlarmTypeOK, Interruptible, CpuInv
<1>5. StatusMatch'
  BY <1>0, <1>1, <1>2
     DEF SleepBlock, At, Block, StatusMatch, AlarmTypeOK, BlockedElsewhere, CpuInv,
         BlockedInv
<1>6. CpuInv'
  BY <1>0 DEF SleepBlock, At, Goto, Block, CpuInv, AlarmTypeOK, Interruptible
<1>7. BlockedInv'
  BY <1>0, <1>2 DEF SleepBlock, At, Goto, Block, BlockedInv
<1>8. BootInv'
  BY <1>0 DEF SleepBlock, At, Block, BootInv
<1>9. DueInv'
  BY DEF SleepBlock, At, Goto, Block, DueInv
<1> QED  BY <1>1, <1>2, <1>3, <1>4, <1>5, <1>6, <1>7, <1>8, <1>9, InvParts

\* An interrupt comes only while interrupts are on.
LEMMA InterruptInv ==
  ASSUME AlarmInv, Interrupt
  PROVE  AlarmInv'
<1>0. AlarmTypeOK /\ NoAssertFails /\ StatusMatch /\ CpuInv /\ BlockedInv /\ BootInv /\ DueInv
  BY InvParts
<1>1. ready_list' \in Seq(Threads) /\ ReadyThreads' = ReadyThreads /\ ReadyDistinct' /\ ReadySorted'
  <2>1. UNCHANGED ready_list /\ \A u \in ReadyThreads : priority'[u] = priority[u]
    BY DEF Interrupt
  <2> QED  BY <2>1, ReadyKept
<1>2. /\ wait_list' \in Seq(Entry) /\ WaitingThreads' = WaitingThreads
      /\ SleepersDistinct' /\ SleepersSorted'
  <2>1. UNCHANGED wait_list
    BY DEF Interrupt, At, Goto, timer_vars
  <2> QED  BY <2>1, SleepersKept
<1>3. AlarmTypeOK'
  BY <1>0 DEF Interrupt, AlarmTypeOK, Labels
<1>4. NoAssertFails'
  BY <1>0 DEF Interrupt, NoAssertFails, Interruptible, CpuInv
<1>5. StatusMatch'
  BY <1>0, <1>1, <1>2 DEF Interrupt, StatusMatch, BlockedElsewhere
<1>6. CpuInv'
  BY <1>0 DEF Interrupt, CpuInv, AlarmTypeOK, Interruptible
<1>7. BlockedInv'
  BY <1>0, <1>2 DEF Interrupt, BlockedInv
<1>8. BootInv'
  BY <1>0 DEF Interrupt, BootInv
<1>9. DueInv'
  BY <1>0 DEF Interrupt, DueInv, AlarmTypeOK
<1> QED  BY <1>1, <1>2, <1>3, <1>4, <1>5, <1>6, <1>7, <1>8, <1>9, InvParts

\* The interrupted code goes on.
LEMMA InterruptReturnInv ==
  ASSUME AlarmInv, InterruptReturn
  PROVE  AlarmInv'
<1>0. AlarmTypeOK /\ NoAssertFails /\ StatusMatch /\ CpuInv /\ BlockedInv /\ BootInv /\ DueInv
  BY InvParts
<1>1. ready_list' \in Seq(Threads) /\ ReadyThreads' = ReadyThreads /\ ReadyDistinct' /\ ReadySorted'
  <2>1. UNCHANGED ready_list /\ \A u \in ReadyThreads : priority'[u] = priority[u]
    BY DEF InterruptReturn
  <2> QED  BY <2>1, ReadyKept
<1>2. /\ wait_list' \in Seq(Entry) /\ WaitingThreads' = WaitingThreads
      /\ SleepersDistinct' /\ SleepersSorted'
  <2>1. UNCHANGED wait_list
    BY DEF InterruptReturn, At, Goto, timer_vars
  <2> QED  BY <2>1, SleepersKept
<1>3. AlarmTypeOK'
  BY <1>0 DEF InterruptReturn, timer_vars, AlarmTypeOK
<1>4. NoAssertFails'
  BY <1>0 DEF InterruptReturn, NoAssertFails
<1>5. StatusMatch'
  BY <1>0, <1>1, <1>2 DEF InterruptReturn, StatusMatch, BlockedElsewhere
<1>6. CpuInv'
  BY <1>0 DEF InterruptReturn, CpuInv, Interruptible
<1>7. BlockedInv'
  BY <1>0, <1>2 DEF InterruptReturn, BlockedInv
<1>8. BootInv'
  BY <1>0 DEF InterruptReturn, timer_vars, BootInv
<1>9. DueInv'
  BY <1>0 DEF InterruptReturn, timer_vars, DueInv
<1> QED  BY <1>1, <1>2, <1>3, <1>4, <1>5, <1>6, <1>7, <1>8, <1>9, InvParts

\* The caller is in wait_list, still running, with interrupts off.
LEMMA SleepQueueInv ==
  ASSUME AlarmInv, NEW t \in Threads, SleepQueue(t)
  PROVE  AlarmInv'
<1>0. AlarmTypeOK /\ NoAssertFails /\ StatusMatch /\ CpuInv /\ BlockedInv /\ BootInv /\ DueInv
  BY InvParts
<1>1. ready_list' \in Seq(Threads) /\ ReadyThreads' = ReadyThreads /\ ReadyDistinct' /\ ReadySorted'
  <2>1. UNCHANGED ready_list /\ \A u \in ReadyThreads : priority'[u] = priority[u]
    BY DEF SleepQueue
  <2> QED  BY <2>1, ReadyKept
<1>2. /\ wait_list' \in Seq(Entry) /\ WaitingThreads' = WaitingThreads \cup {t}
      /\ SleepersDistinct' /\ SleepersSorted'
  <2> DEFINE e == [thread |-> t, wake_tick |-> due]
  <2>1. e \in Entry /\ e.thread = t
    BY <1>0 DEF AlarmTypeOK, Entry
  <2>2. t \notin WaitingThreads
    BY <1>0 DEF SleepQueue, At, StatusMatch, CpuInv
  <2>3. InsertSleeper(e)
    BY DEF SleepQueue
  <2> HIDE DEF e
  <2> QED  BY <1>0, <2>1, <2>2, <2>3, InvParts, SleeperInsert
<1>3. AlarmTypeOK'
  BY <1>0, <1>2 DEF SleepQueue, Goto, Disabled, AlarmTypeOK, Labels
<1>4. NoAssertFails'
  BY <1>0 DEF SleepQueue, At, NoAssertFails, Interruptible, CpuInv
<1>5. StatusMatch'
  BY <1>0, <1>1, <1>2
     DEF SleepQueue, At, Goto, StatusMatch, AlarmTypeOK, BlockedElsewhere
<1>6. CpuInv'
  BY <1>0 DEF SleepQueue, At, Goto, Disabled, CpuInv, AlarmTypeOK, Interruptible
<1>7. BlockedInv'
  BY <1>0, <1>2 DEF SleepQueue, At, Goto, BlockedInv, CpuInv
<1>8. BootInv'
  BY <1>0 DEF SleepQueue, At, BootInv
<1>9. DueInv'
  BY <1>0 DEF SleepQueue, At, Goto, DueInv, AlarmTypeOK
<1> QED  BY <1>1, <1>2, <1>3, <1>4, <1>5, <1>6, <1>7, <1>8, <1>9, InvParts

\* The first sleeper, whose tick has come, becomes ready.
LEMMA WakeFrontInv ==
  ASSUME AlarmInv, WakeFront
  PROVE  AlarmInv'
<1>0. AlarmTypeOK /\ NoAssertFails /\ StatusMatch /\ CpuInv /\ BlockedInv /\ BootInv /\ DueInv
  BY InvParts
<1>h. PICK u \in Threads : u = Head(wait_list).thread /\ u \in WaitingThreads
      /\ wait_list' \in Seq(Entry) /\ WaitingThreads' = WaitingThreads \ {u}
      /\ SleepersDistinct' /\ SleepersSorted'
  <2>1. wait_list # <<>> /\ wait_list' = Tail(wait_list)
    BY DEF WakeFront, SomeoneDue
  <2>2. /\ wait_list' \in Seq(Entry)
        /\ Head(wait_list).thread \in WaitingThreads
        /\ WaitingThreads' = WaitingThreads \ {Head(wait_list).thread}
        /\ SleepersDistinct' /\ SleepersSorted'
    BY <2>1, InvParts, SleeperPop
  <2> QED  BY <2>2, ReadyInThreads
<1>x. /\ u \in Threads /\ status[u] = "BLOCKED" /\ Unblock(u)
      /\ idle_thread # None /\ u # child /\ u # idle_thread
  BY <1>0, <1>h, ThreadConstants
     DEF WakeFront, StatusMatch, CpuInv, Interruptible, BlockedInv, BootInv
<1>1. /\ ready_list' \in Seq(Threads) /\ ready_list' # <<>>
      /\ ReadyThreads' = ReadyThreads \cup {u} /\ ReadyDistinct' /\ ReadySorted'
  <2>1. u \in Threads /\ u \notin ReadyThreads /\ InsertReady(u) /\ UNCHANGED priority
    BY <1>0, <1>x DEF WakeFront, Unblock, StatusMatch
  <2> QED  BY <2>1, ReadyAdded
<1>2. /\ wait_list' \in Seq(Entry) /\ WaitingThreads' = WaitingThreads \ {u}
      /\ SleepersDistinct' /\ SleepersSorted'
  BY <1>h
<1>3. AlarmTypeOK'
  BY <1>0, <1>1, <1>x, ReadyInThreads
     DEF WakeFront, Unblock, SomeoneDue, AlarmTypeOK, Statuses, PRI_MIN, PRI_MAX
<1>4. NoAssertFails'
  BY <1>x DEF Unblock, NoAssertFails
<1>5. StatusMatch'
  BY <1>0, <1>1, <1>2, <1>x
     DEF WakeFront, Unblock, StatusMatch, AlarmTypeOK, BlockedElsewhere
<1>6. CpuInv'
  BY <1>0, <1>x DEF WakeFront, Unblock, CpuInv, Interruptible
<1>7. BlockedInv'
  BY <1>0, <1>2, <1>x DEF WakeFront, Unblock, BlockedInv, CpuInv
<1>8. BootInv'
  BY <1>x DEF WakeFront, BootInv
<1>9. DueInv'
  BY <1>0 DEF WakeFront, DueInv
<1> QED  BY <1>1, <1>2, <1>3, <1>4, <1>5, <1>6, <1>7, <1>8, <1>9, InvParts

\* The next thread gets the CPU; a dying one is freed.
LEMMA ScheduleInv ==
  ASSUME AlarmInv, NEW t \in Threads, Schedule(t), UNCHANGED timer_vars
  PROVE  AlarmInv'
<1>0. AlarmTypeOK /\ NoAssertFails /\ StatusMatch /\ CpuInv /\ BlockedInv /\ BootInv /\ DueInv
  BY InvParts
<1> DEFINE next == next_thread_to_run
<1>x. /\ next \in Threads
      /\ running' = next
      /\ status' = [status EXCEPT ![t] = LeftStatus(t), ![next] = "RUNNING"]
      /\ pc' = [pc EXCEPT ![next] = "resume"]
      /\ IF ready_list = <<>> THEN next = idle_thread /\ UNCHANGED ready_list
         ELSE next = Head(ready_list) /\ ready_list' = Tail(ready_list) /\ next \in ReadyThreads
      /\ t = running /\ pc[t] = "switch"
      /\ ~in_intr
  <2>1. t = running /\ pc[t] = "switch" /\ ~in_intr
    BY DEF Schedule, At
  <2>2. CASE ready_list = <<>>
    <3>1. next = idle_thread /\ idle_thread \in Threads
      BY <1>0, <2>1, <2>2 DEF next_thread_to_run, BootInv, AlarmTypeOK
    <3> QED  BY <2>1, <2>2, <3>1 DEF Schedule, Goto
  <2>3. CASE ready_list # <<>>
    <3>1. 1 \in DOMAIN ready_list /\ Head(ready_list) = ready_list[1]
      BY <2>3
    <3>2. next = Head(ready_list) /\ next \in ReadyThreads
      BY <3>1 DEF next_thread_to_run, ReadyThreads
    <3> QED  BY <2>1, <2>3, <3>2, ReadyInThreads DEF Schedule, Goto
  <2> QED  BY <2>2, <2>3
<1> HIDE DEF next
<1>1. /\ ready_list' \in Seq(Threads) /\ ReadyThreads' = ReadyThreads \ {next}
      /\ ReadyDistinct' /\ ReadySorted'
  <2>1. \A u \in ReadyThreads : priority'[u] = priority[u]
    BY <1>0 DEF Schedule, LeftStatus, StatusMatch
  <2>2. CASE ready_list = <<>>
    <3>1. ReadyThreads = {}
      BY <2>2 DEF ReadyThreads
    <3> QED  BY <1>x, <2>1, <2>2, <3>1, ReadyKept
  <2>3. CASE ready_list # <<>>
    BY <1>x, <2>1, <2>3, ReadyTaken
  <2> QED  BY <2>2, <2>3
<1>2. /\ wait_list' \in Seq(Entry) /\ WaitingThreads' = WaitingThreads
      /\ SleepersDistinct' /\ SleepersSorted'
  <2>1. UNCHANGED wait_list
    BY DEF timer_vars
  <2> QED  BY <2>1, SleepersKept
<1>3. AlarmTypeOK'
  <2>1. LeftStatus(t) \in Statuses
    BY <1>0 DEF LeftStatus, AlarmTypeOK, Statuses
  <2>2. status' \in [Threads -> Statuses]
    BY <1>0, <1>x, <2>1 DEF AlarmTypeOK, Statuses
  <2>3. pc' \in [Threads -> Labels]
    BY <1>0, <1>x DEF AlarmTypeOK, Labels
  <2>4. priority' \in [Threads -> PRI_MIN .. PRI_MAX]
    BY <1>0 DEF Schedule, AlarmTypeOK, PRI_MIN, PRI_MAX
  <2>5. panic' \in BOOLEAN
    BY DEF Schedule
  <2> QED
    BY <1>0, <1>1, <1>x, <2>2, <2>3, <2>4 DEF Schedule, timer_vars, AlarmTypeOK
<1>4. NoAssertFails'
  BY <1>0, ThreadConstants
     DEF Schedule, At, next_thread_to_run, NoAssertFails, AlarmTypeOK, Interruptible,
         CpuInv, BootInv
<1>5. StatusMatch'
  BY <1>0, <1>1, <1>2, <1>x, ReadyInThreads
     DEF Schedule, LeftStatus, StatusMatch, AlarmTypeOK, BlockedElsewhere, BlockedInv,
         BootInv
<1>6. CpuInv'
  BY <1>0, <1>1
     DEF Schedule, At, Goto, next_thread_to_run, LeftStatus, CpuInv, AlarmTypeOK,
         Interruptible, BootInv
<1>7. BlockedInv'
  BY <1>0, <1>2
     DEF Schedule, At, Goto, next_thread_to_run, LeftStatus, BlockedInv, AlarmTypeOK,
         BootInv
<1>8. BootInv'
  BY <1>0
     DEF Schedule, At, Goto, timer_vars, next_thread_to_run, LeftStatus, BootInv,
         AlarmTypeOK
<1>9. DueInv'
  BY <1>0, <1>x DEF DueInv, CpuInv
<1> QED  BY <1>1, <1>2, <1>3, <1>4, <1>5, <1>6, <1>7, <1>8, <1>9, InvParts

-----------------------------------------------------------------------------

\* At boot only the initial thread exists.
LEMMA AlarmInit ==
  ASSUME Init
  PROVE  AlarmInv
<1> USE ThreadConstants, TimerConstants DEF Init, ThreadInit
<1>1. AlarmTypeOK
  <2>1. ready_list \in Seq(Threads) /\ wait_list \in Seq(Entry)
    OBVIOUS
  <2>2. priority \in [Threads -> PRI_MIN .. PRI_MAX]
    BY DEF PRI_MIN, PRI_MAX, PRI_DEFAULT
  <2>3. status \in [Threads -> Statuses] /\ pc \in [Threads -> Labels]
    BY DEF Statuses, Labels
  <2>4. /\ running \in Threads /\ child \in Threads \cup {None}
        /\ idle_thread \in Threads \cup {None} /\ intr \in {"on", "off"}
        /\ ticks \in Nat /\ due \in Int
    OBVIOUS
  <2>5. in_intr \in BOOLEAN /\ panic \in BOOLEAN
    OBVIOUS
  <2> QED  BY ONLY <2>5, <2>1, <2>2, <2>3, <2>4 DEF AlarmTypeOK
<1>2. NoAssertFails /\ CpuInv
  BY DEF NoAssertFails, CpuInv, Interruptible
<1>3. ReadyThreads = {} /\ WaitingThreads = {}
  BY DEF ReadyThreads, WaitingThreads
<1>4. QueuesMatchStatus
  BY <1>3 DEF QueuesMatchStatus
<1>5. BlockedInv /\ BootInv
  BY <1>3 DEF BlockedInv, BootInv
<1>6. ReadySorted /\ SleepersSorted /\ DueInv
  BY DEF ReadySorted, SleepersSorted, DueInv
<1> QED  BY <1>1, <1>2, <1>4, <1>5, <1>6 DEF AlarmInv

\* Every step keeps the invariant.
LEMMA AlarmStep ==
  ASSUME AlarmInv, [Next]_vars
  PROVE  AlarmInv'
<1>1. ASSUME NEW t \in Threads, KernelStep(t)
      PROVE  AlarmInv'
  <2>1. CASE SleepQueue(t)  BY <2>1, SleepQueueInv
  <2>2. CASE SleepBlock(t)  BY <2>2, SleepBlockInv
  <2>3. CASE ThreadStep(t) /\ UNCHANGED timer_vars
    BY <2>3, CreateIdleInv, CreateUnblockInv, AwaitIdleInv, StartIdleInv, IdleBlockInv,
       IdleHaltInv, ScheduleInv, ResumeInv DEF ThreadStep
  <2> QED  BY <1>1, <2>1, <2>2, <2>3 DEF KernelStep
<1>2. ASSUME NEW t \in Threads, ProgramStep(t)
      PROVE  AlarmInv'
  BY <1>2, CreateInv, SetPriorityInv, YieldInv, ExitInv, SleepStartInv DEF ProgramStep, GiveUp
<1>3. CASE Interrupt  BY <1>3, InterruptInv
<1>4. CASE Handler  BY <1>4, WakeFrontInv, InterruptReturnInv DEF Handler
<1>5. CASE UNCHANGED vars
  <2>1. ReadyThreads' = ReadyThreads /\ WaitingThreads' = WaitingThreads
    BY <1>5 DEF vars, thread_vars, timer_vars, ReadyThreads, WaitingThreads
  <2>2. AlarmTypeOK' /\ NoAssertFails' /\ CpuInv' /\ BlockedInv' /\ BootInv' /\ DueInv'
    BY <1>5, <2>1, InvParts DEF vars, thread_vars, timer_vars, AlarmTypeOK, NoAssertFails, CpuInv,
       Interruptible, BlockedInv, BootInv, DueInv
  <2>3. QueuesMatchStatus'
    BY <1>5, <2>1 DEF AlarmInv, vars, thread_vars, timer_vars, QueuesMatchStatus, BlockedElsewhere
  <2>4. ReadySorted' /\ SleepersSorted'
    BY <1>5 DEF AlarmInv, vars, thread_vars, timer_vars, ReadySorted, SleepersSorted
  <2> QED  BY <2>2, <2>3, <2>4 DEF AlarmInv
<1> QED  BY <1>1, <1>2, <1>3, <1>4, <1>5 DEF Next

\* The invariant holds in every behaviour of the thread system and its timer.
THEOREM AlarmInductive == Spec => []AlarmInv
<1>1. Init => AlarmInv
  BY AlarmInit
<1>2. AlarmInv /\ [Next]_vars => AlarmInv'
  BY AlarmStep
<1> QED  BY <1>1, <1>2, PTL DEF Spec

\* Every variable of the thread system and the timer keeps its type.
THEOREM AlarmTypeCorrect == Spec => []AlarmTypeOK
<1>1. AlarmInv => AlarmTypeOK
  BY DEF AlarmInv
<1> QED  BY <1>1, AlarmInductive, PTL

\* No ASSERT of thread.c or timer.c fails: intr_disable protects every place where
\* a thread is queued and its status does not say so yet.
THEOREM AssertsHold == Spec => []NoAssertFails
<1>1. AlarmInv => NoAssertFails
  BY DEF AlarmInv
<1> QED  BY <1>1, AlarmInductive, PTL

\* ready_list and wait_list hold a thread at most once, and the list it is in is
\* the one its status says.
THEOREM QueuesCorrect == Spec => []QueuesMatchStatus
<1>1. AlarmInv => QueuesMatchStatus
  BY DEF AlarmInv
<1> QED  BY <1>1, AlarmInductive, PTL

\* schedule gives the CPU to a ready thread of the highest priority.
THEOREM HighestFirst == Spec => HighestRunsNext
<1>1. ASSUME AlarmInv, Next, pc[running] = "switch", pc'[running'] = "resume"
      PROVE  /\ \A t \in Threads : status[t] = "READY" => priority[running'] >= priority[t]
             /\ running' = idle_thread => ReadyThreads = {}
  <2>0. AlarmTypeOK /\ StatusMatch /\ CpuInv /\ BlockedInv /\ ReadyDistinct /\ ReadySorted
    BY <1>1, InvParts
  <2>1. ~in_intr /\ intr # "on" /\ running \in Threads
    BY <1>1, <2>0 DEF CpuInv, Interruptible, AlarmTypeOK
  <2>2. Schedule(running)
    BY <1>1, <2>1 DEF Next, KernelStep, ProgramStep, ThreadStep, GiveUp, Handler, Interrupt,
       WakeFront, InterruptReturn, CreateIdle, Create, CreateUnblock, AwaitIdle, StartIdle,
       IdleBlock, IdleHalt, Yield, Exit, SetPriority, Resume, SleepStart, SleepQueue,
       SleepBlock, Block, InProgram, At, Schedule
  <2>3. CASE ready_list = <<>>
    <3>1. ReadyThreads = {}
      BY <2>3 DEF ReadyThreads
    <3> QED  BY <2>0, <3>1 DEF StatusMatch
  <2>4. CASE ready_list # <<>>
    <3>1. running' = Head(ready_list) /\ ready_list' = Tail(ready_list)
      BY <2>2, <2>4 DEF Schedule, next_thread_to_run
    <3>2. /\ Head(ready_list) \in ReadyThreads
          /\ \A t \in ReadyThreads : priority[Head(ready_list)] >= priority[t]
      BY <2>0, <2>4, <3>1, ReadyPop
    <3>3. idle_thread \notin ReadyThreads
      BY <1>1, <2>0, ReadyInThreads, ThreadConstants DEF StatusMatch, BlockedInv
    <3> QED  BY <2>0, <3>1, <3>2, <3>3 DEF StatusMatch
  <2> QED  BY <2>3, <2>4
<1>2. AlarmInv /\ [Next]_vars =>
        [pc[running] = "switch" /\ pc'[running'] = "resume" =>
           /\ \A t \in Threads : status[t] = "READY" => priority[running'] >= priority[t]
           /\ running' = idle_thread => ReadyThreads = {}]_vars
  BY <1>1
<1> QED  BY <1>2, AlarmInductive, PTL DEF Spec, HighestRunsNext

-----------------------------------------------------------------------------

\* A thread that joins wait_list sets its alarm.
LEMMA QueueSetsAlarm ==
  ASSUME AlarmInv, NEW t \in Threads, SleepQueue(t)
  PROVE  Clock!SetAlarm(t)
<1> DEFINE e == [thread |-> t, wake_tick |-> due]
<1>0. AlarmTypeOK /\ StatusMatch /\ CpuInv /\ DueInv /\ SleepersDistinct /\ SleepersSorted
  BY InvParts
<1>1. t = running /\ pc[t] = "sleep" /\ ~in_intr /\ UNCHANGED <<ticks, in_intr>>
  BY DEF SleepQueue, At
<1>2. t \notin WaitingThreads
  BY <1>0, <1>1 DEF StatusMatch, CpuInv
<1>3. e \in Entry /\ e.thread = t /\ e.wake_tick = due
  BY <1>0 DEF AlarmTypeOK, Entry
<1>4. InsertSleeper(e)
  BY DEF SleepQueue
<1> HIDE DEF e
<1>5. Alarms' = Alarms \cup {<<t, due>>}
  BY <1>0, <1>2, <1>3, <1>4, SleeperInsert
<1>6. ~Clock!Asleep(t)
  BY <1>2 DEF Clock!Asleep, Alarms, WaitingThreads
<1>7. \E then \in 0 .. ticks, n \in Spans : due = then + n
  BY <1>0, <1>1 DEF DueInv
<1> QED  BY <1>1, <1>5, <1>6, <1>7 DEF Clock!SetAlarm

\* A round of timer_interrupt's loop wakes an alarm that is due.
LEMMA PopWakesAlarm ==
  ASSUME AlarmInv, WakeFront
  PROVE  \E a \in Alarms : Clock!Wake(a)
<1>0. AlarmTypeOK /\ SleepersDistinct /\ SleepersSorted
  BY InvParts
<1>1. wait_list # <<>> /\ wait_list' = Tail(wait_list)
  BY DEF WakeFront, SomeoneDue
<1> DEFINE a == <<Head(wait_list).thread, Head(wait_list).wake_tick>>
<1>2. a \in Alarms /\ Alarms' = Alarms \ {a}
  BY <1>0, <1>1, SleeperPop
<1>3. a[2] <= ticks /\ in_intr /\ UNCHANGED <<ticks, in_intr>>
  BY DEF WakeFront, SomeoneDue, IsDue
<1>4. Clock!Wake(a)
  BY <1>2, <1>3 DEF Clock!Wake
<1> QED  BY <1>2, <1>4

\* Every step is a step of the alarm clock or leaves it unchanged.
LEMMA ClockStep ==
  ASSUME AlarmInv, [Next]_vars
  PROVE  [Clock!Next]_(Clock!clock_vars)
<1>1. ASSUME UNCHANGED <<ticks, wait_list, in_intr>>
      PROVE  UNCHANGED Clock!clock_vars
  BY <1>1 DEF Clock!clock_vars, Alarms
<1>2. ASSUME NEW t \in Threads, KernelStep(t)
      PROVE  [Clock!Next]_(Clock!clock_vars)
  <2>1. CASE SleepQueue(t)
    BY <2>1, QueueSetsAlarm DEF Clock!Next
  <2>2. CASE SleepBlock(t)
    BY <1>1, <2>2 DEF SleepBlock, Block, timer_vars
  <2>3. CASE ThreadStep(t) /\ UNCHANGED timer_vars
    BY <1>1, <2>3 DEF ThreadStep, timer_vars, CreateIdle, CreateThread, CreateUnblock, AwaitIdle,
       StartIdle, IdleBlock, IdleHalt, Schedule, Resume
  <2> QED  BY <1>2, <2>1, <2>2, <2>3 DEF KernelStep
<1>3. ASSUME NEW t \in Threads, ProgramStep(t)
      PROVE  [Clock!Next]_(Clock!clock_vars)
  BY <1>1, <1>3 DEF ProgramStep, GiveUp, Create, CreateThread, SetPriority, Yield, Exit,
     SleepStart, timer_vars
<1>4. CASE Interrupt
  <2>1. ~in_intr /\ in_intr' = TRUE /\ ticks' = ticks + 1 /\ Alarms' = Alarms
    BY <1>4 DEF Interrupt, Alarms
  <2> QED  BY <2>1 DEF Clock!Next, Clock!Tick
<1>5. CASE WakeFront
  BY <1>5, PopWakesAlarm DEF Clock!Next
<1>6. CASE InterruptReturn
  <2>1. in_intr /\ in_intr' = FALSE /\ UNCHANGED ticks /\ Alarms' = Alarms /\ ~SomeoneDue
    BY <1>6 DEF InterruptReturn, timer_vars, Alarms
  <2>2. \A a \in Alarms : a[2] > ticks
    BY <2>1, InvParts, NobodyDue
  <2> QED  BY <2>1, <2>2 DEF Clock!Next, Clock!Silence
<1>7. CASE UNCHANGED vars
  BY <1>1, <1>7 DEF vars, thread_vars, timer_vars
<1> QED  BY <1>2, <1>3, <1>4, <1>5, <1>6, <1>7 DEF Next, Handler

\* timer_sleep and timer_interrupt implement the abstract alarm clock: no alarm
\* rings early, and no tick passes that leaves an alarm that is due.
THEOREM AlarmImplementsClock == Spec => AlarmClockSpec
<1>1. Init => Clock!Init
  BY DEF Init, ThreadInit, Clock!Init, Alarms
<1>2. AlarmInv /\ [Next]_vars => [Clock!Next]_(Clock!clock_vars)
  BY ClockStep
<1> QED  BY <1>1, <1>2, AlarmInductive, PTL DEF Spec, AlarmClockSpec, Clock!Spec
=============================================================================
