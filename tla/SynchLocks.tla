----------------------------- MODULE SynchLocks ----------------------------
(***************************************************************************)
(* The locks of Threads are mutexes, for any threads, locks, semaphores,   *)
(* condition variables and programs.                                       *)
(***************************************************************************)
EXTENDS Threads, TLAPS

-----------------------------------------------------------------------------

\* The invariant.

Next1(t, op) == todo[t] # <<>> /\ Head(todo[t]) = op

RestOK ==
  /\ status \in [Threads -> Statuses]
  /\ ready_list \in Seq(Threads)
  /\ running \in Threads
  /\ idle_thread \in Threads \cup {None}
  /\ value \in [AllSemas -> Nat]
  /\ waiters \in [AllSemas -> Seq(Threads)]
  /\ holder \in [Locks -> Threads \cup {None}]
  /\ cond_waiters \in [Conds -> Seq(Threads)]
  /\ panic \in BOOLEAN

SynchTypeOK == RestOK /\ todo \in [Threads -> Seq(Op)]

Downs(s) == {<<"down", s>>, <<"woken", s>>}

\* The steps of a lock come in pairs: down and own, disown and up.  A thread
\* waits for a semaphore with a thread's name only if the name is its own.
Paired(t, q) ==
  \A i \in DOMAIN q :
    /\ \A l \in Locks :
         /\ q[i] = <<"own", l>> => i = 1 \/ q[i - 1] \in Downs(l)
         /\ q[i] = <<"up", l>> => i = 1 \/ q[i - 1] = <<"disown", l>>
         /\ q[i] \in Downs(l) => i < Len(q) /\ q[i + 1] = <<"own", l>>
         /\ q[i] = <<"disown", l>> => i < Len(q) /\ q[i + 1] = <<"up", l>>
    /\ \A u \in Threads : q[i] \in Downs(u) => u = t

PairsInv == \A t \in Threads : Paired(t, todo[t])

\* t has taken l's semaphore and is not yet the holder, or is about to raise it.
Between(t, l) == Next1(t, <<"own", l>>) \/ Next1(t, <<"up", l>>)

\* Each lock is free, has a holder, or a thread is between.
MutexInv ==
  \A l \in Locks :
    /\ value[l] \in {0, 1}
    /\ value[l] = 1 => holder[l] = None /\ \A t \in Threads : ~Between(t, l)
    /\ holder[l] # None => \A t \in Threads : ~Between(t, l)
    /\ \A t, u \in Threads : Between(t, l) /\ Between(u, l) => t = u

LockInv == SynchTypeOK /\ PairsInv /\ (~panic => MutexInv)

-----------------------------------------------------------------------------

\* Sequences of steps.

LEMMA Names ==
  /\ \A l \in Locks : l \in AllSemas /\ l \notin Semas /\ l \notin Threads /\ l # "idle_started"
  /\ \A u \in Threads : u \in AllSemas /\ u \notin Semas /\ u \notin Locks /\ u # "idle_started"
  /\ \A s \in Semas : s \in AllSemas /\ s \notin Locks /\ s \notin Threads
  /\ "idle_started" \in AllSemas
  /\ tid_lock \in Locks /\ \A c \in Conds : Guard[c] \in Locks
BY SynchConstants DEF AllSemas

LEMMA PairedTail ==
  ASSUME NEW t, NEW q \in Seq(Op), q # <<>>, Paired(t, q)
  PROVE  /\ Tail(q) \in Seq(Op) /\ Paired(t, Tail(q))
         /\ \A l \in Locks :
              /\ (Tail(q) # <<>> /\ Head(Tail(q)) = <<"own", l>>) <=> Head(q) \in Downs(l)
              /\ (Tail(q) # <<>> /\ Head(Tail(q)) = <<"up", l>>) <=> Head(q) = <<"disown", l>>
<1> DEFINE r == Tail(q)
<1>0. /\ r \in Seq(Op) /\ Len(q) \in Nat /\ Len(q) >= 1 /\ Len(r) = Len(q) - 1
      /\ DOMAIN r = 1 .. Len(q) - 1 /\ DOMAIN q = 1 .. Len(q)
      /\ \A i \in 1 .. Len(q) - 1 : r[i] = q[i + 1]
      /\ Head(q) = q[1] /\ (r # <<>> <=> Len(q) > 1) /\ (r # <<>> => Head(r) = q[2])
  <2>1. /\ r \in Seq(Op) /\ Len(q) \in Nat /\ Len(q) >= 1 /\ Len(r) = Len(q) - 1
        /\ DOMAIN q = 1 .. Len(q) /\ Head(q) = q[1]
    OBVIOUS
  <2>2. DOMAIN r = 1 .. Len(q) - 1 /\ \A i \in 1 .. Len(q) - 1 : r[i] = q[i + 1]
    OBVIOUS
  <2> HIDE DEF r
  <2>3. r # <<>> <=> Len(q) > 1
    BY <2>1
  <2>4. r # <<>> => Head(r) = q[2]
    BY <2>1, <2>2, <2>3
  <2> QED
    BY <2>1, <2>2, <2>3, <2>4
<1> HIDE DEF r
<1>1. ASSUME NEW i \in 1 .. Len(q) - 1, NEW l \in Locks
      PROVE  /\ r[i] = <<"own", l>> => i = 1 \/ r[i - 1] \in Downs(l)
             /\ r[i] = <<"up", l>> => i = 1 \/ r[i - 1] = <<"disown", l>>
             /\ r[i] \in Downs(l) => i < Len(r) /\ r[i + 1] = <<"own", l>>
             /\ r[i] = <<"disown", l>> => i < Len(r) /\ r[i + 1] = <<"up", l>>
  <2>1. i + 1 \in DOMAIN q /\ r[i] = q[i + 1] /\ i + 1 # 1 /\ i + 1 - 1 = i
    BY <1>0
  <2>2. /\ q[i + 1] = <<"own", l>> => q[i] \in Downs(l)
        /\ q[i + 1] = <<"up", l>> => q[i] = <<"disown", l>>
        /\ q[i + 1] \in Downs(l) => i + 1 < Len(q) /\ q[i + 1 + 1] = <<"own", l>>
        /\ q[i + 1] = <<"disown", l>> => i + 1 < Len(q) /\ q[i + 1 + 1] = <<"up", l>>
    BY <2>1 DEF Paired
  <2>3. i = 1 \/ r[i - 1] = q[i]
    BY <1>0
  <2>4. i + 1 < Len(q) => i < Len(r) /\ r[i + 1] = q[i + 1 + 1]
    BY <1>0
  <2> QED
    BY <2>1, <2>2, <2>3, <2>4
<1>2. ASSUME NEW i \in 1 .. Len(q) - 1, NEW u \in Threads, r[i] \in Downs(u) PROVE u = t
  BY <1>0, <1>2 DEF Paired
<1>3. Paired(t, r)
  BY <1>0, <1>1, <1>2 DEF Paired
<1>4. ASSUME NEW l \in Locks
      PROVE  /\ (r # <<>> /\ Head(r) = <<"own", l>>) <=> Head(q) \in Downs(l)
             /\ (r # <<>> /\ Head(r) = <<"up", l>>) <=> Head(q) = <<"disown", l>>
  <2>1. 1 \in DOMAIN q
    BY <1>0
  <2>2. /\ q[1] \in Downs(l) => 1 < Len(q) /\ q[2] = <<"own", l>>
        /\ q[1] = <<"disown", l>> => 1 < Len(q) /\ q[2] = <<"up", l>>
    BY <2>1 DEF Paired
  <2>3. ASSUME 1 < Len(q)
        PROVE  /\ q[2] = <<"own", l>> => q[1] \in Downs(l)
               /\ q[2] = <<"up", l>> => q[1] = <<"disown", l>>
    <3>1. 2 \in DOMAIN q /\ 2 # 1 /\ 2 - 1 = 1
      BY <1>0, <2>3
    <3> QED
      BY <3>1 DEF Paired
  <2> QED
    BY <1>0, <2>2, <2>3
<1> QED
  BY <1>0, <1>3, <1>4 DEF r

\* No pair is torn where two sequences meet.
Starts(q) == q = <<>> \/ \A l \in Locks : q[1] # <<"own", l>> /\ q[1] # <<"up", l>>

LEMMA PairedConcat ==
  ASSUME NEW t, NEW p \in Seq(Op), NEW q \in Seq(Op), Paired(t, p), Paired(t, q), Starts(q)
  PROVE  p \o q \in Seq(Op) /\ Paired(t, p \o q) /\ (Starts(p) => Starts(p \o q))
<1> DEFINE r == p \o q
<1>0. /\ r \in Seq(Op) /\ Len(p) \in Nat /\ Len(q) \in Nat /\ Len(r) = Len(p) + Len(q)
      /\ DOMAIN r = 1 .. Len(r) /\ DOMAIN p = 1 .. Len(p) /\ DOMAIN q = 1 .. Len(q)
      /\ \A i \in 1 .. Len(p) : r[i] = p[i]
      /\ \A i \in 1 .. Len(q) : r[Len(p) + i] = q[i]
  OBVIOUS
<1>s. Len(q) = 0 \/ \A l \in Locks : q[1] # <<"own", l>> /\ q[1] # <<"up", l>>
  BY DEF Starts
<1> HIDE DEF r
<1>1. ASSUME NEW i \in DOMAIN r, i <= Len(p), NEW l \in Locks
      PROVE  /\ r[i] = <<"own", l>> => i = 1 \/ r[i - 1] \in Downs(l)
             /\ r[i] = <<"up", l>> => i = 1 \/ r[i - 1] = <<"disown", l>>
             /\ r[i] \in Downs(l) => i < Len(r) /\ r[i + 1] = <<"own", l>>
             /\ r[i] = <<"disown", l>> => i < Len(r) /\ r[i + 1] = <<"up", l>>
  <2>1. i \in DOMAIN p /\ i \in Nat /\ r[i] = p[i] /\ (i = 1 \/ r[i - 1] = p[i - 1])
        /\ (i < Len(p) => r[i + 1] = p[i + 1] /\ i < Len(r))
    BY <1>0, <1>1
  <2> QED
    BY <2>1 DEF Paired
<1>2. ASSUME NEW i \in DOMAIN r, i > Len(p), NEW l \in Locks
      PROVE  /\ r[i] = <<"own", l>> => i = 1 \/ r[i - 1] \in Downs(l)
             /\ r[i] = <<"up", l>> => i = 1 \/ r[i - 1] = <<"disown", l>>
             /\ r[i] \in Downs(l) => i < Len(r) /\ r[i + 1] = <<"own", l>>
             /\ r[i] = <<"disown", l>> => i < Len(r) /\ r[i + 1] = <<"up", l>>
  <2>1. PICK j \in 1 .. Len(q) : i = Len(p) + j
    <3>1. i - Len(p) \in 1 .. Len(q)
      BY <1>0, <1>2
    <3> QED
      BY <1>0, <3>1
  <2>2. j \in DOMAIN q /\ r[i] = q[j] /\ (j = 1 \/ r[i - 1] = q[j - 1])
        /\ (j < Len(q) => r[i + 1] = q[j + 1] /\ i < Len(r))
    <3>0. /\ Len(p) \in Nat /\ Len(q) \in Nat /\ Len(r) = Len(p) + Len(q)
          /\ j \in 1 .. Len(q) /\ i = Len(p) + j
      BY <1>0, <2>1
    <3>1. j # 1 => j - 1 \in 1 .. Len(q) /\ i - 1 = Len(p) + (j - 1)
      BY ONLY <3>0
    <3>2. j < Len(q) => j + 1 \in 1 .. Len(q) /\ i + 1 = Len(p) + (j + 1) /\ i < Len(r)
      BY ONLY <3>0
    <3>a. \A k \in 1 .. Len(q), n \in Int : n = Len(p) + k => r[n] = q[k]
      BY <1>0
    <3>3. j # 1 => r[i - 1] = q[j - 1]
      <4> SUFFICES ASSUME j # 1 PROVE r[i - 1] = q[j - 1]
        OBVIOUS
      <4>1. i - 1 \in Int
        BY <1>0, <2>1
      <4> QED
        BY ONLY <3>a, <3>1, <4>1, j # 1
    <3>4. j < Len(q) => r[i + 1] = q[j + 1] /\ i < Len(r)
      <4> SUFFICES ASSUME j < Len(q) PROVE r[i + 1] = q[j + 1] /\ i < Len(r)
        OBVIOUS
      <4>1. i + 1 \in Int
        BY <1>0, <2>1
      <4> QED
        BY ONLY <3>a, <3>2, <4>1, j < Len(q)
    <3>5. j \in DOMAIN q /\ r[i] = q[j]
      BY <1>0, <2>1
    <3> QED
      BY <3>3, <3>4, <3>5
  <2>3. j = 1 => r[i] # <<"own", l>> /\ r[i] # <<"up", l>>
    BY <1>s, <2>1, <2>2
  <2> QED
    BY <2>2, <2>3 DEF Paired
<1>3. ASSUME NEW i \in DOMAIN r, NEW u \in Threads, r[i] \in Downs(u) PROVE u = t
  <2>1. CASE i <= Len(p)
    <3>1. i \in DOMAIN p /\ r[i] = p[i]
      BY <1>0, <2>1
    <3> QED
      BY <3>1, <1>3 DEF Paired
  <2>2. CASE i > Len(p)
    <3>1. i - Len(p) \in DOMAIN q /\ i = Len(p) + (i - Len(p))
      BY <1>0, <2>2
    <3>2. PICK j \in DOMAIN q : i = Len(p) + j
      BY <3>1
    <3>3. r[i] = q[j]
      BY <1>0, <3>2
    <3> QED
      BY <3>3, <1>3 DEF Paired
  <2> QED
    BY <1>0, <2>1, <2>2
<1>4. \A i \in DOMAIN r : i <= Len(p) \/ i > Len(p)
  BY <1>0
<1>5. Paired(t, r)
  BY <1>1, <1>2, <1>3, <1>4 DEF Paired
<1>6. ASSUME Starts(p) PROVE Starts(r)
  <2>1. CASE Len(p) = 0
    <3>1. Len(q) = 0 => r = <<>>
      BY <1>0, <2>1
    <3>2. Len(q) # 0 => r[1] = q[1]
      BY <1>0, <2>1
    <3> QED
      BY <1>s, <3>1, <3>2 DEF Starts
  <2>2. CASE Len(p) # 0
    <3>1. p # <<>> /\ r[1] = p[1]
      BY <1>0, <2>2
    <3> QED
      BY <1>6, <3>1 DEF Starts
  <2> QED
    BY <2>1, <2>2
<1> QED
  BY <1>0, <1>5, <1>6 DEF r

LEMMA PairedSingle ==
  ASSUME NEW t, NEW op \in Op,
         \A l \in Locks : op \notin Downs(l) /\ op # <<"disown", l>>,
         \A u \in Threads : op \in Downs(u) => u = t
  PROVE  /\ <<op>> \in Seq(Op) /\ Paired(t, <<op>>)
         /\ (\A l \in Locks : op # <<"own", l>> /\ op # <<"up", l>>) => Starts(<<op>>)
BY DEF Paired, Starts

LEMMA PairedLock ==
  ASSUME NEW t, NEW l \in Locks
  PROVE  /\ lock_acquire(l) \in Seq(Op) /\ Paired(t, lock_acquire(l)) /\ Starts(lock_acquire(l))
         /\ lock_release(l) \in Seq(Op) /\ Paired(t, lock_release(l)) /\ Starts(lock_release(l))
<1>0. l \in AllSemas /\ l \notin Threads
  BY Names
<1>1. /\ <<"down", l>> \in Op /\ <<"own", l>> \in Op
      /\ <<"disown", l>> \in Op /\ <<"up", l>> \in Op
  BY <1>0 DEF Op
<1>2. ASSUME NEW q, q = << <<"down", l>>, <<"own", l>> >>
      PROVE  q \in Seq(Op) /\ Paired(t, q) /\ Starts(q)
  <2>1. DOMAIN q = {1, 2} /\ q[1] = <<"down", l>> /\ q[2] = <<"own", l>> /\ Len(q) = 2 /\ q \in Seq(Op)
    BY <1>1, <1>2
  <2> QED
    BY <2>1, <1>0 DEF Paired, Starts, Downs
<1>3. ASSUME NEW q, q = << <<"disown", l>>, <<"up", l>> >>
      PROVE  q \in Seq(Op) /\ Paired(t, q) /\ Starts(q)
  <2>1. DOMAIN q = {1, 2} /\ q[1] = <<"disown", l>> /\ q[2] = <<"up", l>> /\ Len(q) = 2 /\ q \in Seq(Op)
    BY <1>1, <1>3
  <2> QED
    BY <2>1, <1>0 DEF Paired, Starts, Downs
<1> QED
  BY <1>2, <1>3 DEF lock_acquire, lock_release

LEMMA PairedWoken ==
  ASSUME NEW t, NEW q \in Seq(Op), q # <<>>, Paired(t, q),
         NEW s \in AllSemas, Head(q) \in Downs(s)
  PROVE  << <<"woken", s>> >> \o Tail(q) \in Seq(Op)
         /\ Paired(t, << <<"woken", s>> >> \o Tail(q))
<1> DEFINE r == << <<"woken", s>> >> \o Tail(q)
<1>1. <<"woken", s>> \in Op
  BY DEF Op
<1>2. /\ r \in Seq(Op) /\ Len(r) = Len(q) /\ DOMAIN r = DOMAIN q /\ DOMAIN q = 1 .. Len(q)
      /\ r[1] = <<"woken", s>> /\ \A i \in DOMAIN q : i # 1 => r[i] = q[i]
  BY <1>1
<1>3. q[1] \in Downs(s) /\ 1 \in DOMAIN q /\ Len(q) \in Nat
  OBVIOUS
<1> HIDE DEF r
<1>4. \A x : r[1] \in Downs(x) <=> q[1] \in Downs(x)
  BY <1>2, <1>3 DEF Downs
<1>5. ASSUME NEW i \in DOMAIN r, NEW l \in Locks
      PROVE  /\ r[i] = <<"own", l>> => i = 1 \/ r[i - 1] \in Downs(l)
             /\ r[i] = <<"up", l>> => i = 1 \/ r[i - 1] = <<"disown", l>>
             /\ r[i] \in Downs(l) => i < Len(r) /\ r[i + 1] = <<"own", l>>
             /\ r[i] = <<"disown", l>> => i < Len(r) /\ r[i + 1] = <<"up", l>>
  <2>1. /\ q[i] = <<"own", l>> => i = 1 \/ q[i - 1] \in Downs(l)
        /\ q[i] = <<"up", l>> => i = 1 \/ q[i - 1] = <<"disown", l>>
        /\ q[i] \in Downs(l) => i < Len(q) /\ q[i + 1] = <<"own", l>>
        /\ q[i] = <<"disown", l>> => i < Len(q) /\ q[i + 1] = <<"up", l>>
    BY <1>2 DEF Paired
  <2>2. i \in 1 .. Len(q) /\ (i < Len(q) => i + 1 \in DOMAIN q /\ i + 1 # 1)
    BY <1>2, <1>3
  <2>3. i < Len(q) => r[i + 1] = q[i + 1]
    BY <1>2, <2>2
  <2>4. CASE i = 1
    <3>1. r[i] # <<"own", l>> /\ r[i] # <<"up", l>> /\ r[i] # <<"disown", l>>
      BY <1>2, <2>4
    <3>2. r[i] \in Downs(l) => q[i] \in Downs(l)
      BY <1>4, <2>4
    <3> QED
      BY <1>2, <2>1, <2>3, <3>1, <3>2
  <2>5. CASE i # 1
    <3>1. r[i] = q[i]
      BY <1>2, <2>5
    <3>2. i - 1 \in DOMAIN q
      BY <1>2, <1>3, <2>2, <2>5
    <3>3. r[i - 1] = q[i - 1] \/ (i - 1 = 1 /\ q[1] \in Downs(s) /\ r[1] = <<"woken", s>>)
      BY <1>2, <1>3, <3>2
    <3>4. q[i - 1] # <<"disown", l>> \/ r[i - 1] = q[i - 1]
      BY <3>3 DEF Downs
    <3>5. q[i - 1] \in Downs(l) => r[i - 1] \in Downs(l)
      BY <1>4, <3>3
    <3> QED
      BY <1>2, <2>1, <2>3, <3>1, <3>4, <3>5
  <2> QED
    BY <2>4, <2>5
<1>6. ASSUME NEW i \in DOMAIN r, NEW u \in Threads, r[i] \in Downs(u) PROVE u = t
  <2>1. q[i] \in Downs(u)
    BY <1>2, <1>4, <1>6
  <2> QED
    BY <1>2, <2>1 DEF Paired
<1> QED
  BY <1>2, <1>5, <1>6 DEF Paired, r

-----------------------------------------------------------------------------

\* Locks.

LEMMA TodoStep ==
  ASSUME SynchTypeOK, PairsInv, NEW t \in Threads, NEW q \in Seq(Op), Paired(t, q), Then(t, q)
  PROVE  /\ todo' \in [Threads -> Seq(Op)] /\ PairsInv' /\ todo'[t] = q
         /\ \A u \in Threads : u # t => todo'[u] = todo[u]
BY DEF SynchTypeOK, PairsInv, Then

LEMMA DoneStep ==
  ASSUME SynchTypeOK, PairsInv, NEW t \in Threads, NEW op, NextStep(t, op), Done(t)
  PROVE  /\ todo' \in [Threads -> Seq(Op)] /\ PairsInv'
         /\ \A u \in Threads : u # t => todo'[u] = todo[u]
         /\ \A l \in Locks :
              /\ Next1(t, <<"own", l>>)' <=> op \in Downs(l)
              /\ Next1(t, <<"up", l>>)' <=> op = <<"disown", l>>
<1>1. /\ todo[t] \in Seq(Op) /\ todo[t] # <<>> /\ Head(todo[t]) = op /\ Paired(t, todo[t])
      /\ Then(t, Tail(todo[t]))
  BY DEF SynchTypeOK, PairsInv, NextStep, Done
<1>2. /\ Tail(todo[t]) \in Seq(Op) /\ Paired(t, Tail(todo[t]))
      /\ \A l \in Locks :
           /\ (Tail(todo[t]) # <<>> /\ Head(Tail(todo[t])) = <<"own", l>>) <=> op \in Downs(l)
           /\ (Tail(todo[t]) # <<>> /\ Head(Tail(todo[t])) = <<"up", l>>) <=> op = <<"disown", l>>
  BY <1>1, PairedTail
<1>3. /\ todo' \in [Threads -> Seq(Op)] /\ PairsInv' /\ todo'[t] = Tail(todo[t])
      /\ \A u \in Threads : u # t => todo'[u] = todo[u]
  BY <1>1, <1>2, TodoStep
<1> QED
  BY <1>2, <1>3 DEF Next1

\* A step of t after which t is not between, and that leaves locks alone.
LEMMA QuietMutex ==
  ASSUME MutexInv, NEW t \in Threads,
         \A u \in Threads : u # t => todo'[u] = todo[u],
         \A l \in Locks : value'[l] = value[l] /\ holder'[l] = holder[l] /\ ~Between(t, l)'
  PROVE  MutexInv'
<1>1. \A u \in Threads, l \in Locks : Between(u, l)' => Between(u, l)
  BY DEF Between, Next1
<1> QED
  BY <1>1 DEF MutexInv

LEMMA QuietStep ==
  ASSUME LockInv, ~panic, NEW t \in Threads, NEW q \in Seq(Op), Paired(t, q), Starts(q), Then(t, q),
         \A l \in Locks : value'[l] = value[l] /\ holder'[l] = holder[l],
         RestOK'
  PROVE  LockInv'
<1>1. /\ todo' \in [Threads -> Seq(Op)] /\ PairsInv' /\ todo'[t] = q
      /\ \A u \in Threads : u # t => todo'[u] = todo[u]
  BY TodoStep DEF LockInv
<1>2. \A l \in Locks : ~Between(t, l)'
  BY <1>1 DEF Between, Next1, Starts
<1>3. MutexInv'
  BY <1>1, <1>2, QuietMutex DEF LockInv
<1> QED
  BY <1>1, <1>3 DEF LockInv, SynchTypeOK

LEMMA QuietDone ==
  ASSUME LockInv, ~panic, NEW t \in Threads, NEW op, NextStep(t, op), Done(t),
         \A l \in Locks : op \notin Downs(l) /\ op # <<"disown", l>>,
         \A l \in Locks : value'[l] = value[l] /\ holder'[l] = holder[l],
         RestOK'
  PROVE  LockInv'
<1>1. /\ todo' \in [Threads -> Seq(Op)] /\ PairsInv'
      /\ \A u \in Threads : u # t => todo'[u] = todo[u]
      /\ \A l \in Locks : ~Next1(t, <<"own", l>>)' /\ ~Next1(t, <<"up", l>>)'
  BY DoneStep DEF LockInv
<1>2. \A l \in Locks : ~Between(t, l)'
  BY <1>1 DEF Between
<1>3. MutexInv'
  BY <1>1, <1>2, QuietMutex DEF LockInv
<1> QED
  BY <1>1, <1>3 DEF LockInv, SynchTypeOK

LEMMA StillStep ==
  ASSUME LockInv, ~panic, todo' = todo, RestOK',
         \A l \in Locks : value'[l] = value[l] /\ holder'[l] = holder[l]
  PROVE  LockInv'
<1>1. PairsInv' /\ \A u \in Threads, l \in Locks : Between(u, l)' <=> Between(u, l)
  BY DEF LockInv, PairsInv, Between, Next1
<1>2. MutexInv'
  BY <1>1 DEF LockInv, MutexInv
<1> QED
  BY <1>1, <1>2 DEF LockInv, SynchTypeOK

LEMMA ScheduleTypes ==
  ASSUME RestOK, NEW t \in Threads, NEW st \in Statuses, NEW sts \in [Threads -> Statuses],
         NEW q \in Seq(Threads), Schedule(t, st, sts, q)
  PROVE  /\ status' \in [Threads -> Statuses] /\ ready_list' \in Seq(Threads)
         /\ running' \in Threads /\ panic' \in BOOLEAN
<1>1. CASE next_thread_to_run(q) = None
  BY <1>1 DEF Schedule, RestOK
<1>2. CASE next_thread_to_run(q) # None
  <2>1. next_thread_to_run(q) \in Threads
    BY <1>2 DEF next_thread_to_run, RestOK
  <2>2. AfterSwitch(t, st) \in Statuses /\ "RUNNING" \in Statuses
    BY DEF AfterSwitch, Statuses
  <2>3. PopFront(q) \in Seq(Threads)
    BY DEF PopFront
  <2>4. /\ status' = [sts EXCEPT ![t] = AfterSwitch(t, st), ![next_thread_to_run(q)] = "RUNNING"]
        /\ ready_list' = PopFront(q) /\ running' = next_thread_to_run(q) /\ panic' = panic
    BY <1>2 DEF Schedule
  <2> QED
    BY <2>1, <2>2, <2>3, <2>4 DEF RestOK
<1> QED
  BY <1>1, <1>2

LEMMA UnblockTypes ==
  ASSUME RestOK, NEW us \in Seq(Threads), Unblock(us)
  PROVE  /\ status' \in [Threads -> Statuses] /\ ready_list' \in Seq(Threads)
         /\ running' \in Threads /\ panic' \in BOOLEAN
BY DEF Unblock, RestOK, Statuses

LEMMA FirstTypes ==
  ASSUME RestOK, NEW s \in AllSemas
  PROVE  /\ First(s) \in Seq(Threads)
         /\ waiters[s] = <<>> => First(s) = <<>>
         /\ waiters[s] # <<>> => First(s) = <<Head(waiters[s])>> /\ Head(waiters[s]) \in Threads
         /\ SubSeq(waiters[s], Len(First(s)) + 1, Len(waiters[s]))
              = IF waiters[s] = <<>> THEN <<>> ELSE Tail(waiters[s])
<1>1. waiters[s] \in Seq(Threads)
  BY DEF RestOK
<1>2. CASE waiters[s] = <<>>
  <2>1. First(s) = <<>>
    BY <1>2 DEF First
  <2>2. SubSeq(waiters[s], Len(First(s)) + 1, Len(waiters[s])) = <<>>
    BY <1>2, <2>1
  <2> QED
    BY <1>2, <2>1, <2>2
<1>3. CASE waiters[s] # <<>>
  <2>1. First(s) = <<Head(waiters[s])>> /\ Head(waiters[s]) \in Threads /\ Len(First(s)) = 1
    BY <1>1, <1>3 DEF First
  <2>2. SubSeq(waiters[s], Len(First(s)) + 1, Len(waiters[s])) = Tail(waiters[s])
    BY <1>1, <1>3, <2>1
  <2> QED
    BY <1>3, <2>1, <2>2
<1> QED
  BY <1>2, <1>3

LEMMA UpTypes ==
  ASSUME RestOK, NEW ss, Up(ss)
  PROVE  /\ value' \in [AllSemas -> Nat] /\ waiters' \in [AllSemas -> Seq(Threads)]
         /\ \A s \in AllSemas : /\ value'[s] = IF s \in ss THEN value[s] + 1 ELSE value[s]
                                /\ waiters'[s] = IF s \notin ss \/ waiters[s] = <<>> THEN waiters[s]
                                                 ELSE Tail(waiters[s])
<1>1. \A s \in AllSemas :
        /\ value'[s] = IF s \in ss THEN value[s] + 1 ELSE value[s]
        /\ waiters'[s] = IF s \notin ss \/ waiters[s] = <<>> THEN waiters[s] ELSE Tail(waiters[s])
  BY FirstTypes DEF Up
<1>2. \A s \in AllSemas : value[s] \in Nat /\ waiters[s] \in Seq(Threads)
  BY DEF RestOK
<1>3. value' \in [AllSemas -> Nat]
  BY <1>2 DEF Up
<1>4. ASSUME NEW s \in AllSemas PROVE waiters'[s] \in Seq(Threads)
  <2>1. waiters[s] \in Seq(Threads) /\ (waiters[s] # <<>> => Tail(waiters[s]) \in Seq(Threads))
    BY <1>2
  <2> QED
    BY <1>1, <2>1
<1>5. waiters' = [s \in AllSemas |-> waiters'[s]]
  BY DEF Up
<1> QED
  BY <1>1, <1>3, <1>4, <1>5

LEMMA DownLocks ==
  ASSUME LockInv, ~panic, NEW t \in Threads, NEW s \in AllSemas, Down(t, s)
  PROVE  LockInv'
<1>0. RestOK /\ todo[t] \in Seq(Op) /\ Paired(t, todo[t])
      /\ UNCHANGED <<idle_thread, holder, cond_waiters>>
  BY DEF LockInv, SynchTypeOK, PairsInv, Down
<1>1. PICK op \in Downs(s) : NextStep(t, op)
  BY DEF Down, Downs
<1>2. CASE DownTake(t, s)
  <2>1. /\ value[s] > 0 /\ value' = [value EXCEPT ![s] = @ - 1] /\ Done(t)
        /\ UNCHANGED <<status, ready_list, running, waiters, panic>>
    BY <1>2 DEF DownTake
  <2>2. RestOK'
    <3>1. value' \in [AllSemas -> Nat]
      BY <1>0, <2>1 DEF RestOK
    <3> QED
      BY <1>0, <2>1, <3>1 DEF RestOK
  <2>3. CASE s \notin Locks
    <3>1. \A l \in Locks : op \notin Downs(l) /\ op # <<"disown", l>> /\ value'[l] = value[l]
      BY <1>0, <1>1, <2>1, <2>3 DEF Downs, RestOK
    <3> QED
      BY <1>0, <1>1, <2>1, <2>2, <3>1, QuietDone
  <2>4. CASE s \in Locks
    <3>1. /\ todo' \in [Threads -> Seq(Op)] /\ PairsInv'
          /\ \A u \in Threads : u # t => todo'[u] = todo[u]
          /\ \A l \in Locks : /\ Next1(t, <<"own", l>>)' <=> op \in Downs(l)
                              /\ Next1(t, <<"up", l>>)' <=> op = <<"disown", l>>
      BY <1>1, <2>1, DoneStep DEF LockInv
    <3>2. \A l \in Locks : Between(t, l)' => l = s
      BY <1>1, <3>1 DEF Between, Downs
    <3>3. \A u \in Threads, l \in Locks : u # t => (Between(u, l)' <=> Between(u, l))
      BY <3>1 DEF Between, Next1
    <3>4. value[s] = 1 /\ value'[s] = 0 /\ holder'[s] = None /\ \A u \in Threads : ~Between(u, s)
      BY <1>0, <2>1, <2>4 DEF LockInv, MutexInv, RestOK
    <3>5. \A l \in Locks : l # s => value'[l] = value[l] /\ holder'[l] = holder[l]
      BY <1>0, <2>1 DEF RestOK
    <3>6. MutexInv'
      BY <1>0, <3>2, <3>3, <3>4, <3>5 DEF LockInv, MutexInv
    <3> QED
      BY <2>2, <3>1, <3>6 DEF LockInv, SynchTypeOK
  <2> QED
    BY <2>3, <2>4
<1>3. CASE DownSleep(t, s)
  <2>1. /\ waiters' = [waiters EXCEPT ![s] = Append(@, t)] /\ value' = value
        /\ Block(t) /\ Becomes(t, <<"woken", s>>)
    BY <1>3 DEF DownSleep
  <2>2. RestOK'
    <3>1. waiters' \in [AllSemas -> Seq(Threads)]
      BY <1>0, <2>1 DEF RestOK
    <3>2. status \in [Threads -> Statuses] /\ ready_list \in Seq(Threads) /\ "BLOCKED" \in Statuses
      BY <1>0 DEF RestOK, Statuses
    <3>3. /\ status' \in [Threads -> Statuses] /\ ready_list' \in Seq(Threads)
          /\ running' \in Threads /\ panic' \in BOOLEAN
      BY <1>0, <2>1, <3>2, ScheduleTypes DEF Block
    <3> QED
      BY <1>0, <2>1, <3>1, <3>3 DEF RestOK
  <2>3. todo[t] # <<>> /\ Head(todo[t]) \in Downs(s)
    BY <1>1 DEF NextStep
  <2>4. PICK q : q = << <<"woken", s>> >> \o Tail(todo[t])
    OBVIOUS
  <2>5. q \in Seq(Op) /\ Paired(t, q)
    BY <1>0, <2>3, <2>4, PairedWoken
  <2>6. Starts(q)
    <3>1. Tail(todo[t]) \in Seq(Op)
      BY <1>0, <2>3
    <3>2. q[1] = <<"woken", s>>
      BY <2>4, <3>1
    <3> QED
      BY <3>2 DEF Starts
  <2>7. Then(t, q)
    BY <2>1, <2>4 DEF Becomes
  <2> QED
    BY <1>0, <2>1, <2>2, <2>5, <2>6, <2>7, QuietStep
<1> QED
  BY <1>2, <1>3 DEF Down

LEMMA SemaUpLocks ==
  ASSUME LockInv, ~panic, NEW t \in Threads, NEW s \in AllSemas, SemaUp(t, s)
  PROVE  LockInv'
<1>0. /\ RestOK /\ NextStep(t, <<"up", s>>) /\ Up({s}) /\ Unblock(First(s)) /\ Done(t)
      /\ UNCHANGED <<idle_thread, holder, cond_waiters>>
  BY DEF LockInv, SynchTypeOK, SemaUp
<1>1. RestOK'
  <2>1. value' \in [AllSemas -> Nat] /\ waiters' \in [AllSemas -> Seq(Threads)]
    BY <1>0, UpTypes
  <2>2. /\ status' \in [Threads -> Statuses] /\ ready_list' \in Seq(Threads)
        /\ running' \in Threads /\ panic' \in BOOLEAN
    BY <1>0, FirstTypes, UnblockTypes
  <2> QED
    BY <1>0, <2>1, <2>2 DEF RestOK
<1>2. \A l \in Locks : value'[l] = IF l = s THEN value[l] + 1 ELSE value[l]
  BY <1>0, UpTypes, Names
<1>3. \A l \in Locks : <<"up", s>> \notin Downs(l) /\ <<"up", s>> # <<"disown", l>>
  BY DEF Downs
<1>4. CASE s \notin Locks
  <2>1. \A l \in Locks : value'[l] = value[l] /\ holder'[l] = holder[l]
    BY <1>0, <1>2, <1>4
  <2> QED
    BY <1>0, <1>1, <1>3, <2>1, QuietDone
<1>5. CASE s \in Locks
  <2>1. /\ todo' \in [Threads -> Seq(Op)] /\ PairsInv'
        /\ \A u \in Threads : u # t => todo'[u] = todo[u]
        /\ \A l \in Locks : ~Next1(t, <<"own", l>>)' /\ ~Next1(t, <<"up", l>>)'
    BY <1>0, <1>3, DoneStep DEF LockInv
  <2>2. \A u \in Threads, l \in Locks : Between(u, l)' => u # t /\ Between(u, l)
    BY <2>1 DEF Between, Next1
  <2>3. Between(t, s)
    BY <1>0 DEF Between, Next1, NextStep
  <2>4. value[s] = 0 /\ holder[s] = None /\ \A u \in Threads : Between(u, s) => u = t
    BY <1>5, <2>3 DEF LockInv, MutexInv
  <2>5. value'[s] = 1
    BY <1>2, <1>5, <2>4
  <2>6. \A l \in Locks : l # s => value'[l] = value[l]
    BY <1>2
  <2>7. MutexInv'
    BY <1>0, <2>2, <2>4, <2>5, <2>6 DEF LockInv, MutexInv
  <2> QED
    BY <1>1, <2>1, <2>7 DEF LockInv, SynchTypeOK
<1> QED
  BY <1>4, <1>5

LEMMA LockStepLocks ==
  ASSUME LockInv, ~panic, NEW t \in Threads, LockStep(t)
  PROVE  LockInv'
<1>1. ASSUME NEW l \in Locks, Own(t, l) PROVE LockInv'
  <2>0. /\ RestOK /\ NextStep(t, <<"own", l>>) /\ Done(t) /\ holder' = [holder EXCEPT ![l] = t]
        /\ UNCHANGED <<status, ready_list, running, idle_thread, panic, value, waiters, cond_waiters>>
    BY <1>1 DEF LockInv, SynchTypeOK, Own
  <2>1. RestOK'
    BY <2>0 DEF RestOK
  <2>2. /\ todo' \in [Threads -> Seq(Op)] /\ PairsInv'
        /\ \A u \in Threads : u # t => todo'[u] = todo[u]
        /\ \A k \in Locks : ~Next1(t, <<"own", k>>)' /\ ~Next1(t, <<"up", k>>)'
    BY <2>0, DoneStep DEF LockInv, Downs
  <2>3. \A u \in Threads, k \in Locks : Between(u, k)' => u # t /\ Between(u, k)
    BY <2>2 DEF Between, Next1
  <2>4. Between(t, l)
    BY <2>0 DEF Between, Next1, NextStep
  <2>5. value[l] = 0 /\ \A u \in Threads : Between(u, l) => u = t
    BY <2>4 DEF LockInv, MutexInv
  <2>6. \A k \in Locks : k # l => holder'[k] = holder[k]
    BY <2>0 DEF RestOK
  <2>7. MutexInv'
    BY <2>0, <2>3, <2>5, <2>6 DEF LockInv, MutexInv
  <2> QED
    BY <2>1, <2>2, <2>7 DEF LockInv, SynchTypeOK
<1>2. ASSUME NEW l \in Locks, Disown(t, l) PROVE LockInv'
  <2>0. /\ RestOK /\ NextStep(t, <<"disown", l>>) /\ Done(t)
        /\ UNCHANGED <<status, ready_list, running, idle_thread, value, waiters, cond_waiters>>
    BY <1>2 DEF LockInv, SynchTypeOK, Disown
  <2>1. \/ holder[l] = t /\ holder' = [holder EXCEPT ![l] = None] /\ panic' = panic
        \/ panic' = TRUE /\ holder' = holder
    BY <1>2 DEF Disown, Disowned
  <2>2. RestOK'
    BY <2>0, <2>1 DEF RestOK
  <2>3. /\ todo' \in [Threads -> Seq(Op)] /\ PairsInv'
        /\ \A u \in Threads : u # t => todo'[u] = todo[u]
        /\ \A k \in Locks : ~Next1(t, <<"own", k>>)' /\ (Next1(t, <<"up", k>>)' => k = l)
    BY <2>0, DoneStep DEF LockInv, Downs
  <2>4. \A u \in Threads, k \in Locks : Between(u, k)' => Between(u, k) \/ (u = t /\ k = l)
    BY <2>3 DEF Between, Next1
  <2>5. ASSUME ~panic' PROVE MutexInv'
    <3>1. holder[l] = t /\ holder'[l] = None /\ t # None
      BY <2>0, <2>1, <2>5, ThreadConstants DEF RestOK
    <3>2. \A k \in Locks : k # l => holder'[k] = holder[k]
      BY <2>0, <2>1, <2>5 DEF RestOK
    <3>3. value[l] # 1 /\ \A u \in Threads : ~Between(u, l)
      BY <3>1 DEF LockInv, MutexInv
    <3> QED
      BY <2>0, <2>4, <3>1, <3>2, <3>3 DEF LockInv, MutexInv
  <2> QED
    BY <2>2, <2>3, <2>5 DEF LockInv, SynchTypeOK
<1>3. ASSUME NEW l \in Locks, Misfile(t, l) PROVE LockInv'
  <2>1. /\ NextStep(t, <<"misfile", l>>) /\ Done(t)
        /\ UNCHANGED <<status, ready_list, running, idle_thread, panic, synch_vars>>
    BY <1>3 DEF Misfile
  <2>2. RestOK'
    BY <2>1 DEF LockInv, SynchTypeOK, RestOK, synch_vars
  <2> QED
    BY <2>1, <2>2, QuietDone DEF synch_vars, Downs
<1> QED
  BY <1>1, <1>2, <1>3 DEF LockStep

LEMMA PairedPlain ==
  ASSUME NEW t, NEW q \in Seq(Op),
         \A i \in DOMAIN q, s \in AllSemas :
           q[i] \notin Downs(s) /\ (s \in Locks => q[i] \notin {<<"own", s>>, <<"up", s>>, <<"disown", s>>})
  PROVE  Paired(t, q) /\ Starts(q)
<1>1. \A i \in DOMAIN q, l \in Locks :
        q[i] \notin Downs(l) /\ q[i] # <<"own", l>> /\ q[i] # <<"up", l>> /\ q[i] # <<"disown", l>>
  BY Names
<1>2. \A i \in DOMAIN q, u \in Threads : q[i] \notin Downs(u)
  BY Names
<1>3. q # <<>> => 1 \in DOMAIN q
  OBVIOUS
<1> QED
  BY <1>1, <1>2, <1>3 DEF Paired, Starts

LEMMA SignalLocks ==
  ASSUME LockInv, ~panic, NEW t \in Threads, NEW c \in Conds,
         NEW rest \in {<<>>, << <<"broadcast", c>> >>}, Signal(t, c, rest)
  PROVE  LockInv'
<1>0. RestOK /\ UNCHANGED <<value, holder, waiters>> /\ cond_waiters[c] \in Seq(Threads)
  BY DEF LockInv, SynchTypeOK, RestOK, Signal
<1>1. RestOK'
  <2>1. cond_waiters' \in [Conds -> Seq(Threads)]
    BY <1>0 DEF RestOK, Signal, PopFront
  <2> QED
    BY <1>0, <2>1 DEF RestOK, Signal, AtEntry
<1>2. PICK p : p = IF cond_waiters[c] = <<>> THEN <<>> ELSE << <<"up", Head(cond_waiters[c])>> >>
  OBVIOUS
<1>3. Then(t, p \o rest)
  BY <1>2 DEF Signal
<1>e. <<>> \in Seq(Op) /\ Paired(t, <<>>) /\ Starts(<<>>)
  BY DEF Paired, Starts
<1>4. p \in Seq(Op) /\ Paired(t, p) /\ Starts(p)
  <2>1. CASE cond_waiters[c] = <<>>
    BY <1>2, <1>e, <2>1
  <2>2. CASE cond_waiters[c] # <<>>
    <3>1. PICK u \in Threads : u = Head(cond_waiters[c])
      BY <1>0, <2>2
    <3>2. PICK op : op = <<"up", u>>
      OBVIOUS
    <3>3. /\ op \in Op
          /\ \A s \in AllSemas : op \notin Downs(s) /\ op # <<"own", s>> /\ op # <<"disown", s>>
          /\ \A l \in Locks : op # <<"up", l>>
      BY <3>2, Names DEF Op, Downs
    <3>4. p = <<op>>
      BY <1>2, <2>2, <3>1, <3>2
    <3> QED
      BY <3>3, <3>4, PairedSingle, Names
  <2> QED
    BY <2>1, <2>2
<1>5. rest \in Seq(Op) /\ Paired(t, rest) /\ Starts(rest)
  <2>1. PICK op : op = <<"broadcast", c>>
    OBVIOUS
  <2>2. /\ op \in Op /\ \A s \in AllSemas : op \notin Downs(s)
        /\ \A l \in Locks : op # <<"own", l>> /\ op # <<"up", l>> /\ op # <<"disown", l>>
    BY <2>1 DEF Op, Downs
  <2>3. rest = <<>> \/ rest = <<op>>
    BY <2>1
  <2> QED
    BY <1>e, <2>2, <2>3, PairedSingle, Names
<1>9. p \o rest \in Seq(Op) /\ Paired(t, p \o rest) /\ Starts(p \o rest)
  BY <1>4, <1>5, PairedConcat
<1> QED
  BY <1>0, <1>1, <1>3, <1>9, QuietStep

LEMMA CondStepLocks ==
  ASSUME LockInv, ~panic, NEW t \in Threads, CondStep(t)
  PROVE  LockInv'
<1>1. ASSUME NEW c \in Conds, Enqueue(t, c) PROVE LockInv'
  <2>1. /\ RestOK /\ NextStep(t, <<"enqueue", c>>) /\ Done(t)
        /\ UNCHANGED <<status, ready_list, running, idle_thread, panic, holder>>
        /\ t \in AllSemas /\ t \notin Locks
    BY <1>1, Names DEF Enqueue, LockInv, SynchTypeOK
  <2>2. /\ value' \in [AllSemas -> Nat] /\ waiters' \in [AllSemas -> Seq(Threads)]
        /\ cond_waiters' \in [Conds -> Seq(Threads)]
    BY <1>1, <2>1 DEF Enqueue, RestOK
  <2>3. RestOK'
    BY <2>1, <2>2 DEF RestOK
  <2>4. \A l \in Locks : value'[l] = value[l] /\ holder'[l] = holder[l]
    BY <1>1, <2>1, Names DEF Enqueue, RestOK
  <2> QED
    BY <2>1, <2>3, <2>4, QuietDone DEF Downs
<1>2. ASSUME NEW c \in Conds, Broadcast(t, c) PROVE LockInv'
  BY <1>2, SignalLocks DEF Broadcast
<1> QED
  BY <1>1, <1>2 DEF CondStep

LEMMA CreateStepLocks ==
  ASSUME LockInv, ~panic, NEW t \in Threads, CreateStep(t)
  PROVE  LockInv'
<1>0. RestOK
  BY DEF LockInv, SynchTypeOK
<1>1. ASSUME NEW u \in Threads, LinkThread(t, u) PROVE LockInv'
  <2>1. PICK op \in {<<"link", u>>, <<"close", u>>} : NextStep(t, op)
    BY <1>1 DEF LinkThread
  <2>2. Done(t) /\ UNCHANGED <<status, ready_list, running, idle_thread, panic, synch_vars>>
    BY <1>1 DEF LinkThread
  <2>3. RestOK'
    BY <1>0, <2>2 DEF RestOK, synch_vars
  <2> QED
    BY <2>1, <2>2, <2>3, QuietDone DEF synch_vars, Downs
<1>2. ASSUME NEW u \in Threads, CountTid(t, u) PROVE LockInv'
  <2>1. PICK op \in {<<"tid", u>>, <<"count", u>>} : NextStep(t, op)
    BY <1>2 DEF CountTid
  <2>2. Done(t) /\ UNCHANGED <<status, ready_list, running, idle_thread, panic, synch_vars>>
    BY <1>2 DEF CountTid
  <2>3. RestOK'
    BY <1>0, <2>2 DEF RestOK, synch_vars
  <2> QED
    BY <2>1, <2>2, <2>3, QuietDone DEF synch_vars, Downs
<1>3. ASSUME NEW u \in Threads, NewProcess(t, u) PROVE LockInv'
  <2>1. NextStep(t, <<"process", u>>) /\ Done(t) /\ UNCHANGED <<idle_thread, synch_vars>>
    BY <1>3 DEF NewProcess
  <2>2. /\ status' \in [Threads -> Statuses] /\ ready_list' \in Seq(Threads)
        /\ running' \in Threads /\ panic' \in BOOLEAN
    <3>1. CASE Unblock(<<u>>)
      <4>1. <<u>> \in Seq(Threads)
        OBVIOUS
      <4> QED
        BY <1>0, <3>1, <4>1, UnblockTypes
    <3>2. CASE status' = [status EXCEPT ![u] = "FREE"] /\ UNCHANGED <<ready_list, running, panic>>
      BY <1>0, <3>2 DEF RestOK, Statuses
    <3> QED
      BY <1>3, <3>1, <3>2 DEF NewProcess
  <2>3. RestOK'
    BY <1>0, <2>1, <2>2 DEF RestOK, synch_vars
  <2> QED
    BY <2>1, <2>3, QuietDone DEF synch_vars, Downs
<1> QED
  BY <1>1, <1>2, <1>3 DEF CreateStep

LEMMA SwitchLocks ==
  ASSUME LockInv, ~panic, NEW t \in Threads,
         \/ StartIdle(t) /\ UNCHANGED synch_vars
         \/ IdleBlock(t) /\ UNCHANGED synch_vars
         \/ Preempt(t) /\ UNCHANGED synch_vars
  PROVE  LockInv'
<1>0. /\ RestOK /\ status \in [Threads -> Statuses] /\ ready_list \in Seq(Threads)
      /\ "BLOCKED" \in Statuses /\ "READY" \in Statuses /\ YieldTo(t) \in Seq(Threads)
  BY DEF LockInv, SynchTypeOK, RestOK, Statuses, YieldTo
<1>1. CASE StartIdle(t) /\ UNCHANGED synch_vars
  <2>1. RestOK'
    BY <1>0, <1>1 DEF RestOK, StartIdle, synch_vars
  <2>2. \A l \in Locks : <<"start">> \notin Downs(l) /\ <<"start">> # <<"disown", l>>
    BY DEF Downs
  <2>3. NextStep(t, <<"start">>) /\ Done(t)
        /\ \A l \in Locks : value'[l] = value[l] /\ holder'[l] = holder[l]
    BY <1>1 DEF StartIdle, synch_vars
  <2> QED
    BY <2>1, <2>2, <2>3, QuietDone
<1>2. ASSUME NEW st \in Statuses, NEW q \in Seq(Threads), Schedule(t, st, status, q),
             UNCHANGED <<idle_thread, todo, synch_vars>>
      PROVE  LockInv'
  <2>1. /\ status' \in [Threads -> Statuses] /\ ready_list' \in Seq(Threads)
        /\ running' \in Threads /\ panic' \in BOOLEAN
    BY <1>0, <1>2, ScheduleTypes
  <2>2. RestOK'
    BY <1>0, <1>2, <2>1 DEF RestOK, synch_vars
  <2> QED
    BY <1>2, <2>2, StillStep DEF synch_vars
<1>3. CASE IdleBlock(t) /\ UNCHANGED synch_vars
  BY <1>0, <1>2, <1>3 DEF IdleBlock, Block
<1>4. CASE Preempt(t) /\ UNCHANGED synch_vars
  BY <1>0, <1>2, <1>4 DEF Preempt
<1> QED
  BY <1>1, <1>3, <1>4

LEMMA CallLocks ==
  ASSUME LockInv, ~panic, NEW t \in Threads, NEW q \in Seq(Op), Paired(t, q), Starts(q), Then(t, q),
         UNCHANGED <<ready_list, running, idle_thread, panic, synch_vars>>,
         status' \in [Threads -> Statuses]
  PROVE  LockInv'
<1>1. RestOK'
  BY DEF LockInv, SynchTypeOK, RestOK, synch_vars
<1> QED
  BY <1>1, QuietStep DEF synch_vars

LEMMA WaitStepsPaired ==
  ASSUME NEW t \in Threads, NEW c \in Conds
  PROVE  WaitSteps(t, c) \in Seq(Op) /\ Paired(t, WaitSteps(t, c)) /\ Starts(WaitSteps(t, c))
<1> DEFINE g == Guard[c]
           e == << <<"enqueue", c>> >>
           d == << <<"down", t>> >>
<1>0. g \in Locks /\ t \in AllSemas /\ t \notin Locks
  BY Names
<1>1. e \in Seq(Op) /\ Paired(t, e) /\ Starts(e)
  <2>1. <<"enqueue", c>> \in Op
    BY DEF Op
  <2>2. \A s : <<"enqueue", c>> \notin Downs(s) /\ <<"enqueue", c>> # <<"disown", s>>
    BY DEF Downs
  <2>3. e \in Seq(Op) /\ Paired(t, e)
    BY <2>1, <2>2, PairedSingle
  <2>4. e[1] = <<"enqueue", c>>
    OBVIOUS
  <2> QED
    BY <2>3, <2>4 DEF Starts
<1>2. d \in Seq(Op) /\ Paired(t, d) /\ Starts(d)
  <2>1. <<"down", t>> \in Op
    BY <1>0 DEF Op
  <2>2. \A s : (<<"down", t>> \in Downs(s) => s = t) /\ <<"down", t>> # <<"disown", s>>
    BY DEF Downs
  <2>3. d \in Seq(Op) /\ Paired(t, d)
    BY <1>0, <2>1, <2>2, PairedSingle
  <2>4. d[1] = <<"down", t>>
    OBVIOUS
  <2> QED
    BY <2>3, <2>4 DEF Starts
<1>3. /\ lock_acquire(g) \in Seq(Op) /\ Paired(t, lock_acquire(g)) /\ Starts(lock_acquire(g))
      /\ lock_release(g) \in Seq(Op) /\ Paired(t, lock_release(g)) /\ Starts(lock_release(g))
  BY <1>0, PairedLock
<1> HIDE DEF g, e, d
<1>4. PICK p : p = e \o lock_release(g)
  OBVIOUS
<1>5. p \in Seq(Op) /\ Paired(t, p) /\ Starts(p)
  BY <1>1, <1>3, <1>4, PairedConcat
<1>6. PICK r : r = p \o d
  OBVIOUS
<1>7. r \in Seq(Op) /\ Paired(t, r) /\ Starts(r)
  BY <1>2, <1>5, <1>6, PairedConcat
<1>8. WaitSteps(t, c) = r \o lock_acquire(g)
  BY <1>4, <1>6 DEF WaitSteps, e, d, g
<1> QED
  BY <1>3, <1>7, <1>8, PairedConcat

LEMMA CreatePaired ==
  ASSUME NEW t \in Threads, NEW u \in Threads,
         NEW q, q = << <<"link", u>>, <<"close", u>> >> \o allocate_tid(u) \o << <<"process", u>> >>
  PROVE  q \in Seq(Op) /\ Paired(t, q) /\ Starts(q)
<1> DEFINE a == << <<"link", u>>, <<"close", u>> >>
           b == << <<"tid", u>>, <<"count", u>> >>
           d == << <<"process", u>> >>
           acq == lock_acquire(tid_lock)
           rel == lock_release(tid_lock)
<1>0. tid_lock \in Locks /\ u \in AllSemas
  BY Names
<1>1. \A x \in {"link", "close", "tid", "count", "process"} : <<x, u>> \in Op
  BY <1>0 DEF Op
<1>2. ASSUME NEW p \in {a, b, d} PROVE p \in Seq(Op) /\ Paired(t, p) /\ Starts(p)
  <2>1. p \in Seq(Op) /\ \A i \in DOMAIN p : \E x \in {"link", "close", "tid", "count", "process"} : p[i] = <<x, u>>
    <3>1. CASE p = a
      <4>1. DOMAIN p = {1, 2} /\ p[1] = <<"link", u>> /\ p[2] = <<"close", u>> /\ p \in Seq(Op)
        BY <1>1, <3>1
      <4> QED
        BY <4>1
    <3>2. CASE p = b
      <4>1. DOMAIN p = {1, 2} /\ p[1] = <<"tid", u>> /\ p[2] = <<"count", u>> /\ p \in Seq(Op)
        BY <1>1, <3>2
      <4> QED
        BY <4>1
    <3>3. CASE p = d
      <4>1. DOMAIN p = {1} /\ p[1] = <<"process", u>> /\ p \in Seq(Op)
        BY <1>1, <3>3
      <4> QED
        BY <4>1
    <3> QED
      BY <3>1, <3>2, <3>3
  <2>2. ASSUME NEW i \in DOMAIN p, NEW s \in AllSemas
        PROVE  p[i] \notin Downs(s)
               /\ (s \in Locks => p[i] \notin {<<"own", s>>, <<"up", s>>, <<"disown", s>>})
    BY <2>1 DEF Downs
  <2> QED
    BY <2>1, <2>2, PairedPlain
<1>3. /\ acq \in Seq(Op) /\ Paired(t, acq) /\ Starts(acq)
      /\ rel \in Seq(Op) /\ Paired(t, rel) /\ Starts(rel)
  BY <1>0, PairedLock
<1>4. q = (a \o ((acq \o b) \o rel)) \o d
  BY DEF allocate_tid
<1>b. a \in {a, b, d} /\ b \in {a, b, d} /\ d \in {a, b, d}
  OBVIOUS
<1>5. /\ a \in Seq(Op) /\ Paired(t, a) /\ Starts(a)
      /\ b \in Seq(Op) /\ Paired(t, b) /\ Starts(b)
      /\ d \in Seq(Op) /\ Paired(t, d) /\ Starts(d)
  BY <1>2, <1>b
<1> HIDE DEF a, b, d, acq, rel
<1>6. PICK x : x = acq \o b
  OBVIOUS
<1>7. x \in Seq(Op) /\ Paired(t, x) /\ Starts(x)
  BY <1>3, <1>5, <1>6, PairedConcat
<1>8. PICK y : y = x \o rel
  OBVIOUS
<1>9. y \in Seq(Op) /\ Paired(t, y) /\ Starts(y)
  BY <1>3, <1>7, <1>8, PairedConcat
<1>10. PICK z : z = a \o y
  OBVIOUS
<1>11. z \in Seq(Op) /\ Paired(t, z) /\ Starts(z)
  BY <1>5, <1>9, <1>10, PairedConcat
<1>12. q = z \o d
  BY <1>4, <1>6, <1>8, <1>10
<1> QED
  BY ONLY <1>5, <1>11, <1>12, PairedConcat

LEMMA ClientLocks ==
  ASSUME LockInv, ~panic, NEW t \in Threads,
         \/ \E s \in Semas : CallDown(t, s) \/ CallUp(t, s)
         \/ \E l \in Locks : Acquire(t, l) \/ Release(t, l)
         \/ \E c \in Conds : CondWait(t, c) \/ CondSignal(t, c) \/ CondBroadcast(t, c)
         \/ Create(t)
  PROVE  LockInv'
<1>0. status \in [Threads -> Statuses]
  BY DEF LockInv, SynchTypeOK, RestOK
<1>a. ASSUME NEW q \in Seq(Op), Paired(t, q), Starts(q), Then(t, q), AtEntry, UNCHANGED synch_vars
      PROVE  LockInv'
  BY <1>0, <1>a, CallLocks DEF AtEntry
<1>b. ASSUME NEW op \in Op, Then(t, <<op>>), AtEntry, UNCHANGED synch_vars,
             \A l \in Locks : /\ op \notin Downs(l)
                              /\ op # <<"own", l>> /\ op # <<"up", l>> /\ op # <<"disown", l>>,
             \A u \in Threads : op \notin Downs(u)
      PROVE  LockInv'
  <2>1. <<op>> \in Seq(Op) /\ Paired(t, <<op>>) /\ Starts(<<op>>)
    BY <1>b, PairedSingle
  <2> QED
    BY <1>a, <1>b, <2>1
<1>1. ASSUME NEW s \in Semas, CallDown(t, s) \/ CallUp(t, s) PROVE LockInv'
  <2>1. PICK op \in {<<"down", s>>, <<"up", s>>} : Then(t, <<op>>) /\ AtEntry /\ UNCHANGED synch_vars
    BY <1>1 DEF CallDown, CallUp
  <2>2. /\ op \in Op
        /\ \A l \in Locks : /\ op \notin Downs(l)
                            /\ op # <<"own", l>> /\ op # <<"up", l>> /\ op # <<"disown", l>>
        /\ \A u \in Threads : op \notin Downs(u)
    BY Names DEF Op, Downs
  <2> QED
    BY <1>b, <2>1, <2>2
<1>2. ASSUME NEW l \in Locks, Acquire(t, l) \/ Release(t, l) PROVE LockInv'
  <2>1. PICK q \in {lock_acquire(l), lock_release(l)} : Then(t, q) /\ AtEntry /\ UNCHANGED synch_vars
    BY <1>2 DEF Acquire, Release
  <2> QED
    BY <1>a, <2>1, PairedLock
<1>3. ASSUME NEW c \in Conds, CondWait(t, c) PROVE LockInv'
  BY <1>3, <1>a, WaitStepsPaired DEF CondWait
<1>4. ASSUME NEW c \in Conds, CondSignal(t, c) PROVE LockInv'
  BY <1>4, SignalLocks DEF CondSignal
<1>5. ASSUME NEW c \in Conds, CondBroadcast(t, c) PROVE LockInv'
  <2>1. PICK op : op = <<"broadcast", c>>
    OBVIOUS
  <2>2. Then(t, <<op>>) /\ AtEntry /\ UNCHANGED synch_vars
    BY <1>5, <2>1 DEF CondBroadcast
  <2>3. /\ op \in Op
        /\ \A l \in Locks : /\ op \notin Downs(l)
                            /\ op # <<"own", l>> /\ op # <<"up", l>> /\ op # <<"disown", l>>
        /\ \A u \in Threads : op \notin Downs(u)
    BY <2>1 DEF Op, Downs
  <2> QED
    BY <1>b, <2>2, <2>3
<1>6. CASE Create(t)
  <2>1. PICK u \in Threads :
          /\ status' = [status EXCEPT ![u] = "BLOCKED"]
          /\ Then(t, << <<"link", u>>, <<"close", u>> >> \o allocate_tid(u) \o << <<"process", u>> >>)
          /\ UNCHANGED <<ready_list, running, idle_thread, panic, synch_vars>>
    BY <1>6 DEF Create
  <2>2. PICK q : q = << <<"link", u>>, <<"close", u>> >> \o allocate_tid(u) \o << <<"process", u>> >>
    OBVIOUS
  <2>3. q \in Seq(Op) /\ Paired(t, q) /\ Starts(q)
    BY <2>2, CreatePaired
  <2>4. status' \in [Threads -> Statuses]
    BY <1>0, <2>1 DEF Statuses
  <2>5. Then(t, q)
    BY <2>1, <2>2
  <2> QED
    BY ONLY LockInv, ~panic, t \in Threads, <2>1, <2>3, <2>4, <2>5, CallLocks
<1> QED
  BY <1>1, <1>2, <1>3, <1>4, <1>5, <1>6

LEMMA TryLocks ==
  ASSUME LockInv, ~panic, NEW t \in Threads, NEW l \in Locks, TryAcquire(t, l)
  PROVE  LockInv'
<1>0. /\ RestOK /\ MutexInv /\ value[l] \in {0, 1}
      /\ value' = [value EXCEPT ![l] = IF @ > 0 THEN @ - 1 ELSE @]
      /\ Then(t, TryRest(t, l))
      /\ UNCHANGED <<status, ready_list, running, idle_thread, panic, waiters, holder, cond_waiters>>
  BY DEF LockInv, SynchTypeOK, MutexInv, TryAcquire, AtEntry
<1>1. RestOK'
  <2>1. value' \in [AllSemas -> Nat]
    BY <1>0, Names DEF RestOK
  <2> QED
    BY <1>0, <2>1 DEF RestOK
<1>2. \A k \in Locks : k # l => value'[k] = value[k]
  BY <1>0 DEF RestOK
<1>3. CASE value[l] = 1
  <2>1. PICK op : op = <<"own", l>>
    OBVIOUS
  <2>2. Then(t, <<op>>)
    BY <1>0, <1>3, <2>1 DEF TryRest
  <2>3. <<op>> \in Seq(Op) /\ Paired(t, <<op>>)
    <3>1. /\ op \in Op /\ \A k \in Locks : op \notin Downs(k) /\ op # <<"disown", k>>
          /\ \A u \in Threads : op \notin Downs(u)
      BY <2>1, Names DEF Op, Downs
    <3> QED
      BY <3>1, PairedSingle
  <2>4. /\ todo' \in [Threads -> Seq(Op)] /\ PairsInv' /\ todo'[t] = <<op>>
        /\ \A u \in Threads : u # t => todo'[u] = todo[u]
    BY <2>2, <2>3, TodoStep DEF LockInv
  <2>5. value'[l] = 0 /\ holder'[l] = None /\ \A u \in Threads : ~Between(u, l)
    <3>1. value'[l] = 0
      BY <1>0, <1>3, Names DEF RestOK
    <3> QED
      BY <1>0, <1>3, <3>1 DEF MutexInv
  <2>6. \A u \in Threads, k \in Locks : Between(u, k)' => Between(u, k) \/ (u = t /\ k = l)
    BY <2>1, <2>4 DEF Between, Next1
  <2>7. MutexInv'
    BY <1>0, <1>2, <2>5, <2>6 DEF MutexInv
  <2> QED
    BY <1>1, <2>4, <2>7 DEF LockInv, SynchTypeOK
<1>4. CASE value[l] = 0
  <2>1. PICK op : op = <<"misfile", l>>
    OBVIOUS
  <2>2. Then(t, <<op>>)
    BY <1>0, <1>4, <2>1 DEF TryRest
  <2>3. /\ op \in Op
        /\ \A k \in Locks : /\ op \notin Downs(k)
                            /\ op # <<"own", k>> /\ op # <<"up", k>> /\ op # <<"disown", k>>
        /\ \A u \in Threads : op \notin Downs(u)
    BY <2>1, Names DEF Op, Downs
  <2>4. <<op>> \in Seq(Op) /\ Paired(t, <<op>>) /\ Starts(<<op>>)
    BY <2>3, PairedSingle
  <2>5. value'[l] = value[l]
    BY <1>0, <1>4, Names DEF RestOK
  <2> QED
    BY <1>0, <1>1, <1>2, <2>2, <2>4, <2>5, QuietStep
<1> QED
  BY <1>0, <1>3, <1>4

LEMMA ReleasedTypes ==
  ASSUME NEW t \in Threads, NEW ls \in release_locks(t), NEW us \in Woken(ls)
  PROVE  us \in Seq(Threads) /\ \A l \in ToSet(ls) : l \in Locks /\ holder[l] = t
<1>1. us \in Seq(Threads)
  <2>1. PICK n \in 0 .. Len(ls) : us \in [1 .. n -> Threads]
    BY DEF Woken
  <2>2. n \in Nat
    OBVIOUS
  <2> QED
    BY <2>1, <2>2
<1>2. ASSUME NEW l \in ToSet(ls) PROVE l \in Locks /\ holder[l] = t
  <2>1. PICK node : node = Walk(links, t, Cardinality(Locks) + 1)
    OBVIOUS
  <2>2. PICK k \in 0 .. Cardinality(Locks) :
          /\ ls = [i \in 1 .. k |-> node[i]]
          /\ \A i \in 1 .. k : node[i] \in Locks /\ holder[node[i]] = t
    BY <2>1 DEF release_locks, Releasable
  <2> QED
    BY <1>2, <2>2 DEF ToSet
<1> QED
  BY <1>1, <1>2

LEMMA ExitLocks ==
  ASSUME LockInv, ~panic, NEW t \in Threads, Exit(t)
  PROVE  LockInv'
<1>0. /\ RestOK /\ MutexInv /\ todo' = todo
      /\ UNCHANGED <<idle_thread, cond_waiters>> /\ t # None
  BY ThreadConstants DEF LockInv, SynchTypeOK, Exit
<1>1. CASE panic' = TRUE /\ UNCHANGED <<status, ready_list, running, value, waiters, holder>>
  <2>1. RestOK'
    BY <1>0, <1>1 DEF RestOK
  <2> QED
    BY <1>0, <1>1, <2>1, StillStep
<1>2. ASSUME NEW ls \in release_locks(t), NEW us \in Woken(ls),
             Up(ToSet(ls)),
             holder' = [l \in Locks |-> IF l \in ToSet(ls) THEN None ELSE holder[l]],
             Schedule(t, "DYING", [u \in Threads |-> IF u \in ToSet(us) THEN "READY" ELSE status[u]],
                      ready_list \o us)
      PROVE  LockInv'
  <2>1. us \in Seq(Threads) /\ \A l \in ToSet(ls) : l \in Locks /\ holder[l] = t
    BY ReleasedTypes
  <2>2. value' \in [AllSemas -> Nat] /\ waiters' \in [AllSemas -> Seq(Threads)]
    BY <1>0, <1>2, UpTypes
  <2>3. /\ status' \in [Threads -> Statuses] /\ ready_list' \in Seq(Threads)
        /\ running' \in Threads /\ panic' \in BOOLEAN
    <3>1. PICK sts : sts = [u \in Threads |-> IF u \in ToSet(us) THEN "READY" ELSE status[u]]
      OBVIOUS
    <3>2. sts \in [Threads -> Statuses] /\ "DYING" \in Statuses
      BY <1>0, <3>1 DEF RestOK, Statuses
    <3>3. ready_list \o us \in Seq(Threads)
      BY <1>0, <2>1 DEF RestOK
    <3>4. Schedule(t, "DYING", sts, ready_list \o us)
      BY <1>2, <3>1
    <3> QED
      BY ONLY <1>0, t \in Threads, <3>2, <3>3, <3>4, ScheduleTypes
  <2>4. holder' \in [Locks -> Threads \cup {None}]
    BY <1>0, <1>2 DEF RestOK
  <2>5. RestOK'
    BY <1>0, <2>2, <2>3, <2>4 DEF RestOK
  <2>6. PairsInv' /\ \A u \in Threads, l \in Locks : Between(u, l)' <=> Between(u, l)
    BY <1>0 DEF LockInv, PairsInv, Between, Next1
  <2>7. ASSUME NEW l \in Locks
        PROVE  /\ l \in ToSet(ls) => /\ value[l] = 0 /\ value'[l] = 1 /\ holder'[l] = None
                                     /\ \A u \in Threads : ~Between(u, l)
               /\ l \notin ToSet(ls) => value'[l] = value[l] /\ holder'[l] = holder[l]
    <3>1. /\ value'[l] = IF l \in ToSet(ls) THEN value[l] + 1 ELSE value[l]
          /\ holder'[l] = IF l \in ToSet(ls) THEN None ELSE holder[l]
      BY <1>0, <1>2, UpTypes, Names
    <3>2. l \in ToSet(ls) => value[l] = 0 /\ \A u \in Threads : ~Between(u, l)
      BY <1>0, <2>1 DEF MutexInv
    <3> QED
      BY <3>1, <3>2
  <2>8. MutexInv'
    BY <1>0, <2>6, <2>7 DEF MutexInv
  <2> QED
    BY <1>0, <2>5, <2>6, <2>8 DEF LockInv, SynchTypeOK
<1> QED
  BY <1>1, <1>2 DEF Exit

LEMMA LocksStart == Init => LockInv
<1> SUFFICES ASSUME Init PROVE LockInv
  OBVIOUS
<1>1. RestOK
  <2>1. value \in [AllSemas -> Nat] /\ waiters \in [AllSemas -> Seq(Threads)]
    BY DEF Init, SynchInit
  <2>2. holder \in [Locks -> Threads \cup {None}] /\ cond_waiters \in [Conds -> Seq(Threads)]
    BY DEF Init, SynchInit
  <2>3. /\ status \in [Threads -> Statuses] /\ running \in Threads
        /\ idle_thread \in Threads \cup {None} /\ panic \in BOOLEAN
    BY ThreadConstants DEF Init, ThreadInit, Statuses
  <2>4. ready_list \in Seq(Threads)
    <3>1. <<first_idle>> \in Seq(Threads)
      BY ThreadConstants
    <3> QED
      BY <3>1 DEF Init, ThreadInit
  <2> QED
    BY <2>1, <2>2, <2>3, <2>4 DEF RestOK
<1>2. PICK a, b, c, d : a = <<"down", "idle_started">> /\ b = <<"start">>
                     /\ c = <<"up", "idle_started">> /\ d = <<"idle">>
  OBVIOUS
<1>3. ASSUME NEW op \in {a, b, c, d}
      PROVE  /\ op \in Op
             /\ \A l \in Locks : /\ op \notin Downs(l)
                                 /\ op # <<"own", l>> /\ op # <<"up", l>> /\ op # <<"disown", l>>
             /\ \A u \in Threads : op \notin Downs(u)
  BY <1>2, Names DEF Op, Downs
<1>4. ASSUME NEW t \in Threads
      PROVE  todo[t] \in Seq(Op) /\ Paired(t, todo[t]) /\ \A l \in Locks : ~Between(t, l)
  <2>1. todo[t] \in {<<a>>, <<b, c, d>>, <<>>}
    <3>1. todo[t] = CASE t = initial_thread -> <<a>> [] t = first_idle -> <<b, c, d>> [] OTHER -> <<>>
      BY <1>2 DEF Init, ThreadInit
    <3> QED
      BY <3>1, ThreadConstants
  <2>2. todo[t] \in Seq(Op) /\ \A i \in DOMAIN todo[t] : todo[t][i] \in {a, b, c, d}
    <3>1. a \in Op /\ b \in Op /\ c \in Op /\ d \in Op
      BY <1>3
    <3>2. CASE todo[t] = <<a>>
      BY <3>1, <3>2
    <3>3. CASE todo[t] = <<b, c, d>>
      BY <3>1, <3>3
    <3>4. CASE todo[t] = <<>>
      BY <3>4
    <3> QED
      BY <2>1, <3>2, <3>3, <3>4
  <2>3. Paired(t, todo[t])
    BY <1>3, <2>2 DEF Paired
  <2>4. todo[t] # <<>> => Head(todo[t]) \in {a, b, c, d}
    BY <2>2
  <2> QED
    BY <1>3, <2>2, <2>3, <2>4 DEF Between, Next1
<1>5. todo \in [Threads -> Seq(Op)]
  BY <1>4 DEF Init, ThreadInit
<1>6. \A l \in Locks : value[l] = 1 /\ holder[l] = None
  BY Names DEF Init, SynchInit
<1> QED
  BY <1>1, <1>4, <1>5, <1>6 DEF LockInv, SynchTypeOK, PairsInv, MutexInv

LEMMA LocksStep == LockInv /\ [Next]_vars => LockInv'
<1> SUFFICES ASSUME LockInv, [Next]_vars PROVE LockInv'
  OBVIOUS
<1>1. ASSUME UNCHANGED vars PROVE LockInv'
  <2>1. /\ UNCHANGED <<status, ready_list, running, idle_thread, todo, panic>>
        /\ UNCHANGED <<value, waiters, holder, cond_waiters>>
    BY <1>1 DEF vars, thread_vars, synch_vars
  <2>2. RestOK' /\ SynchTypeOK' /\ PairsInv'
    BY <2>1 DEF LockInv, SynchTypeOK, RestOK, PairsInv
  <2>3. \A u \in Threads, l \in Locks : Between(u, l)' <=> Between(u, l)
    BY <2>1 DEF Between, Next1
  <2> QED
    BY <2>1, <2>2, <2>3 DEF LockInv, MutexInv
<1>2. ASSUME ~panic, NEW t \in Threads, KernelStep(t) PROVE LockInv'
  <2>1. CASE \E s \in AllSemas : Down(t, s) \/ SemaUp(t, s)
    BY <1>2, <2>1, DownLocks, SemaUpLocks
  <2>2. CASE LockStep(t)
    BY <1>2, <2>2, LockStepLocks
  <2>3. CASE CondStep(t)
    BY <1>2, <2>3, CondStepLocks
  <2>4. CASE CreateStep(t)
    BY <1>2, <2>4, CreateStepLocks
  <2>5. CASE StartIdle(t) /\ UNCHANGED synch_vars
    BY <1>2, <2>5, SwitchLocks
  <2> QED
    BY <1>2, <2>1, <2>2, <2>3, <2>4, <2>5 DEF KernelStep
<1>3. ASSUME ~panic, NEW t \in Threads, Idle(t) \/ Yield(t) PROVE LockInv'
  BY <1>3, SwitchLocks DEF Idle, Yield
<1>4. ASSUME ~panic, NEW t \in Threads, Call(t) PROVE LockInv'
  BY <1>4, ClientLocks, TryLocks, ExitLocks DEF Call
<1> QED
  BY <1>1, <1>2, <1>3, <1>4 DEF Next

-----------------------------------------------------------------------------

LEMMA MutexStart == Init => LocksAsMutex!Init
BY ThreadConstants DEF Init, ThreadInit, SynchInit, LocksAsMutex!Init

LEMMA MutexStep == LockInv /\ [Next]_vars => [LocksAsMutex!Next]_holder
<1> SUFFICES ASSUME LockInv, Next, holder' # holder PROVE LocksAsMutex!Next
  BY DEF vars, synch_vars
<1>1. LockInv' /\ ~panic /\ MutexInv /\ RestOK
  BY LocksStep DEF LockInv, SynchTypeOK, Next
<1>2. holder' \in [Locks -> Threads \cup {None}] /\ holder \in [Locks -> Threads \cup {None}]
  BY <1>1 DEF LockInv, SynchTypeOK, RestOK
<1>3. PICK t \in Threads : KernelStep(t) \/ Idle(t) \/ Yield(t) \/ Call(t)
  BY DEF Next
<1>4. \/ \E l \in Locks : Own(t, l) \/ Disown(t, l)
      \/ Exit(t)
  <2>1. CASE KernelStep(t)
    <3>1. \A s \in AllSemas : Down(t, s) \/ SemaUp(t, s) => holder' = holder
      BY DEF Down, SemaUp
    <3>2. \A l \in Locks : Misfile(t, l) => holder' = holder
      BY DEF Misfile, synch_vars
    <3>3. CondStep(t) => holder' = holder
      BY DEF CondStep, Enqueue, Broadcast, Signal
    <3>4. CreateStep(t) => holder' = holder
      BY DEF CreateStep, LinkThread, CountTid, NewProcess, synch_vars
    <3> QED
      BY <2>1, <3>1, <3>2, <3>3, <3>4 DEF KernelStep, LockStep, synch_vars
  <2>2. CASE Idle(t) \/ Yield(t)
    BY <2>2 DEF Idle, Yield, synch_vars
  <2>3. CASE Call(t)
    <3>1. \A s \in Semas : CallDown(t, s) \/ CallUp(t, s) => holder' = holder
      BY DEF CallDown, CallUp, synch_vars
    <3>2. \A l \in Locks : Acquire(t, l) \/ Release(t, l) \/ TryAcquire(t, l) => holder' = holder
      BY DEF Acquire, Release, TryAcquire, synch_vars
    <3>3. \A c \in Conds : CondWait(t, c) \/ CondSignal(t, c) \/ CondBroadcast(t, c) => holder' = holder
      BY DEF CondWait, CondSignal, CondBroadcast, Signal, synch_vars
    <3>4. Create(t) => holder' = holder
      BY DEF Create, synch_vars
    <3> QED
      BY <2>3, <3>1, <3>2, <3>3, <3>4 DEF Call
  <2> QED
    BY <1>3, <2>1, <2>2, <2>3
<1>5. ASSUME NEW l \in Locks, Own(t, l) PROVE LocksAsMutex!Next
  <2>1. running = t /\ Between(t, l) /\ holder' = [holder EXCEPT ![l] = t]
    BY <1>5 DEF Own, NextStep, Between, Next1
  <2>2. holder[l] = None
    BY <1>1, <2>1 DEF MutexInv
  <2> QED
    BY <1>2, <2>1, <2>2 DEF LocksAsMutex!Next, LocksAsMutex!Acquire
<1>6. ASSUME NEW l \in Locks, Disown(t, l) PROVE LocksAsMutex!Next
  <2>1. running = t /\ holder[l] = t /\ holder' = [holder EXCEPT ![l] = None]
    BY <1>6 DEF Disown, Disowned, NextStep
  <2> QED
    BY <1>2, <2>1 DEF LocksAsMutex!Next, LocksAsMutex!Release
<1>7. ASSUME Exit(t) PROVE LocksAsMutex!Next
  <2>1. running = t
    BY <1>7 DEF Exit, InProgram
  <2>2. PICK ls \in release_locks(t) : \E us \in Woken(ls) :
          holder' = [l \in Locks |-> IF l \in ToSet(ls) THEN None ELSE holder[l]]
    BY <1>7 DEF Exit
  <2>3. \A l \in ToSet(ls) : l \in Locks /\ holder[l] = t
    BY <2>2, ReleasedTypes
  <2> QED
    BY <1>2, <2>1, <2>2, <2>3 DEF LocksAsMutex!Next, LocksAsMutex!Release
<1> QED
  BY <1>4, <1>5, <1>6, <1>7

\* Every lock, and thread_exit's release_locks, implements a mutex (lock_acquire,
\* lock_try_acquire, lock_release, cond_wait and release_locks), whatever threads
\* and programs there are and even after a lock_try_acquire has failed.
THEOREM LocksImplementMutex == Spec => LocksAreMutexes
<1>1. Init => LockInv
  BY LocksStart
<1>2. LockInv /\ [Next]_vars => LockInv'
  BY LocksStep
<1>3. LockInv /\ [Next]_vars => [LocksAsMutex!Next]_holder
  BY MutexStep
<1>4. Init => LocksAsMutex!Init
  BY MutexStart
<1> QED
  BY <1>1, <1>2, <1>3, <1>4, PTL DEF Spec, LocksAreMutexes, LocksAsMutex!Spec
=============================================================================
