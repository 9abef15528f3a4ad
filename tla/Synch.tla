------------------------------- MODULE Synch -------------------------------
(***************************************************************************)
(* Semaphores, locks and condition variables of Project 3                  *)
(* (threads/synch.c).  A lock's semaphore has the lock's name; the         *)
(* semaphore on the stack of a thread in cond_wait has the thread's name.  *)
(*                                                                         *)
(* A semaphore operation runs with interrupts off and is one step; what    *)
(* the lock and condition functions do around it is a step each.           *)
(***************************************************************************)
EXTENDS Scheduler

CONSTANTS
  Locks,      \* locks of the clients, and tid_lock
  tid_lock,
  Semas,      \* semaphores of the clients
  Conds,      \* condition variables
  Guard,      \* Guard[c]: the lock that cond_wait is called with for c
  MaxValue    \* bound: clients raise a semaphore up to this value

ASSUME SynchConstants ==
  /\ tid_lock \in Locks
  /\ Guard \in [Conds -> Locks \ {tid_lock}]
  /\ MaxValue \in Nat
  /\ Locks \cap (Semas \cup Threads) = {} /\ Semas \cap Threads = {}
  /\ "idle_started" \notin Locks \cup Semas \cup Threads

VARIABLES
  value,         \* of semaphores
  waiters,       \* of semaphores
  holder,        \* of locks
  cond_waiters,  \* of condition variables: the threads whose semaphores wait
  links,         \* pointers of lock_list and lock_elem, all_list and allelem
  faults         \* history: what has been done that lists cannot bear

synch_vars == <<value, waiters, holder, cond_waiters>>

AllSemas == Semas \cup Locks \cup Threads \cup {"idle_started"}

Lists == Threads \cup {"all"}
Heads == {list_head(q) : q \in Lists}
Tails == {list_tail(q) : q \in Lists}
Nodes == Heads \cup Tails \cup Threads \cup Locks

\* A pointer is to one object: no sentinel is a thread or a lock, none is NULL.
ASSUME NodesApart ==
  /\ None \notin Nodes /\ "all" \notin Threads /\ IsFiniteSet(Locks)
  /\ (Heads \cup Tails) \cap (Threads \cup Locks) = {}

\* sema_init and lock_init of the clients' objects, of tid_lock and of
\* idle_started.
SynchInit ==
  /\ value = [s \in AllSemas |-> IF s \in Locks THEN 1 ELSE 0]
  /\ waiters = [s \in AllSemas |-> <<>>]
  /\ holder = [l \in Locks |-> None]
  /\ cond_waiters = [c \in Conds |-> <<>>]

-----------------------------------------------------------------------------

\* bug: sema_down does not test the value again.
TakeAnyway(t, s) ==
  /\ value' = [value EXCEPT ![s] = @ - 1]
  /\ Done(t)
  /\ UNCHANGED <<status, ready_list, running, waiters, panic>>

\* sema_down finds the value positive.
DownTake(t, s) ==
  /\ value[s] > 0
  /\ value' = [value EXCEPT ![s] = @ - 1]
  /\ Done(t)
  /\ UNCHANGED <<status, ready_list, running, waiters, panic>>

\* bug: the test of the value was made before interrupts were off.
SleepAnyway(t, s) ==
  /\ waiters' = [waiters EXCEPT ![s] = Append(@, t)]
  /\ Block(t)
  /\ Becomes(t, <<"woken", s>>)
  /\ UNCHANGED value

\* sema_down finds zero and sleeps; woken, it tests again before interrupts are
\* on.
DownSleep(t, s) ==
  /\ value[s] = 0
  /\ waiters' = [waiters EXCEPT ![s] = Append(@, t)]
  /\ Block(t)
  /\ Becomes(t, <<"woken", s>>)
  /\ UNCHANGED value

\* One round of sema_down's loop.
Down(t, s) ==
  /\ NextStep(t, <<"down", s>>) \/ NextStep(t, <<"woken", s>>)
  /\ DownTake(t, s) \/ DownSleep(t, s)
  /\ UNCHANGED <<idle_thread, holder, cond_waiters, links, faults>>

\* bug: the list of waiters is tested for having more than one element.
FirstOfTwo(s) == IF Len(waiters[s]) < 2 THEN <<>> ELSE <<Head(waiters[s])>>

\* The waiter that sema_up wakes, if any.
First(s) == IF waiters[s] = <<>> THEN <<>> ELSE <<Head(waiters[s])>>

\* sema_up of each semaphore in ss: the first waiter goes, the value is raised.
Up(ss) ==
  /\ value' = [s \in AllSemas |-> IF s \in ss THEN value[s] + 1 ELSE value[s]]
  /\ waiters' = [s \in AllSemas |->
                   IF s \in ss THEN SubSeq(waiters[s], Len(First(s)) + 1, Len(waiters[s]))
                   ELSE waiters[s]]

SemaUp(t, s) ==
  /\ NextStep(t, <<"up", s>>)
  /\ Up({s})
  /\ Unblock(First(s))
  /\ Done(t)
  /\ UNCHANGED <<idle_thread, holder, cond_waiters, links, faults>>

-----------------------------------------------------------------------------

\* lock_acquire after sema_down.  Only the holder looks at holder and lock_list.
Own(t, l) ==
  /\ NextStep(t, <<"own", l>>)
  /\ holder' = [holder EXCEPT ![l] = t]
  /\ links' = list_push_back(links, t, l)
  /\ Done(t)
  /\ UNCHANGED <<status, ready_list, running, idle_thread, panic>>
  /\ UNCHANGED <<value, waiters, cond_waiters, faults>>

Disowned(l) == [holder EXCEPT ![l] = None]

\* lock_release asserts that the caller is the holder.
Disown(t, l) ==
  /\ NextStep(t, <<"disown", l>>)
  /\ IF holder[l] = t
     THEN holder' = Disowned(l) /\ links' = list_remove(links, l) /\ UNCHANGED panic
     ELSE panic' = TRUE /\ UNCHANGED <<holder, links>>
  /\ Done(t)
  /\ UNCHANGED <<status, ready_list, running, idle_thread>>
  /\ UNCHANGED <<value, waiters, cond_waiters, faults>>

lock_acquire(l) == << <<"down", l>>, <<"own", l>> >>

\* bug: the semaphore is raised while the lock is still held.
UpFirst(l) == << <<"up", l>>, <<"disown", l>> >>

lock_release(l) == << <<"disown", l>>, <<"up", l>> >>

\* The part of the state that a call leaves alone when it starts.
AtEntry ==
  /\ UNCHANGED <<status, ready_list, running, idle_thread, panic>>
  /\ UNCHANGED links

\* A client calls lock_acquire of a lock it does not hold.
Acquire(t, l) ==
  /\ InProgram(t) /\ l # tid_lock /\ holder[l] # t
  /\ Then(t, lock_acquire(l))
  /\ AtEntry /\ UNCHANGED <<synch_vars, faults>>

\* bug: a failed attempt still makes the caller the holder.
TryOwn(t, l) == << <<"own", l>> >>

\* After sema_try_down; list_push_back is not under the if.
TryRest(t, l) == IF value[l] > 0 THEN << <<"own", l>> >> ELSE << <<"misfile", l>> >>

\* lock_try_acquire up to sema_try_down.
TryAcquire(t, l) ==
  /\ InProgram(t) /\ l # tid_lock /\ holder[l] # t
  /\ faults = {}
  /\ value' = [value EXCEPT ![l] = IF @ > 0 THEN @ - 1 ELSE @]
  /\ Then(t, TryRest(t, l))
  /\ AtEntry /\ UNCHANGED <<waiters, holder, cond_waiters, faults>>

\* lock_try_acquire has failed.
Misfile(t, l) ==
  /\ NextStep(t, <<"misfile", l>>)
  /\ links' = list_push_back(links, t, l)
  /\ faults' = faults \cup {"misfiled"}
  /\ Done(t)
  /\ UNCHANGED <<status, ready_list, running, idle_thread, panic, synch_vars>>

Release(t, l) ==
  /\ InProgram(t) /\ holder[l] = t
  /\ Then(t, lock_release(l))
  /\ AtEntry /\ UNCHANGED <<synch_vars, faults>>

CallDown(t, s) ==
  /\ InProgram(t)
  /\ Then(t, << <<"down", s>> >>)
  /\ AtEntry /\ UNCHANGED <<synch_vars, faults>>

CallUp(t, s) ==
  /\ InProgram(t) /\ value[s] < MaxValue
  /\ Then(t, << <<"up", s>> >>)
  /\ AtEntry /\ UNCHANGED <<synch_vars, faults>>

-----------------------------------------------------------------------------

\* cond_wait after its assertions.
WaitSteps(t, c) ==
  << <<"enqueue", c>> >> \o lock_release(Guard[c]) \o << <<"down", t>> >> \o lock_acquire(Guard[c])

CondWait(t, c) ==
  /\ InProgram(t) /\ holder[Guard[c]] = t
  /\ Then(t, WaitSteps(t, c))
  /\ AtEntry /\ UNCHANGED <<synch_vars, faults>>

\* cond_wait: sema_init of the waiter, which then joins the condition's waiters.
Enqueue(t, c) ==
  /\ NextStep(t, <<"enqueue", c>>)
  /\ value' = [value EXCEPT ![t] = 0]
  /\ waiters' = [waiters EXCEPT ![t] = <<>>]
  /\ cond_waiters' = [cond_waiters EXCEPT ![c] = Append(@, t)]
  /\ Done(t)
  /\ UNCHANGED <<status, ready_list, running, idle_thread, panic, holder, links, faults>>

\* cond_signal pops the first waiter, whose semaphore it then raises.
Signal(t, c, rest) ==
  /\ cond_waiters' = [cond_waiters EXCEPT ![c] = PopFront(@)]
  /\ Then(t, (IF cond_waiters[c] = <<>> THEN <<>> ELSE << <<"up", Head(cond_waiters[c])>> >>)
             \o rest)
  /\ UNCHANGED <<value, waiters, holder, faults>>
  /\ AtEntry

CondSignal(t, c) ==
  /\ InProgram(t) /\ holder[Guard[c]] = t
  /\ Signal(t, c, <<>>)

\* cond_broadcast signals until there is no waiter.
CondBroadcast(t, c) ==
  /\ InProgram(t) /\ holder[Guard[c]] = t
  /\ Then(t, << <<"broadcast", c>> >>)
  /\ AtEntry /\ UNCHANGED <<synch_vars, faults>>

Broadcast(t, c) ==
  /\ NextStep(t, <<"broadcast", c>>)
  /\ Signal(t, c, IF cond_waiters[c] = <<>> THEN <<>> ELSE << <<"broadcast", c>> >>)
=============================================================================
