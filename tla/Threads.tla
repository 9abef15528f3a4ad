------------------------------ MODULE Threads ------------------------------
(***************************************************************************)
(* thread_create, allocate_tid, release_locks and thread_exit of Project 3 *)
(* (threads/thread.c) on Synch, and clients that call the whole interface. *)
(***************************************************************************)
EXTENDS Synch

CONSTANTS
  MaxTid,  \* bound: no thread is created after this tid
  May      \* May[t]: the calls that the program of a thread at page t makes

ASSUME ThreadBounds == MaxTid \in Nat /\ May \in [Threads -> SUBSET STRING]

VARIABLES
  tid,      \* of threads; 0 until allocate_tid has read next_tid
  next_tid

vars == <<thread_vars, synch_vars, links, faults, tid, next_tid>>

\* list_init of all_list and of the lock_lists; the two threads of ThreadInit
\* are in all_list.
LinksInit == links =
  LET empty == [next |-> [n \in Nodes |-> IF n \in Heads THEN list_tail(n[2]) ELSE None],
                prev |-> [n \in Nodes |-> IF n \in Tails THEN list_head(n[2]) ELSE None]]
  IN  list_push_back(list_push_back(empty, "all", initial_thread), "all", first_idle)

Init ==
  /\ ThreadInit
  /\ SynchInit
  /\ LinksInit
  /\ faults = {}
  /\ tid = [t \in Threads |-> CASE t = initial_thread -> 1 [] t = first_idle -> 2 [] OTHER -> 0]
  /\ next_tid = 3

-----------------------------------------------------------------------------

\* Threads that have begun list_push_back on all_list and not ended it.
Pushing == {t \in Threads : todo[t] # <<>> /\ Head(todo[t])[1] \in {"link", "close"}}

Overlapping(t) == IF Pushing \subseteq {t} THEN faults ELSE faults \cup {"overlap"}

\* init_thread clears the page; lock_list is taken to be initialised there.
Cleared(u) ==
  [next |-> [links.next EXCEPT ![u] = None, ![list_head(u)] = list_tail(u), ![list_tail(u)] = None],
   prev |-> [links.prev EXCEPT ![u] = None, ![list_tail(u)] = list_head(u), ![list_head(u)] = None]]

\* allocate_tid: next_tid++ reads and writes.
allocate_tid(u) ==
  lock_acquire(tid_lock) \o << <<"tid", u>>, <<"count", u>> >> \o lock_release(tid_lock)

\* thread_create gets a page, and init_thread begins to put it into all_list,
\* with interrupts on.
Create(t) ==
  /\ InProgram(t) /\ next_tid <= MaxTid
  /\ \E u \in Threads :
       /\ status[u] = "FREE"
       /\ status' = [status EXCEPT ![u] = "BLOCKED"]
       /\ tid' = [tid EXCEPT ![u] = 0]
       /\ links' = PointElem(Cleared(u), "all", u)
       /\ Then(t, << <<"link", u>>, <<"close", u>> >> \o allocate_tid(u) \o << <<"process", u>> >>)
  /\ faults' = Overlapping(t)
  /\ UNCHANGED <<ready_list, running, idle_thread, panic, synch_vars, next_tid>>

\* The last two stores of list_push_back.
LinkThread(t, u) ==
  /\ \/ NextStep(t, <<"link", u>>) /\ links' = LinkElem(links, "all", u)
     \/ NextStep(t, <<"close", u>>) /\ links' = CloseElem(links, "all", u)
  /\ Done(t)
  /\ UNCHANGED <<status, ready_list, running, idle_thread, panic>>
  /\ UNCHANGED <<synch_vars, faults, tid, next_tid>>

CountTid(t, u) ==
  /\ \/ NextStep(t, <<"tid", u>>) /\ tid' = [tid EXCEPT ![u] = next_tid] /\ UNCHANGED next_tid
     \/ NextStep(t, <<"count", u>>) /\ next_tid' = tid[u] + 1 /\ UNCHANGED tid
  /\ Done(t)
  /\ UNCHANGED <<status, ready_list, running, idle_thread, panic>>
  /\ UNCHANGED <<synch_vars, links, faults>>

\* thread_create has its struct process, or malloc fails and the page goes back
\* to palloc although it stands in all_list.
NewProcess(t, u) ==
  /\ NextStep(t, <<"process", u>>)
  /\ \/ Unblock(<<u>>) /\ UNCHANGED faults
     \/ /\ status' = [status EXCEPT ![u] = "FREE"]
        /\ faults' = faults \cup {"no_process"}
        /\ UNCHANGED <<ready_list, running, panic>>
  /\ Done(t)
  /\ UNCHANGED <<idle_thread, synch_vars, links, tid, next_tid>>

-----------------------------------------------------------------------------

\* The locks that release_locks finds in t's lock_list, if it gets to the end
\* of that list and lock_release accepts every one of them: t is the holder, and
\* has not released it before.
Releasable(t) ==
  LET node == Walk(links, t, Cardinality(Locks) + 1)
  IN  {[i \in 1 .. k |-> node[i]] :
         k \in {k \in 0 .. Cardinality(Locks) :
                  /\ node[k + 1] = list_tail(t)
                  /\ \A i \in 1 .. k :
                       /\ node[i] \in Locks /\ holder[node[i]] = t
                       /\ \A j \in 1 .. k : node[i] = node[j] => i = j}}

\* bug: thread_exit without release_locks.
KeepLocks(t) == {<<>>}

\* release_locks, as a set: empty if an assertion fails on the way.
release_locks(t) == Releasable(t)

\* bug: the dead thread stays in all_list.
StayListed(ls, t) == FoldLeft(list_remove, links, ls)

\* The pointers after lock_release of ls and list_remove of allelem.
Unlisted(ls, t) == list_remove(FoldLeft(list_remove, links, ls), t)

\* The threads that lock_release of ls unblocks, in this order.
Woken(ls) ==
  LET busy == {i \in DOMAIN ls : First(ls[i]) # <<>>}
  IN  {us \in UNION {[1 .. n -> Threads] : n \in 0 .. Len(ls)} :
         \E at \in [DOMAIN us -> busy] :
           /\ {at[k] : k \in DOMAIN us} = busy
           /\ \A j, k \in DOMAIN us : j < k => at[j] < at[k]
           /\ \A k \in DOMAIN us : us[k] = Head(First(ls[at[k]]))}

\* thread_exit from intr_disable on.
Exit(t) ==
  /\ InProgram(t)
  /\ \/ release_locks(t) = {} /\ panic' = TRUE
        /\ UNCHANGED <<status, ready_list, running, value, waiters, holder, links, faults>>
     \/ \E ls \in release_locks(t) : \E us \in Woken(ls) :
          /\ Up(ToSet(ls))
          /\ holder' = [l \in Locks |-> IF l \in ToSet(ls) THEN None ELSE holder[l]]
          /\ links' = Unlisted(ls, t)
          /\ faults' = Overlapping(t)
          /\ Schedule(t, "DYING",
                      [u \in Threads |-> IF u \in ToSet(us) THEN "READY" ELSE status[u]],
                      ready_list \o us)
  /\ UNCHANGED <<idle_thread, todo, cond_waiters, tid, next_tid>>

-----------------------------------------------------------------------------

\* What a thread has still to do in the kernel.
LockStep(t) == \E l \in Locks : Own(t, l) \/ Disown(t, l) \/ Misfile(t, l)

CondStep(t) == \E c \in Conds : Enqueue(t, c) \/ Broadcast(t, c)

CreateStep(t) == \E u \in Threads : LinkThread(t, u) \/ CountTid(t, u) \/ NewProcess(t, u)

KernelStep(t) ==
  \/ /\ \/ \E s \in AllSemas : Down(t, s) \/ SemaUp(t, s)
        \/ LockStep(t)
        \/ CondStep(t)
     /\ UNCHANGED <<tid, next_tid>>
  \/ CreateStep(t)
  \/ StartIdle(t) /\ UNCHANGED <<synch_vars, links, faults, tid, next_tid>>

Idle(t) == IdleBlock(t) /\ UNCHANGED <<synch_vars, links, faults, tid, next_tid>>

Yield(t) == Preempt(t) /\ UNCHANGED <<synch_vars, links, faults, tid, next_tid>>

\* What a client may call.
Call(t) ==
  \/ /\ \/ \E s \in Semas : "down" \in May[t] /\ CallDown(t, s)
        \/ \E s \in Semas : "up" \in May[t] /\ CallUp(t, s)
        \/ \E l \in Locks : "lock" \in May[t] /\ (Acquire(t, l) \/ Release(t, l))
        \/ \E l \in Locks : "try" \in May[t] /\ TryAcquire(t, l)
        \/ \E c \in Conds : "wait" \in May[t] /\ CondWait(t, c)
        \/ \E c \in Conds : "signal" \in May[t] /\ (CondSignal(t, c) \/ CondBroadcast(t, c))
     /\ UNCHANGED <<tid, next_tid>>
  \/ "create" \in May[t] /\ Create(t)
  \/ "exit" \in May[t] /\ Exit(t)

Next ==
  /\ ~panic
  /\ \E t \in Threads : KernelStep(t) \/ Idle(t) \/ Yield(t) \/ Call(t)

Spec == Init /\ [][Next]_vars

\* The CPU executes kernel code when there is some to execute, and time slices
\* end; interrupts that come while they are off stay pending.
FairSpec ==
  /\ Spec
  /\ WF_vars(~panic /\ \E t \in Threads : KernelStep(t) \/ Idle(t))
  /\ SF_vars(~panic /\ \E t \in Threads : Yield(t))

-----------------------------------------------------------------------------

Alive == {t \in Threads : status[t] \notin {"FREE", "DYING"}}

\* What todo may hold.
Op ==
  {<<"start">>, <<"idle">>} \cup
  ({"down", "woken", "up", "own", "disown", "misfile", "enqueue", "broadcast",
    "link", "close", "tid", "count", "process"} \X (AllSemas \cup Conds))

\* Every variable has its type.
ThreadsTypeOK ==
  /\ status \in [Threads -> Statuses]
  /\ ready_list \in Seq(Threads)
  /\ running \in Threads
  /\ idle_thread \in {None, first_idle}
  /\ todo \in [Threads -> Seq(Op)]
  /\ value \in [AllSemas -> Nat]
  /\ waiters \in [AllSemas -> Seq(Threads)]
  /\ holder \in [Locks -> Threads \cup {None}]
  /\ cond_waiters \in [Conds -> Seq(Threads)]
  /\ links \in [next : [Nodes -> Nodes \cup {None}], prev : [Nodes -> Nodes \cup {None}]]
  /\ faults \subseteq {"misfiled", "overlap", "no_process"}
  /\ tid \in [Threads -> Nat]
  /\ next_tid \in Nat
  /\ panic \in BOOLEAN

\* The queues that a thread's elem may be in, each with the status it goes with.
InReady(t) == {i \in DOMAIN ready_list : ready_list[i] = t}
InWaiters(t) == UNION {{<<s, i>> : i \in {i \in DOMAIN waiters[s] : waiters[s][i] = t}} : s \in AllSemas}

\* Threads that thread_create has not unblocked yet.
Unborn == {u \in Threads : status[u] = "BLOCKED" /\
             \E t \in Threads : \E i \in DOMAIN todo[t] : todo[t][i] = <<"process", u>>}

\* thread.h, on elem: a thread is in ready_list or in the waiters of one
\* semaphore, once, and in the one its status says.  The idle thread, a thread
\* not yet unblocked and a dead one are in none.
ElemExclusive ==
  \A t \in Threads :
    /\ Cardinality(InReady(t)) = IF status[t] = "READY" /\ t # idle_thread THEN 1 ELSE 0
    /\ Cardinality(InWaiters(t)) =
         IF status[t] = "BLOCKED" /\ t \notin Unborn \cup {idle_thread} THEN 1 ELSE 0

\* An assertion of thread.c or synch.c fails only after a lock_try_acquire that
\* found the lock taken: it has put the lock into a second lock_list.
NoAssertFails == panic => "misfiled" \in faults

Awake(s) == {t \in Threads : todo[t] # <<>> /\ Head(todo[t]) = <<"woken", s>> /\ InWaiters(t) = {}}

\* No wake-up is lost: while threads wait for a semaphore, every unit of its
\* value has a thread that was woken for it and has not run yet.
NoLostWakeup ==
  \A s \in AllSemas : waiters[s] # <<>> => value[s] <= Cardinality(Awake(s))

\* lock_list of every thread holds exactly the locks whose holder it is, so that
\* thread_exit gives back all of them, and a dead thread holds none.
LockListRight == "misfiled" \notin faults =>
  /\ \A t \in Alive : Holds(links, t, {l \in Locks : holder[l] = t}, Cardinality(Locks))
  /\ \A l \in Locks : holder[l] \in Alive \cup {None}

\* all_list holds every living thread once, in both directions, unless an
\* operation on it was cut by another or thread_create gave back a page that
\* stood in it (thread.c, on all_list).
AllListed == faults \cap {"overlap", "no_process"} = {} /\ Pushing = {} =>
  Holds(links, "all", Alive, Cardinality(Threads))

LocksAsMutex == INSTANCE Mutex WITH
  Owners <- Threads, Nobody <- None, owner <- holder, actor <- running

\* Every lock, thread_exit's release_locks included, is a mutex.
LocksAreMutexes == LocksAsMutex!Spec

\* A semaphore that is positive while threads wait for it gets taken.
WaitersGetIn ==
  \A s \in Locks \cup Semas :
    value[s] > 0 /\ waiters[s] # <<>> ~> value[s] = 0 \/ waiters[s] = <<>> \/ panic
=============================================================================
