----------------------------- MODULE Scheduler -----------------------------
(***************************************************************************)
(* Threads of Project 3 (threads/thread.c): status, ready_list, and the    *)
(* switch from one thread to the next.  One CPU; code with interrupts off  *)
(* runs as one step, everything else may be preempted between two steps.   *)
(* A member of Threads is a page that can hold a struct thread.            *)
(***************************************************************************)
EXTENDS Sequences, FiniteSets, SequencesExt, KernelList

CONSTANTS
  Threads,         \* pages of the kernel pool for struct thread
  initial_thread,  \* the thread that runs main
  first_idle,      \* the page thread_start gets for the idle thread
  None             \* NULL

ASSUME ThreadConstants ==
  /\ initial_thread \in Threads /\ first_idle \in Threads
  /\ initial_thread # first_idle
  /\ None \notin Threads /\ IsFiniteSet(Threads)

VARIABLES
  status,       \* enum thread_status; FREE is a page that palloc can give out
  ready_list,
  running,      \* running_thread ()
  idle_thread,
  todo,         \* what the thread has still to do in the kernel, step by step
  panic         \* an ASSERT has failed and the kernel has stopped

thread_vars == <<status, ready_list, running, idle_thread, todo, panic>>

Statuses == {"FREE", "RUNNING", "READY", "BLOCKED", "DYING"}

\* thread_init and thread_start up to intr_enable: the idle thread is ready.
ThreadInit ==
  /\ status = [t \in Threads |->
                 CASE t = initial_thread -> "RUNNING"
                   [] t = first_idle -> "READY"
                   [] OTHER -> "FREE"]
  /\ ready_list = <<first_idle>>
  /\ running = initial_thread
  /\ idle_thread = None
  /\ todo = [t \in Threads |->
               CASE t = initial_thread -> << <<"down", "idle_started">> >>
                 [] t = first_idle -> << <<"start">>, <<"up", "idle_started">>, <<"idle">> >>
                 [] OTHER -> <<>>]
  /\ panic = FALSE

\* The thread on the CPU is in its program, or its next step is op.
InProgram(t) == running = t /\ todo[t] = <<>>
NextStep(t, op) == running = t /\ todo[t] # <<>> /\ Head(todo[t]) = op

Then(t, steps) == todo' = [todo EXCEPT ![t] = steps]
Done(t) == Then(t, Tail(todo[t]))
Becomes(t, op) == Then(t, <<op>> \o Tail(todo[t]))

\* Interrupts are on, except in a thread that sema_down has woken and that has
\* not yet tested the semaphore again.
InterruptsOn(t) == todo[t] # <<>> => Head(todo[t])[1] # "woken"

\* bug: the thread that runs next stays in ready_list.
KeepFront(q) == q

\* next_thread_to_run takes the front out of ready_list.
PopFront(q) == IF q = <<>> THEN q ELSE Tail(q)

next_thread_to_run(q) == IF q = <<>> THEN idle_thread ELSE Head(q)

\* thread_schedule_tail frees the page of the thread that died, not that of the
\* initial thread.
AfterSwitch(t, st) == IF st = "DYING" /\ t # initial_thread THEN "FREE" ELSE st

\* schedule: the running thread t has become st, others are as in sts and q.
\* Until the idle thread has run there may be no thread at all to switch to.
Schedule(t, st, sts, q) ==
  LET next == next_thread_to_run(q)
  IN  IF next = None
      THEN panic' = TRUE /\ UNCHANGED <<status, ready_list, running>>
      ELSE /\ status' = [sts EXCEPT ![t] = AfterSwitch(t, st), ![next] = "RUNNING"]
           /\ ready_list' = PopFront(q)
           /\ running' = next
           /\ UNCHANGED panic

\* thread_block.
Block(t) == Schedule(t, "BLOCKED", status, ready_list)

\* thread_unblock of the threads us, in this order.
Unblock(us) ==
  /\ panic' = (\E i \in DOMAIN us : status[us[i]] # "BLOCKED")
  /\ ready_list' = ready_list \o us
  /\ status' = [u \in Threads |-> IF u \in ToSet(us) THEN "READY" ELSE status[u]]
  /\ UNCHANGED running

\* thread_yield's test of the idle thread.
YieldTo(t) == IF t # idle_thread THEN Append(ready_list, t) ELSE ready_list

\* thread_yield, called by a thread, or on return from the timer interrupt when
\* thread_tick has counted TIME_SLICE ticks.
Preempt(t) ==
  /\ running = t
  /\ InterruptsOn(t)
  /\ Schedule(t, "READY", status, YieldTo(t))
  /\ UNCHANGED <<idle_thread, todo>>

\* idle: it makes itself known, wakes the initial thread, and then blocks again
\* whenever an interrupt has ended its hlt.
StartIdle(t) ==
  /\ NextStep(t, <<"start">>)
  /\ idle_thread' = t
  /\ Done(t)
  /\ UNCHANGED <<status, ready_list, running, panic>>

IdleBlock(t) ==
  /\ NextStep(t, <<"idle">>)
  /\ Block(t)
  /\ UNCHANGED <<idle_thread, todo>>
=============================================================================
