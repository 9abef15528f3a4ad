----------------------------- MODULE ReadyList -----------------------------
(***************************************************************************)
(* The thread system of Project 1 (Project 1/thread.c): one CPU, a         *)
(* ready_list ordered by priority, and no preemption, since the            *)
(* intr_yield_on_return of thread_tick is commented out.                   *)
(*                                                                         *)
(* The interrupt level is part of the state: a step is the code between    *)
(* two points at which the level or the running thread changes, and the    *)
(* timer may interrupt whenever the level is "on".  Whether the queues     *)
(* are protected is therefore checked, not assumed.                        *)
(***************************************************************************)
EXTENDS Integers, Sequences, SequencesExt

CONSTANTS
  Threads,         \* pages that can hold a struct thread
  initial_thread,  \* the page main runs in, never given back
  Priorities,      \* priorities that programs choose
  None             \* NULL

PRI_MIN     == 0
PRI_DEFAULT == 31
PRI_MAX     == 63

ASSUME ThreadConstants ==
  /\ initial_thread \in Threads
  /\ Threads # {initial_thread}
  /\ None \notin Threads
  /\ Priorities \subseteq PRI_MIN .. PRI_MAX

VARIABLES
  running,      \* running_thread(): the thread the stack pointer is in
  status,       \* thread.status; "FREE" for a page in palloc's pool
  priority,     \* thread.priority
  pc,           \* where each thread is; "switch" when it is not running
  child,        \* the local t of thread_create
  idle_thread,
  ready_list,
  intr,         \* interrupt level: "on" or "off"
  in_intr,      \* intr_context(): timer_interrupt is running
  panic         \* an ASSERT has failed

thread_vars ==
  <<running, status, priority, pc, child, idle_thread, ready_list, intr, in_intr, panic>>

Statuses == {"RUNNING", "READY", "BLOCKED", "DYING", "FREE"}

Labels == {"boot", "create", "run", "sleep", "block", "hlt", "switch", "resume"}

\* thread_init, and thread_start up to its call of thread_create.
ThreadInit ==
  /\ running = initial_thread
  /\ status = [t \in Threads |-> IF t = initial_thread THEN "RUNNING" ELSE "FREE"]
  /\ priority = [t \in Threads |-> IF t = initial_thread THEN PRI_DEFAULT ELSE PRI_MIN]
  /\ pc = [t \in Threads |-> IF t = initial_thread THEN "boot" ELSE "switch"]
  /\ child = None
  /\ idle_thread = None
  /\ ready_list = <<>>
  /\ intr = "off"
  /\ in_intr = FALSE
  /\ panic = FALSE

-----------------------------------------------------------------------------

\* The CPU executes thread t, at label l.
At(t, l) == ~in_intr /\ running = t /\ pc[t] = l

\* Thread t is in the code of its program.
InProgram(t) == At(t, "run") /\ idle_thread \notin {None, t}

Goto(t, l) == pc' = [pc EXCEPT ![t] = l]

\* bug: a thread is put before those of its own priority.
PrioNotLess(a, b) == priority[a] >= priority[b]

prio_detect(a, b) == priority[a] > priority[b]

\* bug: the list_push_back that is still there as a comment.
PushBack(t) == ready_list' = Append(ready_list, t)

\* list_insert_ordered on ready_list: before the first thread that t beats.
InsertReady(t) ==
  \E i \in 1 .. Len(ready_list) + 1 :
    /\ \A j \in 1 .. i - 1 : ~prio_detect(t, ready_list[j])
    /\ i <= Len(ready_list) => prio_detect(t, ready_list[i])
    /\ ready_list' = InsertAt(ready_list, i, t)

\* bug: the thread is queued but its status stays BLOCKED.
UnblockQueueOnly(t) ==
  /\ panic' = (status[t] # "BLOCKED")
  /\ InsertReady(t)
  /\ UNCHANGED status

\* thread_unblock.
Unblock(t) ==
  /\ panic' = (status[t] # "BLOCKED")
  /\ InsertReady(t)
  /\ status' = [status EXCEPT ![t] = "READY"]

\* thread_create up to thread_unblock: palloc_get_page, init_thread, stack.
CreateThread(t, u, p) ==
  /\ status[u] = "FREE"
  /\ status' = [status EXCEPT ![u] = "BLOCKED"]
  /\ priority' = [priority EXCEPT ![u] = p]
  /\ child' = u
  /\ Goto(t, "create")
  /\ UNCHANGED <<running, idle_thread, ready_list, intr, in_intr, panic>>

-----------------------------------------------------------------------------

\* thread_start creates the idle thread, with interrupts still off.
CreateIdle(t) ==
  /\ At(t, "boot")
  /\ \E u \in Threads : CreateThread(t, u, PRI_MIN)

Create(t) ==
  /\ InProgram(t)
  /\ \E u \in Threads, p \in Priorities : CreateThread(t, u, p)

\* The end of thread_create; thread_start then enables interrupts.
CreateUnblock(t) ==
  /\ At(t, "create")
  /\ Unblock(child)
  /\ child' = None
  /\ intr' = "on"
  /\ Goto(t, "run")
  /\ UNCHANGED <<running, priority, idle_thread, in_intr>>

\* thread_start: sema_down(&idle_started) blocks until the idle thread ran.
AwaitIdle(t) ==
  /\ At(t, "run")
  /\ idle_thread = None
  /\ status' = [status EXCEPT ![t] = "BLOCKED"]
  /\ intr' = "off"
  /\ Goto(t, "switch")
  /\ UNCHANGED <<running, priority, child, idle_thread, ready_list, in_intr, panic>>

\* The idle thread's first steps: idle_thread is set, idle_started upped.
StartIdle(t) ==
  /\ At(t, "resume")
  /\ idle_thread = None
  /\ idle_thread' = t
  /\ Unblock(initial_thread)
  /\ intr' = "on"
  /\ Goto(t, "run")
  /\ UNCHANGED <<running, priority, child, in_intr>>

\* The head of idle's loop: intr_disable, thread_block.
IdleBlock(t) ==
  /\ At(t, "run")
  /\ t = idle_thread
  /\ status' = [status EXCEPT ![t] = "BLOCKED"]
  /\ intr' = "off"
  /\ Goto(t, "switch")
  /\ UNCHANGED <<running, priority, child, idle_thread, ready_list, in_intr, panic>>

\* The idle thread got the CPU back from schedule: "sti; hlt".
IdleHalt(t) ==
  /\ At(t, "resume")
  /\ t = idle_thread
  /\ intr' = "on"
  /\ Goto(t, "hlt")
  /\ UNCHANGED <<running, status, priority, child, idle_thread, ready_list, in_intr, panic>>

\* bug: interrupts stay on while a thread joins a queue or leaves the CPU.
KeepInterrupts == "on"

\* The level intr_disable sets.
Disabled == "off"

\* thread_yield up to schedule.
Yield(t) ==
  /\ InProgram(t)
  /\ panic' = (status[t] # "RUNNING")
  /\ intr' = Disabled
  /\ InsertReady(t)
  /\ status' = [status EXCEPT ![t] = "READY"]
  /\ Goto(t, "switch")
  /\ UNCHANGED <<running, priority, child, idle_thread, in_intr>>

\* thread_exit up to schedule.
Exit(t) ==
  /\ InProgram(t)
  /\ panic' = (status[t] # "RUNNING")
  /\ intr' = Disabled
  /\ status' = [status EXCEPT ![t] = "DYING"]
  /\ Goto(t, "switch")
  /\ UNCHANGED <<running, priority, child, idle_thread, ready_list, in_intr>>

\* thread_set_priority; interrupts stay on and the thread keeps the CPU.
SetPriority(t) ==
  /\ InProgram(t)
  /\ panic' = (status[t] # "RUNNING")
  /\ \E p \in Priorities : priority' = [priority EXCEPT ![t] = p]
  /\ UNCHANGED <<running, status, pc, child, idle_thread, ready_list, intr, in_intr>>

\* thread_block, called with interrupts off by the function at label l.
Block(t, l) ==
  /\ At(t, l)
  /\ panic' = (intr # "off" \/ status[t] # "RUNNING")
  /\ status' = [status EXCEPT ![t] = "BLOCKED"]
  /\ Goto(t, "switch")
  /\ UNCHANGED <<running, priority, child, idle_thread, ready_list, intr, in_intr>>

\* bug: an empty ready_list has no thread to run.
ReadyOnly == IF ready_list = <<>> THEN None ELSE Head(ready_list)

next_thread_to_run == IF ready_list = <<>> THEN idle_thread ELSE Head(ready_list)

\* The status a thread has once another one runs: a dying thread's page is
\* freed by thread_schedule_tail, unless it is the initial thread.
LeftStatus(t) == IF status[t] = "DYING" /\ t # initial_thread THEN "FREE" ELSE status[t]

\* schedule and thread_schedule_tail.
Schedule(t) ==
  /\ At(t, "switch")
  /\ LET next == next_thread_to_run IN
       /\ panic' = (intr # "off" \/ status[t] = "RUNNING" \/ next = None)
       /\ running' = next
       /\ status' = [status EXCEPT ![t] = LeftStatus(t), ![next] = "RUNNING"]
       /\ Goto(next, "resume")
  /\ priority' = IF LeftStatus(t) = "FREE" THEN [priority EXCEPT ![t] = PRI_MIN] ELSE priority
  /\ ready_list' = IF ready_list = <<>> THEN <<>> ELSE Tail(ready_list)
  /\ UNCHANGED <<child, idle_thread, intr, in_intr>>

\* A thread that got the CPU restores the interrupt level of its caller; a
\* new one enables interrupts in kernel_thread.
Resume(t) ==
  /\ At(t, "resume")
  /\ idle_thread \notin {None, t}
  /\ intr' = "on"
  /\ Goto(t, "run")
  /\ UNCHANGED <<running, status, priority, child, idle_thread, ready_list, in_intr, panic>>
=============================================================================
