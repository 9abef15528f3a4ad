------------------------------- MODULE Alarm -------------------------------
(***************************************************************************)
(* The alarm clock of Project 1 (Project 1/timer.c) on its thread system:  *)
(* timer_sleep queues the caller in wait_list, ordered by wake_tick, and   *)
(* timer_interrupt unblocks those at the front whose tick has come.        *)
(*                                                                         *)
(* thread.wake_tick is used only while the thread is in wait_list, so it   *)
(* is kept with the thread's entry there.                                  *)
(***************************************************************************)
EXTENDS ReadyList

CONSTANTS
  Spans,    \* arguments of timer_sleep; they may be zero or negative
  MaxTick   \* programs do not start to sleep at MaxTick or later

ASSUME TimerConstants == Spans \subseteq Int /\ MaxTick \in Nat

VARIABLES
  ticks,      \* timer ticks since boot
  wait_list,  \* sleeping threads with their wake_tick
  due         \* start + ticks in a call of timer_sleep

timer_vars == <<ticks, wait_list, due>>
vars == <<thread_vars, timer_vars>>

Entry == [thread : Threads, wake_tick : Int]

Init ==
  /\ ThreadInit
  /\ ticks = 0
  /\ wait_list = <<>>
  /\ due = 0

-----------------------------------------------------------------------------

\* timer_sleep: start is read, and interrupts are on again.
SleepStart(t) ==
  /\ InProgram(t)
  /\ ticks < MaxTick
  /\ \E n \in Spans : due' = ticks + n
  /\ Goto(t, "sleep")
  /\ UNCHANGED <<running, status, priority, child, idle_thread, ready_list, intr, in_intr, panic>>
  /\ UNCHANGED <<ticks, wait_list>>

\* bug: the list is kept in descending order.
MostSleep(a, b) == a > b

\* least_sleep, on wake ticks.
least_sleep(a, b) == a < b

\* list_insert_ordered on wait_list: before the first entry that is later.
InsertSleeper(e) ==
  \E i \in 1 .. Len(wait_list) + 1 :
    /\ \A j \in 1 .. i - 1 : ~least_sleep(e.wake_tick, wait_list[j].wake_tick)
    /\ i <= Len(wait_list) => least_sleep(e.wake_tick, wait_list[i].wake_tick)
    /\ wait_list' = InsertAt(wait_list, i, e)

\* timer_sleep: intr_disable, and the caller joins wait_list.
SleepQueue(t) ==
  /\ At(t, "sleep")
  /\ intr' = Disabled
  /\ panic' = (intr # "on" \/ status[t] # "RUNNING")
  /\ InsertSleeper([thread |-> t, wake_tick |-> due])
  /\ due' = 0
  /\ Goto(t, "block")
  /\ UNCHANGED <<running, status, priority, child, idle_thread, ready_list, in_intr, ticks>>

\* timer_sleep: thread_block.
SleepBlock(t) ==
  /\ Block(t, "block")
  /\ UNCHANGED timer_vars

-----------------------------------------------------------------------------

\* timer_interrupt begins; thread_tick only checks the current thread.  The
\* CPU leaves the hlt of the idle thread.
Interrupt ==
  /\ ~in_intr /\ intr = "on"
  /\ ticks < MaxTick \/ wait_list # <<>>
  /\ ticks' = ticks + 1
  /\ in_intr' = TRUE
  /\ intr' = "off"
  /\ panic' = (status[running] # "RUNNING")
  /\ pc' = [pc EXCEPT ![running] = IF @ = "hlt" THEN "run" ELSE @]
  /\ UNCHANGED <<running, status, priority, child, idle_thread, ready_list, wait_list, due>>

\* The test of timer_interrupt's loop.
IsDue(e) == e.wake_tick <= ticks

SomeoneDue == wait_list # <<>> /\ IsDue(Head(wait_list))

\* bug: list_pop_front, and then the loop goes on to the next thread.
SkipFront ==
  /\ in_intr
  /\ SomeoneDue
  /\ wait_list' = Tail(wait_list)
  /\ UNCHANGED <<thread_vars, ticks, due>>

\* One round of timer_interrupt's loop: list_pop_front, thread_unblock.
WakeFront ==
  /\ in_intr
  /\ SomeoneDue
  /\ Unblock(Head(wait_list).thread)
  /\ wait_list' = Tail(wait_list)
  /\ UNCHANGED <<running, priority, pc, child, idle_thread, intr, in_intr, ticks, due>>

InterruptReturn ==
  /\ in_intr
  /\ ~SomeoneDue
  /\ in_intr' = FALSE
  /\ intr' = "on"
  /\ UNCHANGED <<running, status, priority, pc, child, idle_thread, ready_list, panic, timer_vars>>

-----------------------------------------------------------------------------

ThreadStep(t) ==
  \/ CreateIdle(t)
  \/ CreateUnblock(t)
  \/ AwaitIdle(t)
  \/ StartIdle(t)
  \/ IdleBlock(t)
  \/ IdleHalt(t)
  \/ Schedule(t)
  \/ Resume(t)

\* What the kernel does without a choice of the program.
KernelStep(t) ==
  \/ ThreadStep(t) /\ UNCHANGED timer_vars
  \/ SleepQueue(t)
  \/ SleepBlock(t)

\* The ways a program gives up the CPU.
GiveUp(t) ==
  \/ Yield(t) /\ UNCHANGED timer_vars
  \/ Exit(t) /\ UNCHANGED timer_vars
  \/ SleepStart(t)

ProgramStep(t) ==
  \/ Create(t) /\ UNCHANGED timer_vars
  \/ SetPriority(t) /\ UNCHANGED timer_vars
  \/ GiveUp(t)

Handler == WakeFront \/ InterruptReturn

Next ==
  /\ ~panic
  /\ \/ \E t \in Threads : KernelStep(t) \/ ProgramStep(t)
     \/ Interrupt
     \/ Handler

Spec == Init /\ [][Next]_vars

\* The CPU executes kernel code when there is some to execute.  An interrupt
\* that arrives while interrupts are off stays pending.
FairSpec ==
  /\ Spec
  /\ WF_vars(~panic /\ \E t \in Threads : KernelStep(t))
  /\ WF_vars(~panic /\ Handler)
  /\ SF_vars(~panic /\ Interrupt)

\* Programs that sooner or later yield, sleep or exit.
CooperativeSpec == FairSpec /\ \A t \in Threads : SF_vars(~panic /\ GiveUp(t))

-----------------------------------------------------------------------------

\* Every variable has its type.
AlarmTypeOK ==
  /\ running \in Threads
  /\ status \in [Threads -> Statuses]
  /\ priority \in [Threads -> PRI_MIN .. PRI_MAX]
  /\ pc \in [Threads -> Labels]
  /\ child \in Threads \cup {None}
  /\ idle_thread \in Threads \cup {None}
  /\ ready_list \in Seq(Threads)
  /\ intr \in {"on", "off"}
  /\ in_intr \in BOOLEAN
  /\ panic \in BOOLEAN
  /\ ticks \in Nat
  /\ wait_list \in Seq(Entry)
  /\ due \in Int

\* No ASSERT of thread.c or timer.c fails: among them that thread_unblock gets a
\* blocked thread, that thread_current is running, and that schedule is called
\* with interrupts off and finds a thread.
NoAssertFails == ~panic

ReadyThreads == {ready_list[i] : i \in DOMAIN ready_list}
WaitingThreads == {wait_list[i].thread : i \in DOMAIN wait_list}

\* A thread is blocked outside wait_list only if it is idle, not yet started, or
\* the initial thread that awaits the idle thread.
BlockedElsewhere ==
  {child, idle_thread} \cup (IF idle_thread = None THEN {initial_thread} ELSE {})

\* A thread is in at most one queue, once, and in the one its status says
\* (thread.h:77-82): ready threads in ready_list, blocked ones in wait_list, and
\* a dying thread or a freed page in none.
QueuesMatchStatus ==
  /\ \A i, j \in DOMAIN ready_list : ready_list[i] = ready_list[j] => i = j
  /\ \A i, j \in DOMAIN wait_list : wait_list[i].thread = wait_list[j].thread => i = j
  /\ \A t \in Threads : t \in ReadyThreads <=> status[t] = "READY"
  /\ \A t \in Threads : status[t] = "BLOCKED" => t \in WaitingThreads \cup BlockedElsewhere
  /\ \A t \in WaitingThreads : status[t] = "BLOCKED" \/ (t = running /\ pc[t] = "block")

\* The thread that gets the CPU has the highest priority of those that are
\* ready, whatever priorities were set meanwhile; the idle thread gets it only
\* when none is ready.
HighestRunsNext ==
  [][pc[running] = "switch" /\ pc'[running'] = "resume" =>
       /\ \A t \in Threads : status[t] = "READY" => priority[running'] >= priority[t]
       /\ running' = idle_thread => ReadyThreads = {}]_vars

\* wait_list as a set of alarms.
Alarms == {<<wait_list[i].thread, wait_list[i].wake_tick>> : i \in DOMAIN wait_list}

Clock == INSTANCE AlarmClock WITH
  Sleepers <- Threads, now <- ticks, alarms <- Alarms, ringing <- in_intr

\* timer_sleep and timer_interrupt implement the alarm clock: nobody wakes early,
\* and an interrupt leaves nobody in wait_list whose tick has come, although the
\* handler stops at the first thread that is not due.
AlarmClockSpec == Clock!Spec

\* Every sleeper is made ready, also one whose tick had passed before
\* timer_sleep disabled interrupts.
SleepersWake == \A t \in Threads : t \in WaitingThreads ~> status[t] = "READY"

Outranked(t) == \E u \in Threads \ {t} :
  status[u] \in {"RUNNING", "READY"} /\ priority[u] > priority[t]

\* A ready thread runs, unless one of higher priority can: threads of one
\* priority take turns.
ReadyRuns == \A t \in Threads : status[t] = "READY" ~> status[t] = "RUNNING" \/ Outranked(t)
-----------------------------------------------------------------------------
(* The inductive invariant. *)

\* Labels at which interrupts are on; a thread creates the idle thread with
\* interrupts off.
Interruptible ==
  \/ pc[running] \in {"run", "sleep", "hlt"}
  \/ pc[running] = "create" /\ idle_thread # None

\* One thread has the CPU, and the interrupt level is that of its label.
CpuInv ==
  /\ \A t \in Threads \ {running} : pc[t] = "switch" /\ status[t] # "RUNNING"
  /\ pc[running] # "switch" => status[running] = "RUNNING"
  /\ pc[running] = "switch" => status[running] \in {"READY", "BLOCKED", "DYING"}
  /\ intr = "on" <=> ~in_intr /\ Interruptible
  /\ in_intr => Interruptible /\ pc[running] # "hlt"
  /\ pc[running] = "boot" => idle_thread = None
  /\ pc[running] = "hlt" => running = idle_thread
  /\ running = idle_thread => pc[running] \in {"run", "hlt", "switch", "resume"}

\* Who is blocked outside wait_list, and who is about to block.
BlockedInv ==
  /\ child # None <=> pc[running] = "create"
  /\ child # None => status[child] = "BLOCKED" /\ child \notin WaitingThreads \cup {idle_thread}
  /\ pc[running] = "block" => running \in WaitingThreads
  /\ idle_thread # None =>
       /\ status[idle_thread] \in {"RUNNING", "BLOCKED"}
       /\ idle_thread \notin WaitingThreads

\* Until the idle thread has started, schedule finds it in ready_list.
BootInv == idle_thread = None =>
  /\ wait_list = <<>>
  /\ \/ running = initial_thread /\ pc[running] \in {"boot", "create"}
     \/ running = initial_thread /\ pc[running] = "run" /\ ready_list # <<>>
     \/ /\ running = initial_thread /\ pc[running] = "switch"
        /\ status[running] = "BLOCKED" /\ ready_list # <<>>
     \/ /\ running # initial_thread /\ pc[running] = "resume"
        /\ status[initial_thread] = "BLOCKED"

\* Both queues are sorted.
ReadySorted ==
  \A i, j \in DOMAIN ready_list : i < j => priority[ready_list[i]] >= priority[ready_list[j]]

SleepersSorted ==
  \A i, j \in DOMAIN wait_list : i < j => wait_list[i].wake_tick <= wait_list[j].wake_tick

\* The local of timer_sleep is a past tick plus a span.
DueInv ==
  pc[running] = "sleep" => \E then \in 0 .. ticks, n \in Spans : due = then + n

AlarmInv ==
  /\ AlarmTypeOK
  /\ NoAssertFails
  /\ QueuesMatchStatus
  /\ CpuInv
  /\ BlockedInv
  /\ BootInv
  /\ ReadySorted
  /\ SleepersSorted
  /\ DueInv
=============================================================================
