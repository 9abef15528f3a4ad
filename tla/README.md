# A TLA+ verification project for CompSysPintOS

The repository holds three student projects on the Pintos teaching kernel: a
priority ready list and an alarm clock (Project 1), processes and system calls
(Project 2), and virtual memory with processes, locks and a preemptive
scheduler (Project 3). This directory models them in TLA+, checks the models
with TLC and proves theorems about them with TLAPS.

`PROJECT.json` lists the components, the runs, the source lines behind every
definition, the hazards, the findings and the theorems.

## 1. Inventory

| Component | State | Operations | Hard part | What makes it correct |
|---|---|---|---|---|
| Frame table (`Project 3/vm/frame.c`) | `frame_tbl_list`, `frame_tbl_lock`, palloc's user pool | `frame_alloc`, `evict_frame`, `add_frame_to_tbl`, `free_frame` | eviction interleaves with the victim's owner, with other evictions and with teardown; the lock is taken in one function and released in another | every frame is in one place; the scan position stays valid; a page in use is the one tabled for its frame |
| Supplemental page table (`vm/page.c`) | one entry per known page: type, `is_loaded`, `pinned`, `swap_index` | `load_page`, `load_file`, `load_swap`, `stack_growth`, `page_table_rm` | flags written without a lock by owner and evictor | loaded implies mapped; content is the page's own |
| Swap (`vm/swap.c`) | bitmap of slots | `swap_in`, `swap_out` | slot lifetime follows the page's state | used slots are exactly the pages swapped out |
| Page fault (`userprog/exception.c`) | none | `page_fault`, `kill` | faults in the kernel while a lock is held | every fault is served or kills the process |
| Mapped files, exit (`userprog/process.c`, `syscall.c`) | `mmap_list`, page directory | `mmap`, `munmap`, `process_exit` | tests are not under the lock that protects what they test | everything is given back, nothing of another process is |
| File system calls (`userprog/syscall.c`) | descriptors, `file_lock` | `open`, `read`, `write`, `seek`, `close`, ... | one global lock, early exits, user buffers that fault | the lock is released on every path |
| Process lifecycle (`Original Files/process.c`, `userprog/process.c`) | `struct process`: parent's list, status, exit code, one semaphore for two purposes | `process_execute`, `start_process`, `process_wait`, `process_exit` | parent and child may exit in either order; every step may fail | one exit code per child, no wait for ever, no use after free, pages and files come back |
| Scheduler (`Project 3/threads/thread.c`, `Project 1/thread.c`) | `ready_list`, `all_list`, thread status | `thread_create`, `thread_block`, `thread_unblock`, `thread_yield`, `thread_exit` | interrupts, list elements shared between queues | a thread is in at most one queue, the one its status says |
| Synchronisation (`threads/synch.c`) | value, waiters, holder, `lock_list` | semaphores, locks, condition variables, `release_locks` | lost wake-ups, a lock in two lists | mutual exclusion, no wake-up lost, a thread's list is what it holds |
| Alarm clock (`Project 1/timer.c`) | sleeping list, `ticks` | `timer_sleep`, `timer_interrupt` | tick read before interrupts are off | nobody wakes early, nobody oversleeps |
| Project 2 system calls | `LOCK`, descriptors | `open`, `read`, `write`, `create`, ... | unbalanced acquire and release | the lock is balanced on every path |
| ELF loader, argument stack (`load` in both `process.c`) | pages mapped so far, locals of `load_segment`, the stack page | `validate_segment`, `load_segment`, `setup_stack`, `push_args_to_stack` | boundaries, 32-bit wrap, failure half-way | memory and stack equal a reference definition, nothing is left behind |

`userprog/` repeats Project 2; `examples/`, the build files and
`Project 3 - Version 2` have no state.

How they interact: a user access faults into `page_fault`, which works on the
thread's own supplemental page table and calls `frame_alloc`; `frame_alloc` may
evict a page of any process, writing to that process's entry, its page
directory, the swap bitmap, or a file under `file_lock`. System calls touch user
pages while they hold `file_lock`, and may fault there. `process_exit` and
`munmap` call `free_frame`. `process_execute` creates a thread, which loads its
executable in `start_process`; parent and child meet at the semaphore of the
child's `struct process`, and every file call takes `file_lock`. A dying thread
gives back what it holds in `release_locks`. The scheduler preempts all of this
anywhere that interrupts are on.

## 2. What is modelled now

| Module | Models |
|---|---|
| `VMState` | constants, variables, `Init`, the helpers all modules use |
| `FrameTable` | `vm/frame.c`, `swap_out` |
| `PageTable` | `vm/page.c`, `swap_in`, `install_page`, `page_fault` |
| `Teardown` | `read`/`write` on a user buffer, `mmap`, `munmap`, `process_remove_mmap`, `page_table_rm`, `process_exit` |
| `VirtualMemory` | composition, specification, properties, first inductive invariant |
| `VMInvariants` | the further inductive invariants: the tables (`TableInv`), the data (`ContentInv`), the causes of panics (`CauseInv`); the regimes the theorems are about; the refinement mapping to `AddressSpace` |
| `AddressSpace` | abstract specification: what demand paging promises to programs |
| `MCVirtualMemory` | instances for TLC |
| `VMProofs` | every step keeps types, lock, hand and frame partition; theorems |
| `VMTables` | every step keeps `TableInv` while no teardown overlaps an eviction, and when none does; theorems |
| `VMContents` | every step keeps `ContentInv` and `CauseInv`; theorems on data, swap slots, stores and panics, and that paging implements `AddressSpace` |
| `ReadyList` | `Project 1/thread.c`: threads, `ready_list`, idle thread, interrupt level |
| `Alarm` | `Project 1/timer.c` on `ReadyList`: composition, specification, properties, inductive invariant |
| `AlarmClock` | abstract specification: what `timer_sleep` promises |
| `MCAlarm` | instances for TLC |
| `AlarmProofs` | lemmas on ordered insertion and removal from the front; every action keeps the inductive invariant; the theorems, among them that `Alarm` implements `AlarmClock` |
| `KernelList` | `list_push_back` and `list_remove` store by store, on pointers |
| `Scheduler` | `Project 3/threads/thread.c`: status, `ready_list`, `schedule`, idle thread |
| `Synch` | `Project 3/threads/synch.c`: semaphores, locks, condition variables, `lock_list` |
| `Threads` | `thread_create`, `allocate_tid`, `thread_exit`, `release_locks` on `Synch`: composition, specification, properties |
| `Mutex` | abstract specification: what a lock promises |
| `MCThreads` | instance for TLC |
| `SynchLocks` | types and the pairing of lock steps, and the theorem that locks implement `Mutex` |
| `SynchProofs` | the queues' invariant, and that of the pointers of `lock_list` and `all_list`; theorems on queues, wake-ups, lists and assertions |
| `Process` | `Original Files/process.c` on processes, `userprog/syscall.c` on processes and files |
| `Family` | abstract specification: what `process_execute` and `process_wait` promise to the parent |
| `MCProcess`, `ProcessProofs` | instance for TLC; inductive invariant and theorems, among them that `Process` implements `Family` |
| `Loader` | `load` and what it calls, eager (`Original Files`) and demand-paged (`userprog`) |
| `MCLoader`, `LoaderProofs` | instance for TLC; inductive invariant and theorems |

**Correspondence, virtual memory.** Each process has one kernel thread. `pc[p]` names the place
in the code, `cur`, `frame`, `hand` and `fte` are the locals of the functions on
its stack, and `mode` says which kernel path the thread is on, so that a fault
knows where to resume. A step is the code between two points at which another
thread can see or change something the code uses; inside a lock that every user
of the data takes (`swap_lock`) it is the whole critical section, whereas
`evict_frame` is cut into `EvictFrame`, `ScanEntry`, `TestVictim`, `WriteBack` or
`SwapOut`, `Unload`, `ClearPage`, `ReleaseFrame` and `Repalloc`, because the owner
of the victim and the users of the pool do not take `frame_tbl_lock`. A page is
a pair of a process and an address and is one model value: `Owner` and `Kind`
say whose it is and how it comes into being. A frame's content is the page it
belongs to and a version, 0 as in the file and 1 as stored by the program.
`panic` records why the kernel stopped: a failed assertion, an explicit `PANIC`,
or the use of memory that is not what the code takes it for.

**Correspondence, alarm clock.** There is one CPU and no preemption
(`thread_tick` has it commented out), so other threads run only after `schedule`;
what interleaves is the timer interrupt. The interrupt level `intr` is part of
the state, and code with interrupts off is still cut where it changes a queue
and a status separately (`SleepQueue`/`SleepBlock`, `Yield`/`Schedule`): that no
interrupt comes in between follows from the level and is not assumed.
`timer_interrupt` is `Interrupt`, one `WakeFront` per round of its loop, and
`InterruptReturn`. `pc[t]` is `"switch"` for every thread that is not running and
`"resume"` when it has got the CPU back. A member of `Threads` is `"FREE"` until
`thread_create` takes it and again after `thread_schedule_tail`. `wake_tick` is
kept with the thread's entry in `wait_list`, the only place where it is used.
Boot is modelled from `thread_init` on: until the idle thread has run once,
`idle_thread` is NULL and `schedule` has no thread to fall back on. `all_list`,
tids and statistics are left out.

**Correspondence, synchronisation.** The scheduler of Project 3 preempts, so what
interleaves is threads: `Yield` may come between any two steps with interrupts
on. A function with interrupts off throughout (`sema_down` up to
`thread_block`, `sema_up`) is one step. What a thread has still to do in the
kernel is `todo[t]`, a sequence of instructions: `lock_acquire` is `down` and
`own`, `cond_wait` is `enqueue`, the release of the lock, `down`, and
`lock_acquire` again. The waiter loop of `sema_down` is there: a woken thread tests the value
anew, and another may have taken it. `links` holds the pointers of `all_list` and
of each `lock_list`, because three places corrupt them: `init_thread` links into
`all_list` with interrupts on; `thread_create` gives a page back that stands in
`all_list` when `malloc` fails (`thread.c:196-200`); and `lock_try_acquire` pushes
the lock on its caller's list even when it fails (`synch.c:213`). `faults`
remembers which of these has happened, and the properties say how far each
reaches. `Own` (holder and list) and `Disown` are one step each, since only the
holder looks at either.

**Correspondence, processes.** One record `rec[q]` per `struct process`, `final`
and `told` as history: what a process exited with, and what `process_wait` said.
`pc[p]` is the label in `process_execute`, `start_process`, `process_wait`,
`process_exit` or a file call. `Fault` is an exit with -1 from user mode, or
inside a file call that touches the user's buffer, with `file_lock` held. A
list that is searched from its tail (`get_child`, `get_file`, the loop over the
orphans in `process_exit`) takes the list head in `struct thread` for an element:
a search for pid or descriptor 0, and an exit with children that were not waited
for, stop the model (`panic`). That loop never reaches a child, so that the
state ORPHAN is never set, contrary to the comment at `process.c:200-201` (`process_orphans`). The first descriptor
of a process is its executable, which `load` opens (`NewDescriptor` in `Loaded`),
and a load may fail after that.
`CreateFails` stands for every failure of `thread_create`, also that of `malloc`
after the tid was taken.

**Correspondence, loader.** `variant`, `phdrs` and `args` are chosen in `Init` and
never change. `opened` says whether the executable is open and not writable: in the
list of files (eager) or in `t->executable` (demand). `mem` has, for each page, the first byte of the file it shows, how
many bytes come from there, and the protection: in the eager variant this is the
page directory with its frames, in the demand variant the entries of the
supplemental page table. `seg` has the locals of `load_segment`, `stack` the
bytes of the stack page. `Fail` is every `goto done` after a failed read, a
refused header or an empty pool. Arithmetic on addresses is modulo `Words`. When
the demand variant pushes past the stack page the kernel faults, which is
`PageTable`'s part: the model ends in `fault`.

**External code.** `palloc`, `pagedir`, `malloc` and the MMU are outside the
repository and are modelled from their use: `palloc_get_page` returns any free
page, the MMU sets accessed and dirty bits, `free` overwrites the block.

**How the source is read.** Project 3 does not build as it stands: functions are
called by two names (`grow_stack`/`stack_growth`, `frame_free`/`free_frame`,
`page_table_destroy`/`page_table_rm`, `spt`/`suppl_page_table`,
`uva`/`unused_virtual_address`, `add_mmap_to_page_table`/`add_mmap_page_tbl`).
Each is read as its evident target. The lists of a thread are taken as
initialised, which `init_thread` leaves out (`lock_list` has no `list_init` in the
repository), and `release_locks`' `elem` as the `lock_elem` that the other
functions link. Pinning of system-call buffers exists in no code that is called,
so `read` and `write` do not pin. `Process` takes the process functions of
`Original Files`, which the system calls were written for; with the
`process_exit` of `userprog`, which acquires `file_lock` itself, an exit out of
`seek` would fail an assertion.

**Left out.** In virtual memory: malloc failure, writes to read-only pages,
several mappings per process, the part of a page beyond `read_bytes`. A page
directory that has no memory for another page table is modelled
(`InstallFails`, allowed by "no_memory" in `Calls`): the three loads give the frame
back. Of `process_exit` in `userprog/process.c` the closing of files is a wait for
`file_lock`, and the lines 156-165 (`child_process` records, `exit_sema`) are left
out. In
`Threads`: tick statistics, `thread_set_priority` (Project 3 uses no priorities),
`thread_foreach`, `thread_alive`; and `lock_try_acquire` once a fault has happened, since
the lists are undefined after that. In `Process`: contents of files,
`halt`, and the block that `open` leaks when the file does not exist. In
`Loader`: contents of the file, fields of the ELF header that are only compared,
and an empty command line, whose `argv[0]` is not initialised; `frame_alloc` is
taken to succeed when a page is free.

**Not modelled.** Project 2's system calls: `LOCK` is passed to no `lock_init`, so
the first `lock_acquire` follows a null pointer and no state behind it is one the
program can be in. Project 2's processes: `process_wait` returns -1 at once, and
`setup_stack` passes `PHYS_BASE` to `realloc`, which is undefined; what is defined
of it is the text of the eager loader. The `child_process` protocol of
`Project 3/userprog/process.c`: `add_child_process` is called nowhere and
`child_list` never initialised, so `start_process` goes through a null pointer.
`userprog/` (the copy of Project 2), examples, build files, documents.

## 3. The runs

| Run | Instance | Shows |
|---|---|---|
| `vm_pressure` | 2 processes, pages FILE, MMAP and ZERO, 2 frames, stores | types, frame partition, mapped pages are tabled, loaded pages are mapped, swap slots are owned, no page shows another's data, no panic, and no eviction unmaps a pinned page |
| `vm_solo` | 1 process, a page of every kind, 2 frames, all calls | the tables agree and each page's data is where they say at every label, also in an exit under memory pressure and on every error path of a load (`TableInv`, `ContentInv`); no panic; paging implements `AddressSpace` (`PagingTransparent`), so that a store survives any number of evictions when no thread runs in between; a process that has exited has no page left, also of those that were evicted (`DeadOwnNothing`) |
| `vm_live` | 2 processes, pages FILE and ZERO of one and FILE of the other, 2 frames, reads into the zero page, exit | both processes fault, evict, read and exit, and contend for both locks: the hand stays valid while an exit takes entries out of the table; every fault is served; `process_exit` ends |
| `vm_lost_store` | 2 processes, pages FILE, FILE and ZERO, 2 frames, stores | violation, see below |
| `vm_stack_pinned` | a stack page among 3 pages | violation, see below |
| `vm_unmap_race` | munmap under pressure | violation, see below |
| `alarm` | boot, idle thread and three program threads, two priorities, spans -1 and 2, two ticks | types; no ASSERT fails; a thread is in the queue its status says; the highest priority runs next; `timer_sleep` implements `AlarmClock`; sleepers wake; threads of one priority take turns |
| `alarm_no_preemption` | boot, idle thread and two program threads | violation, see below |
| `synch` | initial and idle thread, two created ones; one lock and `tid_lock`, a semaphore, a condition variable | types; a thread's `elem` is in the queue its status says; no ASSERT fails and lock lists are right up to a failed `lock_try_acquire`; `all_list` is right unless its operations overlap; no wake-up is lost; locks implement `Mutex`; a semaphore that is raised while threads wait is taken |
| `process` | initial thread, two user processes with two descriptors each (the executable and one more), three pages | execute and wait implement `Family` (exit codes arrive, once), records are used only while they live, pages and files come back, also after a failed load, no call blocks for ever unless others take `file_lock` for ever |
| `process_orphans` | the same | violation, see below |
| `loader` | both loaders; 3,240 single headers, 676 pairs, no header; six command lines; 80 bytes of user space in pages of 16 | memory and stack of a started program equal a reference; nothing is left behind |

**Bounds.** Eviction needs fewer frames than pages; two frames let one page be in
use while the other is replaced, and with two processes both orders of owner and
evictor occur. In `vm_live` one
process waits for `frame_tbl_lock` while the other evicts, adds or exits; that two
evictions are exclusive from the choice of the victim on, for any number of
processes, is the theorem `EvictionExclusive`. The kernel may panic in `vm_live`, by
the race of `vm_unmap_race` in an exit, which `FaultServed` and `ExitCompletes`
allow, hence `CHECK_DEADLOCK FALSE`.
Two slots in `vm_pressure` and `vm_solo` let both pages that can be swapped out be
in swap. One stored version is enough, because a stale page shows version 0.
`vm_solo` has one process on purpose: with two, teardown meets the
race that `vm_unmap_race` shows, after which nothing else holds. That the same
invariants hold for any number of processes with a frame for every page is proved
(`TablesAgree`, `ContentsInductive`, `KernelNeverPanics`). No run counts
anything that would need a cap. Frames and slots are symmetric where only safety
is checked.

In `alarm`, span -1 gives a sleeper whose tick has passed, also when the interrupt
falls between `timer_ticks` and `intr_disable`; three sleepers make insertions at
the front, in the middle and at the end. Programs do not start to sleep at
`MaxTick` or later, and ticks go on while anyone sleeps, so no behaviour is cut
off with a sleeper in `wait_list`. When all is asleep or gone at `MaxTick` the
model stops, hence `CHECK_DEADLOCK FALSE`.

In `synch`, four pages for threads make creation, reuse of a dead thread's page,
and all three overlaps of creation with exit happen; two creations at once need a
fifth page, which is past 3,000,000 states. `MaxTid` and `MaxValue` cap what would
grow without end. In `process`, pids 2 and 3 are siblings, or parent and child;
three pages are one less than two processes with their argument pages take, so that
both allocations of `process_execute` fail somewhere; `MaxFd` is 3, the executable
has descriptor 2; `lost` cannot exceed the pool. In `loader`, 128
addresses make every sum wrap that can; offsets, addresses and sizes lie at and
next to a page end, page 0, the end of the file, the stack page, `PHYS_BASE` and
the end of the address space; pairs of segments overlap, touch and leave gaps;
two command lines fill the stack page exactly and by one word too much. Where a
run says `CHECK_DEADLOCK FALSE` the system really stops: all threads gone,
kernel panic, `load` at its end.

**Fairness, virtual memory.** `FairSpec` is weak fairness of each thread's kernel steps:
`thread_tick` preempts after a time slice and `thread_yield` appends to the
`ready_list`, so a thread that can run is run. Programs are under no fairness.
Locks are not fair: `lock_release` wakes a waiter, but another thread may acquire
the lock before it runs. Hence the escape clauses in `FaultServed` (another
program runs for ever) and `ExitCompletes` (`file_lock` is free again and again, and
again and again somebody else's). A lock that is never given back is no excuse:
the mutant that keeps it is found. Both processes of `vm_live`
take `frame_tbl_lock` and `file_lock`; the waits for `frame_tbl_lock` are under no
escape clause, since evictions by others come to an end.

**Fairness, alarm clock.** The CPU executes kernel code when there is some (weak),
and a timer interrupt that arrives while interrupts are off stays pending
(strong). `CooperativeSpec` adds that every program sooner or later yields,
sleeps or exits, which the code needs and does not enforce: `SleepersWake` and
`ReadyRuns` are checked under it, and `alarm_no_preemption` shows `ReadyRuns` to
fail without it. `ReadyRuns` excuses a thread while one of higher priority can
run: priorities starve by design.

**Fairness, synchronisation.** The CPU executes kernel code when there is some
(weak) and time slices end (strong, since interrupts are off at times);
programs call what they like or nothing. `WaitersGetIn` therefore asks no more
than that a semaphore which is positive while threads wait for it is taken by
somebody: a certain waiter may starve, as others can take it again and again.

**Fairness, processes.** Weak fairness of each process's kernel steps and of getting
`file_lock`. It is not strong: `sema_up` wakes the first waiter, but that one tests
the value again, and goes to the back of the waiters if another thread has taken
the lock meanwhile (`synch.c:68-75`). So `CallsReturn` excuses a wait for
`file_lock` while others take it and give it back for ever, and no other wait for
it: a process killed in a file call must not keep it. Programs are under no
fairness, which excuses a wait for a child whose program runs on.

**Findings** (each a violation run, quoted in `PROJECT.json`):

1. `vm_lost_store`. The owner stores into a page between `evict_frame`'s dirty
   test and `pagedir_clear_page`; the store is lost. `pinned` does not protect a
   page that only its program uses.
2. `vm_stack_pinned`. `stack_growth` unpins only in an interrupt context and
   `page_fault` does not unpin afterwards, so stack pages stay pinned. If the
   frame table holds nothing else, `evict_frame` spins holding `frame_tbl_lock`,
   which the thread with the other frame needs to enter it.
3. `vm_unmap_race`. `process_remove_mmap` tests `is_loaded` and evaluates
   `pagedir_get_page` before `free_frame` takes the lock. If the page is evicted
   and its frame reused in between, `free_frame` frees a page that another
   process is using.
4. `alarm_no_preemption`. `thread_start` is said to start preemptive scheduling
   with a time slice, but the preemption in `thread_tick` is commented out: a
   thread that only computes keeps all others, also those of higher priority,
   off the CPU.

5. `process_orphans`. The loop of `process_exit` over the children starts at the
   list's tail, which it takes for a process: instead of telling them that they
   are orphans it stops the kernel.

The same race as in 3 exists in `page_function` at exit, where `evict_frame` can
also reach an entry that was freed under it (`NoPanic` then fails).

Two more defects lie outside the runs. `page_function` looks only at pages that are
loaded (`page.c:70`), so that the swap slots of a process that exits stay marked for
ever. And `process_remove_mmap` writes a mapping from the user's page while it holds
`file_lock`: if an eviction had chosen the page before it was pinned, the write
faults, and with one frame the fault waits in `evict_frame` for the frame of a load
that waits for `file_lock`. TLC finds this cycle as a violation of `ExitCompletes` in
the instance of `vm_live` with the pages a2 and b1, the frame f1, no buffers, and
the calls store, munmap and exit.

## 4. What is proved

### Virtual memory

For any sets of processes, pages, frames and slots that satisfy `VMConstants`
(among which: no page is twice in the region a process maps) and
`ProgramAssumption`, and any behaviour of the programs:

* `TypeCorrect`: `Spec => []TypeOK`.
* `FramesPartitioned`: `Spec => [](NobodyDead => FramePartition)`: until the first
  page directory is destroyed, every frame is in exactly one of the pool, one
  entry of the table, or the hands of one thread, also under the races above:
  they hand a frame to the wrong page but never lose or duplicate one.
  `pagedir_destroy` frees whatever is still mapped, which a racing eviction may
  have given away, hence the condition.
* `HandStaysValid`: `Spec => []HandInv`: `evict_frame`'s list position never
  dangles, and stays at its victim until `list_remove`.
* `EvictionExclusive`: at most one thread is inside `evict_frame`.

The run `vm_unmap_race` shows that the tables do not agree once an eviction
overlaps a teardown. `Apart` says that none does: no process is between
`NextMapping` or `NextEntry` and `DropEntry` while another is inside
`evict_frame`. What the code needs beyond the locks it takes is exactly this,
and a repair that holds `frame_tbl_lock` in the teardown would give it. Proved
under `[]Apart`:

* `TablesHold`: `Spec /\ []Apart => []TableInv`: page directory, supplemental table and
  frame table agree at every label, as the argument below describes.
* `MappingsTabled`, `LoadedMapped`, `AllFramesAccounted`, `ExitFreesAll`:
  `Spec /\ []Apart => []` of `MappingsAreTabled`, `LoadedIsMapped`,
  `FramePartition` (now to the end of every process) and `DeadOwnNothing`, which
  is about pages, entries and frames, not about swap slots.
* `NoForeignPages`: `Spec /\ []Apart => []NoForeignData`, for pages of executables and
  mapped files: a new stack page does show what its frame held before.
* `SlotsHeld` (also under `[]Apart`): the slot of a page swapped out is marked and is no other page's.

The hypothesis is satisfied by whole classes of systems (`ApartRegimes`), and
`TablesAgree` states the result for them without it:

| Regime | Meaning |
|---|---|
| `Calm` | no program unmaps, exits or is cut short by a bad read: memory pressure without teardown, any number of processes |
| `Roomy` | at least as many frames as pages: all calls, any number of processes |
| `Alone` | one process: all calls, under any pressure |

In these regimes five more properties hold, each where the runs say it can:

* `PinnedPagesStay` (`Calm`): `Spec => PinnedStaysMapped`, an action property: however
  many processes evict, none takes a page that `load_page` or `stack_growth` has
  pinned. The pin of `process_remove_mmap` does not work like this: a victim may
  have been chosen before it.
* `NoSlotLost` (`Calm` or `Roomy`): `Spec => []SwapSlotsOwned`. An exit leaves the
  slots of the pages it swapped out marked.
* `StoresKept` (`Roomy` or `Alone`): `Spec => []StoresSurvive`. `vm_lost_store` is
  the counterexample for two processes under pressure.
* `PagingRefinesSpace` (`Roomy` or `Alone`): `Spec => PagingTransparent`: the whole of
  virtual memory implements `AddressSpace`, where a page simply holds what was last
  stored in it, files keep what is stored in their mappings after `munmap`, exit or
  a killing, and there are no frames, slots or tables. `vm_lost_store` shows that
  it fails as soon as another thread evicts.
* `KernelNeverPanics` (`Provided`): `Spec => []NoPanic`: `evict_frame` never starts
  from an empty table, no thread takes `file_lock` twice, no freed entry is used,
  `swap_in` finds its slot in use and `swap_out` finds a free one, and no fault in
  kernel mode stays unresolved. `Provided` is `Roomy`, or: as many frames as
  processes, a slot for each page that can go to swap, and either one process or
  `Calm` programs that pass no buffers to `read` and `write`. None of the three
  can be dropped: with one frame for two processes, one slot for two such
  pages, or buffers, TLC finds a panic in the instance of `vm_pressure` (an empty
  table whose frames are all in the hands of loading threads; swap full;
  `load_file` under `file_lock`).

**Argument.** `TypeOK` is not inductive: `AddFrame` builds an entry from locals,
and the eviction steps use `fte` and `hand`. `IInv` adds `LockInv` (the holder of
`frame_tbl_lock` is exactly the thread at an eviction label), `HandInv`,
`LocalsInv` (what each label says about the locals) and the partition.
`VMProofs` proves `TypeOK'` with one step per action and one sub-step per variable
changed, then shows that a step of one thread leaves the others
where they are (`OthersKept`), and treats each part for the moving thread;
`LockInv` gives that the table does not change under another thread's hand
(`TableMove`). For the partition every action is classified as one of six moves
of a frame (`FrameMove`) and each move is shown to keep it (`PartitionStep`).

*Tables.* `MappingsAreTabled` says nothing of a page that is being loaded or taken
down, which is where it could break. `TableInv` has two halves. `ThreadInv` says
for every label what the thread relies on: its page is its own (`CurOf`), not yet
mapped and pinned while a load lasts (`LoadOf`), the frame it has entered is still
tabled for it (`HeldOf`), the victim of an eviction is mapped, unpinned and in
the frame `fte` says (`VictimOf`), a page being taken down is loaded and mapped
as long as the code assumes it (`TakeOf`). `PageInv` says for every page and every
entry how page directory, `is_loaded`, type and frame table go together, with the
labels at which they may differ. The step of one thread disturbs the other
threads' half only through an eviction, and the pin keeps its victim away from
every page that is being loaded (`VictimApart`, `OtherThreads`). `Apart` is used
where the pin is not looked at: a victim already chosen when `process_remove_mmap`
pins it, and `page_function`, which does not pin. With this the frame partition
also survives `PagedirDestroy`, which finds nothing left (`NothingLeft`).
`Regime` is inductive with it: for `Calm` a program that touches only its own
pages is never killed (`CalmStep`), for `Roomy` the pages other than the faulting
one cannot fill all frames, by the pigeonhole principle (`FrameLeft`), so the
pool is not empty and nothing is evicted.

*Data.* A claim on a frame (`ClaimOf`) is a page that is mapped to it or being
loaded into it; `OneClaim` shows from the tables that a frame has at most one.
`ContentInv` says what is where: a page in use has its own data in its frame
(`MemOf`), a page swapped out in its slot (`SlotOf`), files hold only their own
pages (`FileOf`), a file page that is clean or not in memory is up to date in the
file (`CleanOf`), what a load has done to its frame so far (`FilledOf`), and, where
no other thread evicts, that the file has the last version of every mapped page
that is in nobody's address space (`KeptOf`): this is what `process_remove_mmap`,
`page_function` and a killed program must leave behind.
"Its own data" is `Right`: where another thread may evict, any of its versions;
where none does (`Faithful`), the last one stored. Each step writes to one frame,
slot or file page (`MemMoves`, `SlotMoves`, `FileMoves`), and `OneClaim` shows
that no other page's data is there.

*Address space.* Under the refinement mapping a page is `known` while it is in the
supplemental table and its teardown has not begun (`KnownPages`), and its contents
are where the tables say: the frame, the slot or the file (`Image`). In the model
`want` is the history of what was stored; by `ContentInv` it is the image of every
page (`ImageIsWant`), so that the steps that move data, which leave `want` alone,
are stutters. What is left is a store (`StoreRefines`), `mmap` (`MmapRefines`),
stack growth, where nothing is promised of the new page (`GrowRefines`), and the
first step of taking a page down (`LeaveRefines`). `KnownMove` says which
steps add or remove known pages.

*Panics.* Each cause is excluded by a part of the invariants: `VictimOf` for the
freed entry, `SlotOf` for the free slot, `LoadedOf` for a fault on a loaded page.
`CauseInv` adds the rest: `LockedOf`, that a thread under `file_lock` has its page
mapped and so does not fault, and `PoolInv`, that from the moment a thread finds
the pool empty until its eviction ends nobody else frees a page, so that at
`EvictFrame` all frames are tabled or in the hands of other threads, of which
there are too few (`TableFilled`). Swap is not full at `SwapOut` because every
marked slot belongs to a page that is swapped out, and the victim is not
(`SlotLeft`).

### Alarm clock

For any threads, priorities and spans that satisfy `ThreadConstants` and
`TimerConstants`, any `MaxTick`, and any behaviour of the programs:

* `AlarmTypeCorrect`, `AssertsHold`, `QueuesCorrect`: `Spec => []` of
  `AlarmTypeOK`, `NoAssertFails`, `QueuesMatchStatus`.
* `HighestFirst`: `Spec => HighestRunsNext`, an action property.
* `AlarmImplementsClock`: `Spec => AlarmClockSpec`: with `wait_list` read as a set
  of alarms, every step is a step of `AlarmClock` or a stutter.

**Argument.** `QueuesMatchStatus` is not inductive: whether an interrupt can see a
thread that is queued and still running depends on the interrupt level, so
`AlarmInv` adds `CpuInv` (one running thread, and the level each label implies),
`BlockedInv` (who may be blocked outside `wait_list`), `BootInv` (before the idle
thread has started it is in `ready_list` whenever `schedule` needs it), the order
of both lists and `DueInv` (the local of `timer_sleep` is a past tick plus a
span). `AlarmProofs` shows first that an ordered insertion and a removal from the
front keep any relation between earlier and later elements (`InsertPairwise`,
`TailPairwise`); with "another thread and no lower priority" and "another thread
and no later tick" as the relations this gives distinctness and order together.
It then has a lemma per action with a step per part of the invariant. The
refinement needs the order where `timer_interrupt` stops: if the first sleeper
is not due, none is (`NobodyDue`).

### Synchronisation

For any threads, locks, semaphores, condition variables, `Guard`, `MaxTid`,
`MaxValue` and any calls of the clients that satisfy `ThreadConstants`,
`SynchConstants`, `NodesApart` and `ThreadBounds`:

* `LocksImplementMutex`: `Spec => LocksAreMutexes`: every lock is a `Mutex`, also
  when a failed `lock_try_acquire` has put it into a second `lock_list`, and
  whatever `release_locks` finds there.
* `OneQueue`: `Spec => []ElemExclusive`.
* `WakeUpsKept`: `Spec => []NoLostWakeup`.
* `LockListsRight`, `LivingListed`: `Spec => []` of `LockListRight`, `AllListed`.
* `AssertionsHold`: `Spec => []NoAssertFails`.
* `ThreadTypesKept`: `Spec => []ThreadsTypeOK`.

`NodesApart` says that a pointer is to one object: sentinels, threads, locks and
NULL are all different, and there are finitely many locks.

**Argument.** What a thread has still to do is a sequence, so `PairsInv` says of
every `todo[t]` that a `down` of a lock is followed by its `own` and a `disown` by
its `up`. A thread with such an `own` or `up` in front is `Between` free and held:
`MutexInv` has at most one of them for a lock, none while the lock has a holder,
and neither holder nor such a thread while the semaphore is 1. It holds until an
assertion has failed, after which nothing moves. `QueueInv` ties `status`,
`ready_list`, `waiters` and `todo` together: who is in a queue is in it once and
with that status (`ReadyOK`, `WaitOK`), a blocked thread is idle, not yet unblocked
or in one semaphore (`BlockedOK`, `UnbornOK`), and the idle thread does its few
steps (`IdleOK`). An operation changes these one after another (wake a waiter,
block, switch), so `QueueOK` takes statuses, queues and steps as arguments, and
each stage has its lemma (`UpOK`, `SleepOK`, `LeaveOK`, `Dispatch`). For wake-ups
`WakeInv` follows the set of threads that are awake: `KeepAwake` for a step after
which it is no smaller, `DownWake` where the value and the set lose one, `UpWake`
where both gain one.

The properties of the lists walk along pointers, which says nothing a step could
preserve: a store may disturb any list. `ListInv` therefore says of a list that
there is a sequence which it holds (`Chained`), and each operation of
`KernelList` gets a lemma on sequences: what it does to its own list (`ChainPush`,
`ChainRemove`), and that it does nothing to nodes elsewhere (`ChainFrame`,
`RemoveClosed`, `PushClosed`). That lists do not share nodes is again a part of the
invariant: `lock_list`s by `LockListsOK`, since a lock has one holder, and the
nodes of `all_list` by `PtrOK`, since no pointer leads from them to the others or
back; the second holds also when a misfiled lock or an overlap has broken the
chains. `thread_create` puts its thread into `all_list` store by store, so `AllOK`
speaks of the pointers as they will be when the push that has begun has ended
(`EndsAs`). `TodoShape` has the steps that a push and a release still need: a
`link` is followed by its `close`, and a `disown` is of a lock held or acquired
before, which is why the assertion in `lock_release` holds. `release_locks` releases what a walk
finds: by `ReleasesAll` those are the thread's locks and no others, by
`ReleasedLinks` they leave the list one after another. `SomeReady` and
`AliveSwitch` are for the assertion in `schedule`: there is a thread to switch to
also before the idle thread has run.

A walk (`WalkIs`) and the fold of `list_remove` (`FoldReaches`) are recursive
functions over numbers. The induction they need is taken from the theorems on
well-founded relations: `Least` gives a set of naturals its least member, and
`UpTo` follows from it for a set instead of a predicate, so that nothing has an
operator as parameter.

### Processes

For any `MaxPid`, `MaxFd`, `Pool` and `Codes` that satisfy `ProcessConstants`:

* `ExitCodesOnce`, `RecordsInUse`, `ProcessesLoseNothing`: `Spec => []` of
  `ExitCodeOnce`, `RecordInUse`, `NothingLost`.
* `ProcessesKeepContract`: `Spec => FamilyContract`: every step is a step of `Family`
  or a stutter. `process_execute` returns when the child's load is over, and returns
  no child exactly if that load failed; `process_wait` returns when the child has
  ended, with the code it ended with; a pid is never used again.
* `ProcessTypes`: every variable keeps its type.

**Argument.** The one semaphore of a record tells of two events, so `SemaInv`
counts: its value is what has been raised at load and at exit, less what the
parent has taken, by the labels of child and parent. `FamilyInv` has each child
in one list, `LivesInv` ties `state` to the labels, `CodeInv` follows the exit code from
`process_exit` through the record to `process_wait`, `WaitsInv` says what a
waiting parent's locals are, `HeldInv` who has files and `file_lock`. `NothingLost`
is a sum over processes: the lemmas on cardinalities show that each step moves
one page at most.

The parent sees of its child the label of the thread as long as it loads, and then
the status in the record (`Stage`). Since a status is only read after a semaphore
that is raised twice, the refinement needs the counts of `SemaInv`, and `KinInv`:
a process is DEAD or FAIL when it raises the semaphore for the last time, and not
DEAD before. So `sema_down` in `process_execute` returns after the load
(`AwaitSeen`), and the one in `process_wait`, which cannot meet FAIL, after the end
(`ReapSeen`). All other steps are `Execute`, `Load`, `Wait`, `End` or unseen.

### Loader

For any page size, word size, address space, file, pool, executables and command
lines that satisfy `LoaderConstants` and `LoaderInputs`:

* `SegmentsAreLoaded`: `Spec => []MemoryRight`, in particular that no header
  which `validate_segment` accepts wraps around (`NoWrap`).
* `LoadLeavesNothing`: `Spec => []NothingLeft`.
* `StackIsBuilt`: `Spec => []StackRight`, for any arguments that fit the page, and
  both orders in which the two variants push them.
* `LoaderTypes`: every variable keeps its type.

**Argument.** `MemoryRight` says nothing while a segment is being loaded. `LoaderInv`
adds how far `load_segment` has come: `CurrentInv` has a distance d, a multiple of
the page size, such that the pages below d are right (`Filled`) and the locals
are the ones of d (`SegAt`); `AdvanceOnePage` shows that the separate counts of
read and zero bytes agree with d + PGSIZE, and `EndReached` that both are zero
only at the end. `SegsInv` has all earlier segments, whose pages later ones do not
touch since a page is mapped once. `OwnersInv` has a segment for each page and
`CountInv` the pages of the pool. A first group of lemmas is on multiples of the
page size.

The stack has an invariant of its own, `StackInv`: the addresses in `argv` lead to
strings that lie above `esp` (`StringsInv`), and later the vector of these
addresses lies at `esp` (`VectorAt`), with argc below the pointer to it at the end.
`WordsPushed` says which words a push of several leaves where; `WordStays`,
`StringsStay` and `VectorStays` say that a push changes nothing above `esp`.

**Only model-checked:** liveness, which is under fairness and out of the prover's
reach. Every safety invariant and every refinement of the runs that pass is the
statement of a theorem; those of virtual memory that need `Apart` or a regime say so
in the theorem.

## 5. Plan

1. Done: the virtual memory core, its runs and its first theorems.
2. Done: `ReadyList` and `Alarm`, the refinement to `AlarmClock`, and the proofs
   of their safety.
3. Done: `KernelList`, `Scheduler`, `Synch` and `Threads`, the refinement of
   `Mutex`, and the proofs of mutual exclusion, queues, wake-ups, lists and
   assertions.
4. Done: `Process`, which also has the file calls and `file_lock`, its proofs, and
   the refinement to `Family`.
5. Done: `Loader` against reference definitions, and its proofs.
6. Pure functions: `real_time_sleep`, `timer_calibrate`.
7. Done: the tables, contents, swap slots and panics of virtual memory proved in
   `VMTables` and `VMContents`, and the refinement to `AddressSpace`.
8. Runs: memory pressure together with exit beyond the race of `vm_unmap_race`,
   which needs the race repaired first.
