--------------------------- MODULE VirtualMemory ----------------------------
(***************************************************************************)
(* The virtual memory system as a whole: every process's thread takes      *)
(* steps of the three modules below it, until the kernel panics.           *)
(***************************************************************************)
EXTENDS Teardown

CONSTANTS
  Calls,    \* what programs, disk and memory do besides reads and mmap
  Buffers   \* pages they pass to read and write

ASSUME ProgramAssumption ==
  /\ Calls \subseteq {"store", "munmap", "exit", "short_read", "no_memory"}
  /\ Buffers \subseteq Page

\* A program that never faults fatally only touches pages it owns and knows.
Known(pg) == pg \in spt \/ Kind[pg] = "STACK"

Program(p) ==
  \/ \E pg \in PagesOf(p) : UserAccess(p, pg, FALSE)
  \/ \E pg \in PagesOf(p) : "store" \in Calls /\ UserAccess(p, pg, TRUE)
  \/ \E pg \in PagesOf(p) : (Known(pg) \/ "exit" \in Calls) /\ UserFault(p, pg)
  \/ \E pg \in PagesOf(p) \cap Buffers : (Mapped(pg) \/ "exit" \in Calls) /\ SysIO(p, pg)
  \/ Mmap(p)
  \/ "munmap" \in Calls /\ Munmap(p)
  \/ "exit" \in Calls /\ Exit(p)

Kernel(p) ==
  \/ FrameStep(p)
  \/ PageStep(p)
  \/ ReadFile(p, FALSE)
  \/ "short_read" \in Calls /\ ReadFile(p, TRUE)
  \/ "no_memory" \in Calls /\ InstallFails(p)
  \/ TeardownStep(p)
  \/ \E write \in BOOLEAN : SysCopy(p, write)

Terminated == (\A p \in Proc : pc[p] = "dead") /\ UNCHANGED vars

Next ==
  /\ panic = "none"
  /\ (\E p \in Proc : Program(p) \/ Kernel(p)) \/ Terminated

Spec == Init /\ [][Next]_vars

\* Threads are time-sliced round robin (thread_tick of threads/thread.c), so a
\* thread that can take a kernel step is run; nothing makes a program act.
FairSpec == Spec /\ \A p \in Proc : WF_vars(panic = "none" /\ Kernel(p))

-----------------------------------------------------------------------------
TypeOK ==
  /\ pc \in [Proc -> Labels]
  /\ mode \in [Proc -> Modes]
  /\ cur \in [Proc -> Page \cup {None}]
  /\ frame \in [Proc -> Frame \cup {None}]
  /\ hand \in [Proc -> Nat]
  /\ fte \in [Proc -> Entry \cup {None}]
  /\ frame_tbl_list \in Seq(Entry)
  /\ frame_tbl_lock \in Proc \cup {None}
  /\ file_lock \in Proc \cup {None}
  /\ user_pool \subseteq Frame
  /\ pagedir \in [Page -> Pte]
  /\ spte \in [Page -> Spte]
  /\ spt \subseteq Page
  /\ mmap_list \in [Proc -> Seq(Page)]
  /\ swap_map \subseteq Slot
  /\ mem \in [Frame -> Data]
  /\ disk \in [Slot -> Data]
  /\ file \in [Page -> Data]
  /\ want \in [Page -> Data]

\* The frame a thread has in its hands: taken from the pool and not yet in the
\* table, or out of the table and not yet back in the pool.
InHand(p) == IF pc[p] = "add" THEN frame[p]
             ELSE IF pc[p] \in {"clear", "release"} THEN fte[p].frame ELSE None

TabledFrames == {frame_tbl_list[i].frame : i \in DOMAIN frame_tbl_list}
HeldFrames   == {InHand(p) : p \in Proc} \ {None}

\* Every frame of the user pool is in exactly one place: free, in one entry of
\* the frame table, or in the hands of one thread.  No interleaving of
\* frame_alloc, evict_frame and free_frame loses a frame or lists it twice.
FramePartition ==
  /\ user_pool \cup TabledFrames \cup HeldFrames = Frame
  /\ user_pool \cap TabledFrames = {}
  /\ user_pool \cap HeldFrames = {}
  /\ TabledFrames \cap HeldFrames = {}
  /\ \A i, j \in DOMAIN frame_tbl_list :
       frame_tbl_list[i].frame = frame_tbl_list[j].frame => i = j
  /\ \A p, q \in Proc : InHand(p) # None /\ InHand(p) = InHand(q) => p = q

\* evict_frame walks the list with a bare list_elem and removes the victim
\* through it: the hand always points into the table, and from the choice of the
\* victim to its list_remove it points at the victim's entry, because nobody else
\* changes the table meanwhile.
Chosen == {"test", "write_back", "swap_out", "unload"}
HandOf(p) ==
  /\ panic = "none" /\ pc[p] = "scan" => hand[p] \in 1..Len(frame_tbl_list)
  /\ pc[p] \in Chosen => /\ hand[p] \in 1..Len(frame_tbl_list)
                         /\ fte[p] = frame_tbl_list[hand[p]]
HandInv == \A p \in Proc : HandOf(p)

\* A mapping its owner still uses.  In the teardown free_frame comes before
\* pagedir_clear_page, so for that moment the owner maps a frame it gave up.
InUse(pg) ==
  Mapped(pg) /\ ~(cur[Owner[pg]] = pg /\ pc[Owner[pg]] = "clear_page")

\* A page in use is the page the frame table records for its frame,
\* or is on its way out in the hands of an evicting thread.  So no frame is in
\* use for two pages, and no program reaches a frame that was given away.
MappingsAreTabled ==
  \A pg \in Page : InUse(pg) =>
    LET e == [frame |-> pagedir[pg].frame, spte |-> pg]
    IN \/ e \in ToSet(frame_tbl_list)
       \/ \E p \in Proc : pc[p] = "clear" /\ fte[p] = e

\* is_loaded means mapped, once stack_growth has installed its page and until
\* its owner takes it down.  Hence page_fault never finds is_loaded set, which
\* would kill a process whose access was legal.
LoadedIsMapped ==
  \A pg \in spt : spte[pg].is_loaded =>
    Mapped(pg) \/ (cur[Owner[pg]] = pg /\ pc[Owner[pg]] = "drop")

\* The slots marked in use are exactly those that hold a page swapped out, and
\* no two pages share one: swap_in never meets a free slot, nor another's data.
SwappedOut(pg) ==
  /\ pg \in spt /\ spte[pg].type = "SWAP"
  /\ \/ ~spte[pg].is_loaded
     \/ \E p \in Proc : pc[p] = "unload" /\ fte[p].spte = pg

SwapSlotsOwned ==
  /\ swap_map = {spte[pg].swap_index : pg \in {q \in Page : SwappedOut(q)}}
  /\ \A pg, q \in Page : SwappedOut(pg) /\ SwappedOut(q)
                         /\ spte[pg].swap_index = spte[q].swap_index => pg = q

\* A loaded executable or mapped page holds its own data or what its program
\* stored in it, never the remains of the page that had the frame before.
NoForeignData ==
  \A pg \in spt : spte[pg].is_loaded /\ InUse(pg) /\ Kind[pg] # "STACK" =>
    mem[pagedir[pg].frame] \in
      {IF Kind[pg] = "ZERO" THEN Zeros ELSE Text(pg), Stored(pg)}

\* The kernel neither asserts nor panics: lock_acquire is not called by the
\* holder, no freed or wild entry is used, swap never runs out, and no fault in
\* kernel mode stays unresolved.
NoPanic == panic = "none"

\* What a program stored in a page is what it finds there, however often the
\* page was evicted in between.
StoresSurvive ==
  \A pg \in spt : spte[pg].is_loaded /\ InUse(pg) /\ ~spte[pg].pinned =>
    mem[pagedir[pg].frame] = want[pg]

\* A process that has exited has no page left: none is mapped, none has an
\* entry, and no frame is listed for one, also when an eviction has taken
\* some of its pages away.  Not so its swap slots: page_function does not look at
\* a page that is not loaded, and the slots of such pages stay in use.
DeadOwnNothing ==
  \A pg \in Page : pc[Owner[pg]] = "dead" =>
    /\ ~Mapped(pg) /\ pg \notin spt
    /\ \A i \in DOMAIN frame_tbl_list : frame_tbl_list[i].spte # pg

\* A page fault is served or ends the process, or the kernel panics, whatever state
\* of the frame table it starts from, unless another program keeps running for
\* ever: the hand of evict_frame then need not find a page whose accessed bit stays
\* clear, and no lock is fair.
FaultServed ==
  \A p \in Proc :
    \/ pc[p] = "fault" ~> pc[p] \in {"user", "copy", "mm_write", "exit"} \/ panic # "none"
    \/ []<><<\E q \in Proc \ {p} : Program(q)>>_vars

\* process_exit runs to its end, or the kernel panics, unless other processes take
\* file_lock again and again: it is then free again and again, but never for
\* the one that exits.  A lock that is kept for ever is no excuse.
ExitCompletes ==
  \A p \in Proc :
    \/ pc[p] = "exit" ~> pc[p] = "dead" \/ panic # "none"
    \/ []<>(file_lock = None) /\ []<>(file_lock \notin {p, None})

\* Only the owner unmaps a pinned page.
PinnedStaysMapped ==
  [][\A pg \in Page : spte[pg].pinned /\ Mapped(pg) /\ pagedir'[pg].frame = None
        => pc[Owner[pg]] \in {"clear_page", "pagedir"}]_vars
-----------------------------------------------------------------------------
(***************************************************************************)
(* The strengthening that makes TypeOK and FramePartition inductive: what  *)
(* each label of a thread says about its locals and about frame_tbl_lock.  *)
(***************************************************************************)
Evicting == {"scan", "test", "write_back", "swap_out", "unload", "clear", "release",
             "repalloc"}
Unmapping == {"next", "check", "mm_lock", "mm_write", "get_page", "free_frame", "clear_page",
              "drop"}
Idle     == {"user", "exit", "next", "pagedir", "dead"}

\* frame_tbl_lock is held by the thread inside evict_frame, and by no other.
LockInv == \A p \in Proc : frame_tbl_lock = p <=> pc[p] \in Evicting

\* The locals a thread is about to use have been set.
LocalsOf(p) ==
  /\ pc[p] \notin Idle => cur[p] \in Page
  /\ pc[p] \in {"add", "read_file", "install"} => frame[p] \in Frame
  /\ pc[p] \in {"clear", "release"} => fte[p] \in Entry
  /\ pc[p] \in Unmapping => mode[p] \in {"munmap", "exit", "destroy"}
  /\ mode[p] \in {"munmap", "exit"} /\ pc[p] # "next" => mmap_list[p] # <<>>
LocalsInv == \A p \in Proc : LocalsOf(p)

\* Once a page directory has been destroyed the partition may fail: see
\* PagedirDestroy, which frees what a racing eviction may have given away.
NobodyDead == \A p \in Proc : pc[p] # "dead"

IInv == TypeOK /\ LockInv /\ HandInv /\ LocalsInv /\ (NobodyDead => FramePartition)
=============================================================================
