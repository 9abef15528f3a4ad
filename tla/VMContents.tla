----------------------------- MODULE VMContents -----------------------------
(***************************************************************************)
(* The data of every page is where its tables say: in its frame, in its    *)
(* slot or in its file.  And the kernel does not panic.  For any number of *)
(* processes, pages, frames and slots, with what VMTables proves of the    *)
(* tables.                                                                 *)
(*                                                                         *)
(* The order: what a step can do to each variable that holds data; which   *)
(* frame is whose; how a page comes to be in use or swapped out; a step    *)
(* keeps each conjunct of ContentInv; the theorems about data; a step      *)
(* keeps CauseInv; the theorem about panics.                               *)
(***************************************************************************)
EXTENDS VMTables

\* Who writes what: of all actions, only those named.
LEMMA Writers ==
  ASSUME NEW p \in Proc, Program(p) \/ Kernel(p)
  PROVE  /\ mem' = mem \/ FrameAlloc(p) \/ Repalloc(p)
              \/ (\E short \in BOOLEAN : ReadFile(p, short)) \/ SwapIn(p)
              \/ (\E write \in BOOLEAN : SysCopy(p, write))
              \/ (\E pg \in PagesOf(p) : \E write \in BOOLEAN : UserAccess(p, pg, write))
         /\ (disk' = disk /\ swap_map' = swap_map) \/ SwapOut(p) \/ SwapIn(p)
         /\ file' = file \/ WriteBack(p) \/ MmWrite(p)
         /\ want' = want \/ (\E write \in BOOLEAN : SysCopy(p, write))
              \/ (\E pg \in PagesOf(p) : \E write \in BOOLEAN : UserAccess(p, pg, write))
              \/ InstallPage(p) \/ Mmap(p)
         /\ spt' = spt \/ InstallPage(p) \/ Mmap(p) \/ DropEntry(p)
         /\ spte' = spte \/ LoadPage(p) \/ StackGrowth(p) \/ SwapOut(p) \/ Unload(p)
              \/ InstallPage(p) \/ SwapIn(p) \/ Unpin(p) \/ Undo(p) \/ Mmap(p)
              \/ NextMapping(p)
         /\ pagedir' = pagedir \/ ScanEntry(p) \/ ClearPage(p)
              \/ (\E pg \in PagesOf(p) : \E write \in BOOLEAN : UserAccess(p, pg, write))
              \/ InstallPage(p) \/ SwapIn(p) \/ (\E write \in BOOLEAN : SysCopy(p, write))
              \/ MmWrite(p) \/ UnmapPage(p) \/ PagedirDestroy(p)
<1>1. mem' = mem \/ FrameAlloc(p) \/ Repalloc(p)
       \/ (\E short \in BOOLEAN : ReadFile(p, short)) \/ SwapIn(p)
       \/ (\E write \in BOOLEAN : SysCopy(p, write))
       \/ (\E pg \in PagesOf(p) : \E write \in BOOLEAN : UserAccess(p, pg, write))
  BY DEF Program, Kernel, FrameStep, PageStep, TeardownStep, contents, FrameAllocFails,
    EvictFrame, ScanEntry, TestVictim, WriteBack, SwapOut, Unload, ClearPage, ReleaseFrame,
    AddFrame, LoadPage, StackGrowth, BadAddress, InstallPage, InstallFails, Unpin, Undo, SysLock,
    KernelFault, ProcessExit, NextMapping, LastMapping, NextEntry, CheckLoaded, MmLock, MmWrite,
    GetPage, FreePage, UnmapPage, DropEntry, PagedirDestroy, UserFault, SysIO, Mmap, Munmap, Exit
<1>2. (disk' = disk /\ swap_map' = swap_map) \/ SwapOut(p) \/ SwapIn(p)
  BY DEF Program, Kernel, FrameStep, PageStep, TeardownStep, contents, FrameAlloc,
    FrameAllocFails, EvictFrame, ScanEntry, TestVictim, WriteBack, Unload, ClearPage,
    ReleaseFrame, Repalloc, AddFrame, LoadPage, StackGrowth, BadAddress, ReadFile, InstallPage,
    InstallFails, Unpin, Undo, SysLock, SysCopy, KernelFault, ProcessExit, NextMapping,
    LastMapping, NextEntry, CheckLoaded, MmLock, MmWrite, GetPage, FreePage, UnmapPage,
    DropEntry, PagedirDestroy, UserAccess, UserFault, SysIO, Mmap, Munmap, Exit
<1>3. file' = file \/ WriteBack(p) \/ MmWrite(p)
  BY DEF Program, Kernel, FrameStep, PageStep, TeardownStep, contents, FrameAlloc,
    FrameAllocFails, EvictFrame, ScanEntry, TestVictim, SwapOut, Unload, ClearPage, ReleaseFrame,
    Repalloc, AddFrame, LoadPage, StackGrowth, BadAddress, ReadFile, InstallPage, InstallFails,
    SwapIn, Unpin, Undo, SysLock, SysCopy, KernelFault, ProcessExit, NextMapping, LastMapping,
    NextEntry, CheckLoaded, MmLock, GetPage, FreePage, UnmapPage, DropEntry, PagedirDestroy,
    UserAccess, UserFault, SysIO, Mmap, Munmap, Exit
<1>4. want' = want \/ (\E write \in BOOLEAN : SysCopy(p, write))
       \/ (\E pg \in PagesOf(p) : \E write \in BOOLEAN : UserAccess(p, pg, write))
       \/ InstallPage(p) \/ Mmap(p)
  BY DEF Program, Kernel, FrameStep, PageStep, TeardownStep, contents, FrameAlloc,
    FrameAllocFails, EvictFrame, ScanEntry, TestVictim, WriteBack, SwapOut, Unload, ClearPage,
    ReleaseFrame, Repalloc, AddFrame, LoadPage, StackGrowth, BadAddress, ReadFile, InstallFails,
    SwapIn, Unpin, Undo, SysLock, KernelFault, ProcessExit, NextMapping, LastMapping, NextEntry,
    CheckLoaded, MmLock, MmWrite, GetPage, FreePage, UnmapPage, DropEntry, PagedirDestroy,
    UserFault, SysIO, Munmap, Exit
<1>5. spt' = spt \/ InstallPage(p) \/ Mmap(p) \/ DropEntry(p)
  BY DEF Program, Kernel, FrameStep, PageStep, TeardownStep, pages, FrameAlloc, FrameAllocFails,
    EvictFrame, ScanEntry, TestVictim, WriteBack, SwapOut, Unload, ClearPage, ReleaseFrame,
    Repalloc, AddFrame, LoadPage, StackGrowth, BadAddress, ReadFile, InstallFails, SwapIn, Unpin,
    Undo, SysLock, SysCopy, KernelFault, ProcessExit, NextMapping, LastMapping, NextEntry,
    CheckLoaded, MmLock, MmWrite, GetPage, FreePage, UnmapPage, PagedirDestroy, UserAccess,
    UserFault, SysIO, Munmap, Exit
<1>6. spte' = spte \/ LoadPage(p) \/ StackGrowth(p) \/ SwapOut(p) \/ Unload(p)
       \/ InstallPage(p) \/ SwapIn(p) \/ Unpin(p) \/ Undo(p) \/ Mmap(p)
       \/ NextMapping(p)
  BY DEF Program, Kernel, FrameStep, PageStep, TeardownStep, pages, FrameAlloc, FrameAllocFails,
    EvictFrame, ScanEntry, TestVictim, WriteBack, ClearPage, ReleaseFrame, Repalloc, AddFrame,
    BadAddress, ReadFile, InstallFails, SysLock, SysCopy, KernelFault, ProcessExit, LastMapping,
    NextEntry, CheckLoaded, MmLock, MmWrite, GetPage, FreePage, UnmapPage, DropEntry,
    PagedirDestroy, UserAccess, UserFault, SysIO, Munmap, Exit
<1>7. pagedir' = pagedir \/ ScanEntry(p) \/ ClearPage(p)
       \/ (\E pg \in PagesOf(p) : \E write \in BOOLEAN : UserAccess(p, pg, write))
       \/ InstallPage(p) \/ SwapIn(p) \/ (\E write \in BOOLEAN : SysCopy(p, write))
       \/ MmWrite(p) \/ UnmapPage(p) \/ PagedirDestroy(p)
  BY DEF Program, Kernel, FrameStep, PageStep, TeardownStep, pages, FrameAlloc, FrameAllocFails,
    EvictFrame, TestVictim, WriteBack, SwapOut, Unload, ReleaseFrame, Repalloc, AddFrame,
    LoadPage, StackGrowth, BadAddress, ReadFile, InstallFails, Unpin, Undo, SysLock, KernelFault,
    ProcessExit, NextMapping, LastMapping, NextEntry, CheckLoaded, MmLock, GetPage, FreePage,
    DropEntry, UserFault, SysIO, Mmap, Munmap, Exit
<1> QED  BY <1>1, <1>2, <1>3, <1>4, <1>5, <1>6, <1>7

\* Which actions lead to a label.
LEMMA Arrivals ==
  ASSUME TypeOK, NEW p \in Proc, Program(p) \/ Kernel(p)
  PROVE  /\ pc'[p] = "unload" => TestVictim(p) \/ WriteBack(p) \/ SwapOut(p)
         /\ pc'[p] = "add" => FrameAlloc(p) \/ Repalloc(p)
         /\ pc'[p] = "install" => AddFrame(p) \/ (\E short \in BOOLEAN : ReadFile(p, short))
         /\ pc'[p] = "read_file" => AddFrame(p)
         /\ pc'[p] = "mm_lock" => CheckLoaded(p)
         /\ pc'[p] = "mm_write" => MmLock(p) \/ Unpin(p) \/ InstallPage(p)
<1>0. pc \in [Proc -> Labels]
  BY DEF TypeOK
<1>1. pc'[p] = "unload" => TestVictim(p) \/ WriteBack(p) \/ SwapOut(p)
  BY <1>0 DEF Program, Kernel, FrameStep, PageStep, TeardownStep, Goto, Kill, Resume, Retry,
    AfterRead, FrameAlloc, FrameAllocFails, EvictFrame, ScanEntry, Unload, ClearPage,
    ReleaseFrame, Repalloc, AddFrame, LoadPage, StackGrowth, BadAddress, ReadFile, InstallPage,
    InstallFails, SwapIn, Unpin, Undo, SysLock, SysCopy, KernelFault, ProcessExit, NextMapping,
    LastMapping, NextEntry, CheckLoaded, MmLock, MmWrite, GetPage, FreePage, UnmapPage,
    DropEntry, PagedirDestroy, UserAccess, UserFault, SysIO, Mmap, Munmap, Exit
<1>2. pc'[p] = "add" => FrameAlloc(p) \/ Repalloc(p)
  BY <1>0 DEF Program, Kernel, FrameStep, PageStep, TeardownStep, Goto, Kill, Resume, Retry,
    AfterRead, FrameAllocFails, EvictFrame, ScanEntry, TestVictim, WriteBack, SwapOut, Unload,
    ClearPage, ReleaseFrame, AddFrame, LoadPage, StackGrowth, BadAddress, ReadFile, InstallPage,
    InstallFails, SwapIn, Unpin, Undo, SysLock, SysCopy, KernelFault, ProcessExit, NextMapping,
    LastMapping, NextEntry, CheckLoaded, MmLock, MmWrite, GetPage, FreePage, UnmapPage,
    DropEntry, PagedirDestroy, UserAccess, UserFault, SysIO, Mmap, Munmap, Exit
<1>3. pc'[p] = "install" => AddFrame(p) \/ (\E short \in BOOLEAN : ReadFile(p, short))
  BY <1>0 DEF Program, Kernel, FrameStep, PageStep, TeardownStep, Goto, Kill, Resume, Retry,
    AfterRead, FrameAlloc, FrameAllocFails, EvictFrame, ScanEntry, TestVictim, WriteBack, SwapOut,
    Unload, ClearPage, ReleaseFrame, Repalloc, LoadPage, StackGrowth, BadAddress, InstallPage,
    InstallFails, SwapIn, Unpin, Undo, SysLock, SysCopy, KernelFault, ProcessExit, NextMapping,
    LastMapping, NextEntry, CheckLoaded, MmLock, MmWrite, GetPage, FreePage, UnmapPage,
    DropEntry, PagedirDestroy, UserAccess, UserFault, SysIO, Mmap, Munmap, Exit
<1>4. pc'[p] = "read_file" => AddFrame(p)
  BY <1>0 DEF Program, Kernel, FrameStep, PageStep, TeardownStep, Goto, Kill, Resume, Retry,
    AfterRead, FrameAlloc, FrameAllocFails, EvictFrame, ScanEntry, TestVictim, WriteBack, SwapOut,
    Unload, ClearPage, ReleaseFrame, Repalloc, LoadPage, StackGrowth, BadAddress, ReadFile,
    InstallPage, InstallFails, SwapIn, Unpin, Undo, SysLock, SysCopy, KernelFault, ProcessExit,
    NextMapping, LastMapping, NextEntry, CheckLoaded, MmLock, MmWrite, GetPage, FreePage,
    UnmapPage, DropEntry, PagedirDestroy, UserAccess, UserFault, SysIO, Mmap, Munmap, Exit
<1>5. pc'[p] = "mm_lock" => CheckLoaded(p)
  BY <1>0 DEF Program, Kernel, FrameStep, PageStep, TeardownStep, Goto, Kill, Resume, Retry,
    AfterRead, FrameAlloc, FrameAllocFails, EvictFrame, ScanEntry, TestVictim, WriteBack, SwapOut,
    Unload, ClearPage, ReleaseFrame, Repalloc, AddFrame, LoadPage, StackGrowth, BadAddress,
    ReadFile, InstallPage, InstallFails, SwapIn, Unpin, Undo, SysLock, SysCopy, KernelFault,
    ProcessExit, NextMapping, LastMapping, NextEntry, MmLock, MmWrite, GetPage, FreePage,
    UnmapPage, DropEntry, PagedirDestroy, UserAccess, UserFault, SysIO, Mmap, Munmap, Exit
<1>6. pc'[p] = "mm_write" => MmLock(p) \/ Unpin(p) \/ InstallPage(p)
  BY <1>0 DEF Program, Kernel, FrameStep, PageStep, TeardownStep, Goto, Kill, Resume, Retry,
    AfterRead, FrameAlloc, FrameAllocFails, EvictFrame, ScanEntry, TestVictim, WriteBack, SwapOut,
    Unload, ClearPage, ReleaseFrame, Repalloc, AddFrame, LoadPage, StackGrowth, BadAddress,
    ReadFile, InstallFails, SwapIn, Undo, SysLock, SysCopy, KernelFault, ProcessExit,
    NextMapping, LastMapping, NextEntry, CheckLoaded, MmWrite, GetPage, FreePage, UnmapPage,
    DropEntry, PagedirDestroy, UserAccess, UserFault, SysIO, Mmap, Munmap, Exit
<1> QED  BY <1>1, <1>2, <1>3, <1>4, <1>5, <1>6

\* How a thread comes to give a page up: it has found nothing to save, or has
\* just saved it.
LEMMA SavingArrivals ==
  ASSUME TypeOK, NEW p \in Proc, Program(p) \/ Kernel(p), pc'[p] \in Saving
  PROVE  CheckLoaded(p) \/ MmWrite(p) \/ (pc[p] \in Saving /\ cur' = cur)
<1>0. pc \in [Proc -> Labels]
  BY DEF TypeOK
<1> QED
  BY <1>0 DEF Saving, Program, Kernel, FrameStep, PageStep, TeardownStep, Goto, Kill, Resume, Retry,
    AfterRead, FrameAlloc, FrameAllocFails, EvictFrame, ScanEntry, TestVictim, WriteBack, SwapOut,
    Unload, ClearPage, ReleaseFrame, Repalloc, AddFrame, LoadPage, StackGrowth, BadAddress,
    ReadFile, InstallPage, InstallFails, SwapIn, Unpin, Undo, SysLock, SysCopy, KernelFault,
    ProcessExit, NextMapping, LastMapping, NextEntry, MmLock, GetPage, FreePage, UnmapPage,
    DropEntry, PagedirDestroy, UserAccess, UserFault, SysIO, Mmap, Munmap, Exit, locals

-----------------------------------------------------------------------------
\* What a step can do to the contents of a frame: a new frame may be zeroed, a
\* program stores, and a page is read from its file or from swap.
MemMove(p, f) ==
  \/ mem'[f] = mem[f]
  \/ pc[p] \in {"palloc", "repalloc"} /\ f \in user_pool
  \/ /\ pc[p] \in {"user", "copy"}
     /\ \E pg \in Page : /\ Owner[pg] = p /\ Mapped(pg) /\ pagedir[pg].frame = f
                         /\ mem'[f] = Stored(pg) /\ want'[pg] = Stored(pg)
  \/ pc[p] = "read_file" /\ f = frame[p]
  \/ pc[p] = "swap_in" /\ f = pagedir[cur[p]].frame

\* To what a program saw last in a page.
WantMove(p, x) ==
  \/ want'[x] = want[x]
  \/ /\ pc[p] \in {"user", "copy"} /\ Owner[x] = p /\ Mapped(x)
     /\ want'[x] = Stored(x) /\ mem'[pagedir[x].frame] = Stored(x) /\ pagedir'[x].dirty
     /\ pc'[p] = "user" /\ UNCHANGED <<fte, file, spte, spt>>
  \/ pc[p] = "install" /\ x = cur[p] /\ x \notin spt /\ want'[x] = mem[frame[p]] /\ mem' = mem
  \/ /\ pc[p] = "user" /\ Owner[x] = p /\ x \notin spt
     /\ want'[x] = file[x] /\ file' = file

\* To a file.
FileMove(p, x) ==
  \/ file'[x] = file[x]
  \/ /\ pc[p] = "write_back" /\ x = fte[p].spte /\ file'[x] = mem[fte[p].frame]
     /\ UNCHANGED <<want, spte, spt>>
  \/ /\ pc[p] = "mm_write" /\ x = cur[p] /\ Mapped(x) /\ file'[x] = mem[pagedir[x].frame]
     /\ UNCHANGED <<want, spte, spt>>

\* To the swap partition.
SlotMove(p) ==
  \/ swap_map' = swap_map /\ disk' = disk /\ (pc[p] = "swap_out" => pc' = pc)
  \/ /\ pc[p] = "swap_out"
     /\ \E s \in Slot \ swap_map :
          /\ swap_map' = swap_map \cup {s} /\ disk' = [disk EXCEPT ![s] = mem[fte[p].frame]]
          /\ spte'[fte[p].spte].swap_index = s
  \/ /\ pc[p] = "swap_in" /\ spte'[cur[p]].is_loaded
     /\ swap_map' = swap_map \ {spte[cur[p]].swap_index} /\ disk' = disk

\* To a page's entry.
SpteMove(p, x) ==
  \/ /\ spte'[x].type = spte[x].type /\ spte'[x].is_loaded = spte[x].is_loaded
     /\ spte'[x].swap_index = spte[x].swap_index
  \/ pc[p] = "fault" /\ x = cur[p] /\ x \notin spt
  \/ /\ pc[p] = "swap_out" /\ x = fte[p].spte /\ spte'[x].type = "SWAP"
     /\ spte'[x].is_loaded = spte[x].is_loaded
  \/ /\ pc[p] = "unload" /\ x = fte[p].spte /\ ~spte'[x].is_loaded
     /\ spte'[x].type = spte[x].type /\ spte'[x].swap_index = spte[x].swap_index
  \/ /\ pc[p] = "install" /\ x = cur[p] /\ x \in spt /\ spte[x].type # "SWAP"
     /\ spte'[x].type = spte[x].type
  \/ /\ pc[p] = "swap_in" /\ x = cur[p] /\ spte'[x].is_loaded
     /\ spte'[x].type = spte[x].type /\ spte'[x].swap_index = spte[x].swap_index
  \/ /\ pc[p] = "user" /\ Owner[x] = p /\ x \notin spt /\ ~spte'[x].is_loaded
     /\ spte'[x].type = "MMAP" /\ want'[x] = file[x] /\ file' = file

\* To the set of entries.
SptMove(p, x) ==
  \/ x \in spt' <=> x \in spt
  \/ /\ pc[p] = "install" /\ x = cur[p] /\ x \notin spt /\ x \in spt'
     /\ spte'[x] = spte[x] /\ want'[x] = mem[frame[p]] /\ mem' = mem
  \/ pc[p] = "drop" /\ x = cur[p] /\ x \notin spt'
  \/ /\ pc[p] = "user" /\ Owner[x] = p /\ x \notin spt /\ x \in spt'
     /\ ~spte'[x].is_loaded /\ spte'[x].type = "MMAP" /\ want'[x] = file[x] /\ file' = file

\* To a page's dirty bit.
DirtyMove(p, x) ==
  \/ pagedir'[x].dirty = pagedir[x].dirty
  \/ pagedir'[x].dirty
  \/ pc[p] = "install" /\ x = cur[p]
  \/ pc[p] = "pagedir" /\ Owner[x] = p

\* What a thread at these labels does.
LEMMA EvictActs ==
  ASSUME NEW p \in Proc, Program(p) \/ Kernel(p)
  PROVE  /\ pc[p] = "swap_in" => SwapIn(p)
         /\ pc[p] = "swap_out" => SwapOut(p)
         /\ pc[p] = "write_back" => WriteBack(p)
<1>1. pc[p] = "swap_in" => SwapIn(p)
  BY DEF Program, Kernel, FrameStep, PageStep, TeardownStep, FrameAlloc, FrameAllocFails,
    EvictFrame, ScanEntry, TestVictim, WriteBack, SwapOut, Unload, ClearPage, ReleaseFrame,
    Repalloc, AddFrame, LoadPage, StackGrowth, BadAddress, ReadFile, InstallPage, InstallFails,
    Unpin, Undo, SysLock, SysCopy, KernelFault, ProcessExit, NextMapping, LastMapping, NextEntry,
    CheckLoaded, MmLock, MmWrite, GetPage, FreePage, UnmapPage, DropEntry, PagedirDestroy,
    UserAccess, UserFault, SysIO, Mmap, Munmap, Exit
<1>2. pc[p] = "swap_out" => SwapOut(p)
  BY DEF Program, Kernel, FrameStep, PageStep, TeardownStep, FrameAlloc, FrameAllocFails,
    EvictFrame, ScanEntry, TestVictim, WriteBack, Unload, ClearPage, ReleaseFrame, Repalloc,
    AddFrame, LoadPage, StackGrowth, BadAddress, ReadFile, InstallPage, InstallFails, SwapIn,
    Unpin, Undo, SysLock, SysCopy, KernelFault, ProcessExit, NextMapping, LastMapping, NextEntry,
    CheckLoaded, MmLock, MmWrite, GetPage, FreePage, UnmapPage, DropEntry, PagedirDestroy,
    UserAccess, UserFault, SysIO, Mmap, Munmap, Exit
<1>3. pc[p] = "write_back" => WriteBack(p)
  BY DEF Program, Kernel, FrameStep, PageStep, TeardownStep, FrameAlloc, FrameAllocFails,
    EvictFrame, ScanEntry, TestVictim, SwapOut, Unload, ClearPage, ReleaseFrame, Repalloc,
    AddFrame, LoadPage, StackGrowth, BadAddress, ReadFile, InstallPage, InstallFails, SwapIn,
    Unpin, Undo, SysLock, SysCopy, KernelFault, ProcessExit, NextMapping, LastMapping, NextEntry,
    CheckLoaded, MmLock, MmWrite, GetPage, FreePage, UnmapPage, DropEntry, PagedirDestroy,
    UserAccess, UserFault, SysIO, Mmap, Munmap, Exit
<1> QED  BY <1>1, <1>2, <1>3

\* mmap enters pages that had no entry.
LEMMA MmapPages ==
  ASSUME VMInv, NEW p \in Proc, Mmap(p)
  PROVE  \A pg \in ToSet(Region[p]) : pg \in Page \ spt /\ Kind[pg] = "MMAP" /\ Owner[pg] = p
<1>1. mmap_list[p] = <<>> /\ MmapOf(p)
  BY DEF Mmap, VMInv, TableInv, ThreadInv
<1> QED  BY <1>1, RegionFacts DEF MmapOf, PagesOf

\* install_page always finds the page unmapped.
LEMMA InstallEffect ==
  ASSUME VMInv, NEW p \in Proc, InstallPage(p)
  PROVE  /\ pc[p] = "install" /\ cur[p] \in Page /\ Owner[cur[p]] = p /\ ~Mapped(cur[p])
         /\ frame[p] \in Frame
         /\ pagedir' = [pagedir EXCEPT ![cur[p]] = [Unmapped EXCEPT !.frame = frame[p]]]
         /\ spt' = spt \cup {cur[p]}
         /\ cur[p] \in spt /\ spte[cur[p]].type # "SWAP"
              => spte' = [spte EXCEPT ![cur[p]].is_loaded = TRUE]
         /\ ~(cur[p] \in spt /\ spte[cur[p]].type # "SWAP") => spte' = spte
         /\ want' = IF cur[p] \in spt THEN want ELSE [want EXCEPT ![cur[p]] = mem[frame[p]]]
         /\ UNCHANGED <<mem, file, disk, swap_map>>
<1>1. pc[p] = "install"
  BY DEF InstallPage
<1>2. cur[p] \in Page /\ Owner[cur[p]] = p /\ ~Mapped(cur[p]) /\ frame[p] \in Frame
  BY <1>1, CurPage DEF Idle, VMInv, TableInv, ThreadInv, LoadOf, Absent, IInv, LocalsInv, LocalsOf
<1> QED  BY <1>1, <1>2 DEF InstallPage

\* A store of the program, or of read into a buffer.
LEMMA TouchEffect ==
  ASSUME VMInv, NEW p \in Proc, NEW pg \in Page, NEW write \in BOOLEAN, Mapped(pg), Touch(pg, write)
  PROVE  /\ pagedir[pg].frame \in Frame
         /\ write => /\ mem' = [mem EXCEPT ![pagedir[pg].frame] = Stored(pg)]
                     /\ want' = [want EXCEPT ![pg] = Stored(pg)] /\ pagedir'[pg].dirty
         /\ ~write => mem' = mem /\ want' = want
         /\ \A x \in Page : pagedir'[x].dirty = pagedir[x].dirty \/ (pagedir'[x].dirty /\ x = pg)
<1>0. pagedir \in [Page -> Pte]
  BY DEF VMInv, IInv, TypeOK
<1> QED  BY <1>0 DEF Touch, Store, Mapped, Pte

\* A step changes the contents of a frame in one of these ways only.
LEMMA MemMoves ==
  ASSUME VMInv, NEW p \in Proc, Program(p) \/ Kernel(p), NEW f \in Frame
  PROVE  MemMove(p, f)
<1>0. /\ mem \in [Frame -> Data] /\ want \in [Page -> Data] /\ user_pool \subseteq Frame
      /\ pagedir \in [Page -> Pte]
  BY DEF VMInv, IInv, TypeOK
<1>c. pc[p] \notin Idle => cur[p] \in Page /\ Owner[cur[p]] = p
  BY CurPage
<1>1. CASE mem' = mem
  BY <1>1 DEF MemMove
<1>2. ASSUME NEW g \in user_pool, TakeFrame(p, g), pc[p] \in {"palloc", "repalloc"}
      PROVE MemMove(p, f)
  <2>1. g \in Frame /\ (mem' = mem \/ mem' = [mem EXCEPT ![g] = Zeros])
    BY <1>0, <1>2 DEF TakeFrame
  <2> QED  BY <1>0, <1>2, <2>1 DEF MemMove
<1>3. CASE FrameAlloc(p)
  BY <1>2, <1>3 DEF FrameAlloc
<1>4. CASE Repalloc(p)
  BY <1>1, <1>2, <1>4 DEF Repalloc
<1>5. ASSUME NEW short \in BOOLEAN, ReadFile(p, short) PROVE MemMove(p, f)
  BY <1>0, <1>5 DEF ReadFile, MemMove
<1>6. CASE SwapIn(p)
  BY <1>0, <1>6 DEF SwapIn, MemMove
<1>7. ASSUME NEW pg \in Page, NEW write \in BOOLEAN, Mapped(pg), Touch(pg, write),
             Owner[pg] = p, pc[p] \in {"user", "copy"}
      PROVE  MemMove(p, f)
  BY <1>0, <1>7, TouchEffect DEF MemMove
<1>8. ASSUME NEW write \in BOOLEAN, SysCopy(p, write) PROVE MemMove(p, f)
  BY <1>c, <1>7, <1>8 DEF SysCopy, Idle
<1>9. ASSUME NEW pg \in PagesOf(p), NEW write \in BOOLEAN, UserAccess(p, pg, write)
      PROVE  MemMove(p, f)
  BY <1>7, <1>9 DEF UserAccess, PagesOf
<1> QED  BY <1>1, <1>3, <1>4, <1>5, <1>6, <1>8, <1>9, Writers

\* Only stores, a stack page coming into use and mmap change what a program should
\* find.
LEMMA WantMoves ==
  ASSUME VMInv, NEW p \in Proc, Program(p) \/ Kernel(p), NEW x \in Page
  PROVE  WantMove(p, x)
<1>0. want \in [Page -> Data] /\ mem \in [Frame -> Data] /\ pc \in [Proc -> Labels]
  BY DEF VMInv, IInv, TypeOK
<1>c. pc[p] \notin Idle => cur[p] \in Page /\ Owner[cur[p]] = p
  BY CurPage
<1>1. CASE want' = want
  BY <1>1 DEF WantMove
<1>2. ASSUME NEW pg \in Page, NEW write \in BOOLEAN, Mapped(pg), Touch(pg, write),
             Owner[pg] = p, pc[p] \in {"user", "copy"}, pc'[p] = "user",
             UNCHANGED <<fte, file, spte, spt>>
      PROVE  WantMove(p, x)
  BY <1>0, <1>2, TouchEffect DEF WantMove
<1>3. ASSUME NEW write \in BOOLEAN, SysCopy(p, write) PROVE WantMove(p, x)
  BY <1>0, <1>c, <1>2, <1>3 DEF SysCopy, Idle, locals, Goto
<1>4. ASSUME NEW pg \in PagesOf(p), NEW write \in BOOLEAN, UserAccess(p, pg, write)
      PROVE  WantMove(p, x)
  BY <1>2, <1>4 DEF UserAccess, PagesOf, locals
<1>5. CASE InstallPage(p)
  <2>1. /\ pc[p] = "install" /\ cur[p] \in Page /\ mem' = mem
        /\ want' = IF cur[p] \in spt THEN want ELSE [want EXCEPT ![cur[p]] = mem[frame[p]]]
    BY <1>5, InstallEffect
  <2> QED  BY <1>0, <2>1 DEF WantMove
<1>6. CASE Mmap(p)
  BY <1>0, <1>6, MmapPages DEF WantMove, Mmap
<1> QED  BY <1>1, <1>3, <1>4, <1>5, <1>6, Writers

\* Only evict_frame and process_remove_mmap write to a file.
LEMMA FileMoves ==
  ASSUME VMInv, NEW p \in Proc, Program(p) \/ Kernel(p), NEW x \in Page
  PROVE  FileMove(p, x)
<1>0. file \in [Page -> Data]
  BY DEF VMInv, IInv, TypeOK
<1>1. CASE WriteBack(p)
  BY <1>0, <1>1 DEF WriteBack, FileMove, pages
<1>2. CASE MmWrite(p)
  BY <1>0, <1>2 DEF MmWrite, FileMove
<1> QED  BY <1>1, <1>2, Writers DEF FileMove

\* Only swap_out and swap_in change the swap partition.
LEMMA SlotMoves ==
  ASSUME VMInv, panic = "none", NEW p \in Proc, Program(p) \/ Kernel(p)
  PROVE  SlotMove(p)
<1>0. spte \in [Page -> Spte]
  BY DEF VMInv, IInv, TypeOK
<1>1. CASE SwapOut(p)
  <2>1. fte[p].spte \in Page /\ pc[p] = "swap_out"
    BY <1>1, VictimApart DEF SwapOut, Chosen
  <2>2. CASE swap_map = Slot
    <3>1. swap_map' = swap_map /\ disk' = disk /\ pc' = pc
      BY <1>1, <2>2 DEF SwapOut
    <3> QED  BY <3>1 DEF SlotMove
  <2>3. CASE swap_map # Slot
    <3>1. PICK s \in Slot \ swap_map :
            /\ swap_map' = swap_map \cup {s} /\ disk' = [disk EXCEPT ![s] = mem[fte[p].frame]]
            /\ spte' = SwappedTo(fte[p].spte, s)
      BY <1>1, <2>3 DEF SwapOut
    <3>2. spte'[fte[p].spte].swap_index = s
      <4>1. PICK v \in Page : v = fte[p].spte
        BY <2>1
      <4>2. spte' = [spte EXCEPT ![v].type = "SWAP", ![v].swap_index = s]
        BY <3>1, <4>1 DEF SwappedTo
      <4>3. spte'[v].swap_index = s
        BY ONLY <1>0, <4>2, v \in Page DEF Spte
      <4> QED  BY <4>1, <4>3
    <3> QED  BY <2>1, <3>1, <3>2 DEF SlotMove
  <2> QED  BY <2>2, <2>3
<1>2. CASE SwapIn(p)
  <2>1. cur[p] \in Page /\ pc[p] = "swap_in"
    BY <1>2, CurPage DEF SwapIn, Idle
  <2> QED  BY <1>0, <1>2, <2>1 DEF SwapIn, FreedSlot, SlotMove, Spte
<1>3. pc[p] = "swap_out" => SwapOut(p)
  BY EvictActs
<1> QED  BY <1>1, <1>2, <1>3, Writers DEF SlotMove

\* Type, is_loaded and slot of an entry change at these places only.
LEMMA SpteMoves ==
  ASSUME VMInv, panic = "none", NEW p \in Proc, Program(p) \/ Kernel(p), NEW x \in Page
  PROVE  SpteMove(p, x)
<1>0. spte \in [Page -> Spte]
  BY DEF VMInv, IInv, TypeOK
<1>c. pc[p] \notin Idle => cur[p] \in Page /\ Owner[cur[p]] = p
  BY CurPage
<1>1. CASE spte' = spte
  BY <1>1 DEF SpteMove
<1>2. CASE LoadPage(p)
  BY <1>0, <1>2 DEF LoadPage, SpteMove, Spte
<1>3. CASE StackGrowth(p)
  BY <1>0, <1>3 DEF StackGrowth, SpteMove, Spte
<1>4. CASE SwapOut(p)
  <2>1. pc[p] = "swap_out" /\ fte[p].spte \in Page
    BY <1>4, VictimApart DEF SwapOut, Chosen
  <2>2. CASE swap_map # Slot
    <3>1. PICK s \in Slot \ swap_map : spte' = SwappedTo(fte[p].spte, s)
      BY <1>4, <2>2 DEF SwapOut
    <3>2. spte'[fte[p].spte].type = "SWAP"
      BY <1>0, <2>1, <3>1 DEF SwappedTo, Spte
    <3> QED  BY <1>4, <2>1, <3>2, SwapOutEffect DEF SpteMove
  <2>3. CASE swap_map = Slot
    BY <1>1, <1>4, <2>3 DEF SwapOut
  <2> QED  BY <2>2, <2>3
<1>5. CASE Unload(p)
  <2>1. pc[p] = "unload" /\ fte[p].spte \in Page
    BY <1>5, VictimApart DEF Unload, Chosen
  <2> QED  BY <1>0, <1>5, <2>1 DEF Unload, NotLoaded, SpteMove, Spte
<1>6. CASE InstallPage(p)
  <2>1. pc[p] = "install" /\ cur[p] \in Page
    BY <1>6, InstallEffect
  <2>2. CASE cur[p] \in spt /\ spte[cur[p]].type # "SWAP"
    <3>1. spte' = [spte EXCEPT ![cur[p]].is_loaded = TRUE]
      BY <1>6, <2>2, InstallEffect
    <3> QED  BY <1>0, <2>1, <2>2, <3>1 DEF SpteMove, Spte
  <2> QED  BY <1>1, <1>6, <2>2, InstallEffect
<1>7. CASE SwapIn(p)
  <2>1. pc[p] = "swap_in" /\ cur[p] \in Page
    BY <1>7, <1>c DEF SwapIn, Idle
  <2>2. spte' = spte \/ spte' = [spte EXCEPT ![cur[p]].is_loaded = TRUE]
    BY <1>7 DEF SwapIn
  <2>3. CASE spte' = [spte EXCEPT ![cur[p]].is_loaded = TRUE]
    BY <1>0, <2>1, <2>3 DEF SpteMove, Spte
  <2> QED  BY <1>1, <2>2, <2>3
<1>8. CASE Unpin(p)
  BY <1>0, <1>8 DEF Unpin, SpteMove, Spte
<1>9. CASE Undo(p)
  BY <1>0, <1>9 DEF Undo, SpteMove, Spte
<1>10. CASE Mmap(p)
  BY <1>0, <1>10, MmapPages DEF Mmap, SpteMove, NewSpte
<1>11. CASE NextMapping(p)
  BY <1>0, <1>11 DEF NextMapping, SpteMove, Spte
<1> QED  BY <1>1, <1>2, <1>3, <1>4, <1>5, <1>6, <1>7, <1>8, <1>9, <1>10, <1>11, Writers

\* And entries come and go at these.
LEMMA SptMoves ==
  ASSUME VMInv, NEW p \in Proc, Program(p) \/ Kernel(p), NEW x \in Page
  PROVE  SptMove(p, x)
<1>1. CASE InstallPage(p)
  <2>0. want \in [Page -> Data]
    BY DEF VMInv, IInv, TypeOK
  <2>1. /\ pc[p] = "install" /\ cur[p] \in Page /\ mem' = mem /\ spt' = spt \cup {cur[p]}
        /\ cur[p] \notin spt => spte' = spte /\ want' = [want EXCEPT ![cur[p]] = mem[frame[p]]]
    BY <1>1, InstallEffect
  <2> QED  BY <2>0, <2>1 DEF SptMove
<1>2. CASE Mmap(p)
  BY <1>2, MmapPages DEF Mmap, SptMove, NewSpte
<1>3. CASE DropEntry(p)
  BY <1>3 DEF DropEntry, SptMove
<1> QED  BY <1>1, <1>2, <1>3, Writers DEF SptMove

\* No step clears the dirty bit of a page that stays mapped.
LEMMA DirtyMoves ==
  ASSUME VMInv, panic = "none", NEW p \in Proc, Program(p) \/ Kernel(p), NEW x \in Page
  PROVE  DirtyMove(p, x)
<1>0. pagedir \in [Page -> Pte]
  BY DEF VMInv, IInv, TypeOK
<1>c. pc[p] \notin Idle => cur[p] \in Page /\ Owner[cur[p]] = p
  BY CurPage
<1>1. CASE pagedir' = pagedir
  BY <1>1 DEF DirtyMove
<1>2. CASE ScanEntry(p)
  BY <1>0, <1>2 DEF ScanEntry, ClearAccessed, DirtyMove, Pte
<1>3. CASE ClearPage(p) \/ UnmapPage(p)
  <2>1. PICK v : pagedir' = [pagedir EXCEPT ![v].frame = None]
    BY <1>3 DEF ClearPage, UnmapPage, Cleared
  <2> QED  BY <1>0, <2>1 DEF DirtyMove, Pte
<1>4. ASSUME NEW pg \in PagesOf(p), NEW write \in BOOLEAN, UserAccess(p, pg, write)
      PROVE  DirtyMove(p, x)
  BY <1>4, TouchEffect DEF UserAccess, PagesOf, DirtyMove
<1>5. ASSUME NEW write \in BOOLEAN, SysCopy(p, write) PROVE DirtyMove(p, x)
  BY <1>c, <1>5, TouchEffect DEF SysCopy, Idle, DirtyMove
<1>6. CASE InstallPage(p)
  BY <1>0, <1>6, InstallEffect DEF DirtyMove
<1>7. CASE SwapIn(p)
  BY <1>0, <1>7, <1>c DEF SwapIn, DirtyMove, Pte, Idle
<1>8. CASE MmWrite(p)
  BY <1>0, <1>8 DEF MmWrite, DirtyMove, Pte
<1>9. CASE PagedirDestroy(p)
  BY <1>0, <1>9 DEF PagedirDestroy, DirtyMove, PagesOf
<1> QED  BY <1>1, <1>2, <1>3, <1>4, <1>5, <1>6, <1>7, <1>8, <1>9, Writers

-----------------------------------------------------------------------------
\* A frame that holds, or is about to hold, what page x shows.
ClaimOf(f, x) ==
  \/ InUse(x) /\ pagedir[x].frame = f
  \/ \E q \in Proc : pc[q] \in {"add", "read_file", "install"} /\ frame[q] = f /\ cur[q] = x

\* Such a frame is in the table for x, or in a thread's hands for x.
LEMMA ClaimPlace ==
  ASSUME VMInv, NEW f \in Frame, NEW x \in Page, ClaimOf(f, x)
  PROVE  \/ [frame |-> f, spte |-> x] \in Entries
         \/ \E q \in Proc : /\ InHand(q) = f
                            /\ \/ pc[q] = "add" /\ cur[q] = x
                               \/ pc[q] = "clear" /\ fte[q].spte = x
<1>1. CASE InUse(x) /\ pagedir[x].frame = f
  <2>1. EntryFor(x) \in Entries \/ OutHand(EntryFor(x))
    BY <1>1 DEF VMInv, TableInv, PageInv, TabledOf
  <2>2. EntryFor(x) = [frame |-> f, spte |-> x]
    BY <1>1 DEF EntryFor
  <2> QED  BY <2>1, <2>2 DEF OutHand, InHand
<1>2. ASSUME NEW q \in Proc, pc[q] \in {"add", "read_file", "install"}, frame[q] = f, cur[q] = x
      PROVE  [frame |-> f, spte |-> x] \in Entries \/ (InHand(q) = f /\ pc[q] = "add")
  <2>1. CASE pc[q] = "add"
    BY <1>2, <2>1 DEF InHand
  <2>2. CASE pc[q] # "add"
    BY <1>2, <2>2 DEF VMInv, TableInv, ThreadInv, HeldOf
  <2> QED  BY <2>1, <2>2
<1> QED  BY <1>1, <1>2 DEF ClaimOf

\* A frame is for one page, and not free.
LEMMA OneClaim ==
  ASSUME VMInv, NEW f \in Frame, NEW x \in Page, ClaimOf(f, x)
  PROVE  /\ f \notin user_pool
         /\ \A y \in Page : ClaimOf(f, y) => x = y
<1>0. None # f
  BY VMConstants
<1>1. ASSUME NEW y \in Page, [frame |-> f, spte |-> y] \in Entries PROVE f \in TabledFrames
  <2>1. PICK i \in DOMAIN frame_tbl_list : frame_tbl_list[i] = [frame |-> f, spte |-> y]
    BY <1>1 DEF Entries
  <2>2. frame_tbl_list[i].frame = f
    BY <2>1
  <2> QED  BY <2>2 DEF TabledFrames
<1>2. ASSUME NEW q \in Proc, InHand(q) = f PROVE f \in HeldFrames
  BY <1>0, <1>2 DEF HeldFrames
<1>3. \A q, r \in Proc : InHand(q) = f /\ InHand(r) = f => q = r
  BY <1>0 DEF VMInv, FramePartition
<1>4. user_pool \cap TabledFrames = {} /\ user_pool \cap HeldFrames = {} /\ TabledFrames \cap HeldFrames = {}
  BY DEF VMInv, FramePartition
<1>5. f \notin user_pool
  BY <1>1, <1>2, <1>4, ClaimPlace
<1>6. ASSUME NEW y \in Page, ClaimOf(f, y) PROVE x = y
  <2>1. CASE f \in TabledFrames
    <3>1. [frame |-> f, spte |-> x] \in Entries /\ [frame |-> f, spte |-> y] \in Entries
      BY <1>2, <1>4, <1>6, <2>1, ClaimPlace
    <3>2. [frame |-> f, spte |-> x] = [frame |-> f, spte |-> y]
      BY <3>1, EntriesFacts
    <3> QED  BY <3>2
  <2>2. CASE f \notin TabledFrames
    <3>1. PICK q \in Proc : /\ InHand(q) = f
                            /\ \/ pc[q] = "add" /\ cur[q] = x
                               \/ pc[q] = "clear" /\ fte[q].spte = x
      BY <1>1, <2>2, ClaimPlace
    <3>2. PICK r \in Proc : /\ InHand(r) = f
                            /\ \/ pc[r] = "add" /\ cur[r] = y
                               \/ pc[r] = "clear" /\ fte[r].spte = y
      BY <1>1, <1>6, <2>2, ClaimPlace
    <3> QED  BY <1>3, <3>1, <3>2
  <2> QED  BY <2>1, <2>2
<1> QED  BY <1>5, <1>6

\* Where copies are to be up to date, a program that can store into a page does
\* not do so behind the back of an eviction.
LEMMA StoreSafe ==
  ASSUME VMInv, Regime, Faithful, NEW p \in Proc, NEW x \in Page, Owner[x] = p,
         pc[p] \in {"user", "copy"}, Mapped(x)
  PROVE  /\ spte[x].is_loaded
         /\ \A q \in Proc : pc[q] \notin Chosen \cup {"clear"}
<1>1. ASSUME NEW q \in Proc, pc[q] \in Chosen \cup {"clear"} PROVE FALSE
  BY <1>1 DEF Regime, Faithful, NoEvict, Alone, Chosen, Evicting
<1>2. MapOf(x)
  BY DEF VMInv, TableInv, PageInv
<1> QED  BY <1>1, <1>2 DEF MapOf, At, Leaving

\* The victim of an eviction shows its own data.
LEMMA VictimContents ==
  ASSUME VMInv, Apart, ContentInv, panic = "none", NEW p \in Proc, pc[p] \in Chosen
  PROVE  LET v == fte[p].spte
         IN /\ v \in Page /\ v \in spt /\ InUse(v) /\ spte[v].is_loaded /\ ~spte[v].pinned
            /\ pagedir[v].frame = fte[p].frame /\ Right(v, mem[fte[p].frame])
<1> DEFINE v == fte[p].spte
<1>1. /\ v \in Page /\ v \in spt /\ Mapped(v) /\ spte[v].is_loaded /\ ~spte[v].pinned
      /\ pagedir[v].frame = fte[p].frame
  BY VictimApart DEF VMInv, TableInv, ThreadInv, VictimOf, Chosen
<1>2. Owner[v] \in Proc /\ pc[Owner[v]] # "clear_page"
  BY <1>1, VMConstants DEF Apart, Chosen, Evicting, Taking
<1>3. InUse(v)
  BY <1>1, <1>2 DEF InUse
<1> QED  BY <1>1, <1>3 DEF ContentInv, MemOf

\* A page in use was in use, in the same frame, or has just been installed.
LEMMA UseBack ==
  ASSUME VMInv, Apart, Apart', panic = "none", NEW p \in Proc, Program(p) \/ Kernel(p),
         NEW x \in Page, InUse(x)'
  PROVE  \/ InUse(x) /\ pagedir'[x].frame = pagedir[x].frame
         \/ pc[p] = "install" /\ x = cur[p] /\ pagedir'[x].frame = frame[p]
<1>0. pagedir \in [Page -> Pte] /\ Owner[x] \in Proc
  BY VMConstants DEF VMInv, IInv, TypeOK
<1>1. pagedir'[x].frame # None /\ MapMove(p, x)
  BY MapMoves DEF InUse, Mapped
<1>2. CASE pagedir'[x].frame = pagedir[x].frame
  <2>1. ASSUME cur[Owner[x]] = x, pc[Owner[x]] = "clear_page" PROVE FALSE
    <3>1. CASE Owner[x] = p
      <4>1. UnmapPage(p) /\ cur[p] = x
        BY <2>1, <3>1, LabelActs
      <4> QED  BY <1>0, <1>1, <4>1 DEF UnmapPage, Cleared, Pte
    <3>2. CASE Owner[x] # p
      BY <1>0, <2>1, <3>2, OthersKept DEF InUse, SameFor, VMInv, IInv
    <3> QED  BY <3>1, <3>2
  <2> QED  BY <1>1, <1>2, <2>1 DEF InUse, Mapped
<1> QED  BY <1>1, <1>2 DEF MapMove

\* A page that is loaded and in use was so before, or has just been installed or
\* swapped in.
LEMMA LoadedBack ==
  ASSUME VMInv, Apart, Apart', panic = "none", NEW p \in Proc, Program(p) \/ Kernel(p),
         NEW x \in Page, x \in spt', spte'[x].is_loaded, InUse(x)'
  PROVE  \/ /\ x \in spt /\ spte[x].is_loaded /\ InUse(x)
            /\ pagedir'[x].frame = pagedir[x].frame
         \/ pc[p] = "install" /\ x = cur[p]
         \/ pc[p] = "swap_in" /\ x = cur[p]
<1>1. CASE InUse(x) /\ pagedir'[x].frame = pagedir[x].frame
  <2>1. x \in spt
    BY <1>1 DEF InUse, VMInv, TableInv, PageInv, MapOf
  <2> QED  BY <1>1, <2>1, SpteMoves DEF SpteMove
<1> QED  BY <1>1, UseBack

\* A page that is swapped out was so before, or is the victim being written.
LEMMA SwapBack ==
  ASSUME VMInv, Apart, Apart', panic = "none", NEW p \in Proc, Program(p) \/ Kernel(p),
         NEW x \in Page, SwappedOut(x)'
  PROVE  /\ \/ SwappedOut(x) /\ spte'[x].swap_index = spte[x].swap_index
            \/ pc[p] = "swap_out" /\ x = fte[p].spte /\ pc'[p] = "unload"
         /\ pc[p] = "swap_in" /\ x = cur[p] => ~spte'[x].is_loaded
<1>0. TypeOK /\ pc \in [Proc -> Labels] /\ fte \in [Proc -> Entry \cup {None}]
  BY DEF VMInv, IInv, TypeOK
<1>1. x \in spt' /\ spte'[x].type = "SWAP"
  BY DEF SwappedOut
<1>2. ASSUME NEW q \in Proc \ {p}, pc'[q] = "unload", fte'[q].spte = x
      PROVE  /\ pc[q] = "unload" /\ fte[q].spte = x
             /\ x \in spt /\ spte[x].is_loaded
  <2>1. pc[q] = "unload" /\ fte[q].spte = x
    BY <1>0, <1>2, OthersKept DEF SameFor
  <2> QED  BY <2>1 DEF VMInv, TableInv, ThreadInv, VictimOf, Chosen
<1>3. ASSUME pc'[p] = "unload", fte'[p].spte = x
      PROVE  /\ fte[p].spte = x
             /\ pc[p] = "swap_out" \/ (pc[p] \in {"test", "write_back"} /\ spte[x].type # "SWAP")
  <2>1. CASE TestVictim(p)
    BY <1>0, <1>3, <2>1 DEF TestVictim, Goto, MustSave, locals
  <2>2. CASE WriteBack(p)
    BY <1>3, <2>2 DEF WriteBack, locals, VMInv, TableInv, ThreadInv, VictimOf, Chosen
  <2>3. CASE SwapOut(p)
    BY <1>3, <2>3 DEF SwapOut, locals
  <2> QED  BY <1>0, <1>3, <2>1, <2>2, <2>3, Arrivals
<1>4. ASSUME pc[p] \in {"install", "swap_in"}, spte'[x].is_loaded, x \notin spt \/ ~spte[x].is_loaded
      PROVE  FALSE
  BY <1>2, <1>3, <1>4 DEF SwappedOut
<1>5. pc[p] = "swap_in" => ~spte[cur[p]].is_loaded
  BY DEF VMInv, TableInv, ThreadInv, LoadOf
<1>6. x \in spt
  <2>1. ASSUME pc[p] = "install", x = cur[p], x \notin spt, spte'[x] = spte[x] PROVE FALSE
    <3>1. spte[x].is_loaded
      BY <2>1 DEF VMInv, TableInv, ThreadInv, LoadOf, Pinning, Absent
    <3> QED  BY <1>4, <2>1, <3>1
  <2> QED  BY <1>1, <2>1, SptMoves DEF SptMove
<1>7. CASE pc[p] = "swap_out" /\ x = fte[p].spte
  <2>1. spte[x].is_loaded
    BY <1>7 DEF VMInv, TableInv, ThreadInv, VictimOf, Chosen
  <2>2. spte'[x].is_loaded
    BY <1>6, <1>7, <2>1, SpteMoves DEF SpteMove
  <2>3. ASSUME NEW q \in Proc \ {p}, pc[q] = "unload" PROVE FALSE
    BY <1>7, <2>3 DEF VMInv, IInv, LockInv, Evicting
  <2> QED  BY <1>2, <1>7, <2>2, <2>3 DEF SwappedOut
<1>8. CASE ~(pc[p] = "swap_out" /\ x = fte[p].spte)
  <2>1. CASE /\ spte'[x].type = spte[x].type /\ spte'[x].is_loaded = spte[x].is_loaded
             /\ spte'[x].swap_index = spte[x].swap_index
    <3>1. ~spte[x].is_loaded \/ \E q \in Proc : pc[q] = "unload" /\ fte[q].spte = x
      BY <1>1, <1>2, <1>3, <1>8, <2>1 DEF SwappedOut
    <3> QED  BY <1>1, <1>4, <1>5, <1>6, <2>1, <3>1 DEF SwappedOut
  <2>2. CASE /\ pc[p] = "unload" /\ x = fte[p].spte
             /\ spte'[x].type = spte[x].type /\ spte'[x].swap_index = spte[x].swap_index
    BY <1>1, <1>6, <2>2 DEF SwappedOut
  <2>3. CASE pc[p] = "swap_in" /\ x = cur[p] /\ spte'[x].is_loaded
    BY <1>4, <1>5, <2>3
  <2> QED  BY <1>1, <1>6, <1>8, <2>1, <2>2, <2>3, SpteMoves DEF SpteMove
<1> QED  BY <1>7, <1>8, <1>4, <1>5

\* A page stays swapped out until swap_in, or until its process ends.
LEMMA SwapForward ==
  ASSUME VMInv, panic = "none", NEW p \in Proc, Program(p) \/ Kernel(p),
         NEW x \in Page, SwappedOut(x), ~(pc[p] \in {"swap_in", "drop"} /\ x = cur[p])
  PROVE  SwappedOut(x)' /\ spte'[x].swap_index = spte[x].swap_index
<1>0. TypeOK /\ pc \in [Proc -> Labels] /\ spte \in [Page -> Spte]
  BY DEF VMInv, IInv, TypeOK
<1>1. x \in spt /\ spte[x].type = "SWAP"
  BY DEF SwappedOut
<1>2. x \in spt'
  BY <1>1, SptMoves DEF SptMove
<1>3. ~(pc[p] = "swap_out" /\ x = fte[p].spte)
  <2> SUFFICES ASSUME pc[p] = "swap_out", x = fte[p].spte PROVE FALSE
    OBVIOUS
  <2>1. spte[x].is_loaded
    BY DEF VMInv, TableInv, ThreadInv, VictimOf, Chosen
  <2>2. PICK q \in Proc : pc[q] = "unload"
    BY <2>1 DEF SwappedOut
  <2>3. frame_tbl_lock = p /\ frame_tbl_lock = q
    BY <2>2 DEF VMInv, IInv, LockInv, Evicting
  <2> QED  BY <2>2, <2>3
<1>4. /\ spte'[x].type = "SWAP" /\ spte'[x].swap_index = spte[x].swap_index
      /\ spte'[x].is_loaded => spte[x].is_loaded
  BY <1>1, <1>3, SpteMoves DEF SpteMove
<1>5. ASSUME NEW q \in Proc, pc[q] = "unload", fte[q].spte = x
      PROVE  ~spte'[x].is_loaded \/ (pc'[q] = "unload" /\ fte'[q].spte = x)
  <2>1. CASE q = p
    <3>1. spte' = [spte EXCEPT ![x].is_loaded = FALSE]
      BY <1>5, <2>1, LabelActs DEF Unload, NotLoaded
    <3> QED  BY <1>0, <3>1 DEF Spte
  <2>2. CASE q # p
    BY <1>0, <1>5, <2>2, OthersKept DEF SameFor
  <2> QED  BY <2>1, <2>2
<1> QED  BY <1>2, <1>4, <1>5 DEF SwappedOut

-----------------------------------------------------------------------------
\* swap_in finds its slot marked, and brings the page's own data back.
LEMMA SwapInEffect ==
  ASSUME VMInv, ContentInv, NEW p \in Proc, SwapIn(p)
  PROVE  LET slot == spte[cur[p]].swap_index
         IN /\ pc[p] = "swap_in" /\ cur[p] \in Page /\ Owner[cur[p]] = p
            /\ SwappedOut(cur[p]) /\ slot \in swap_map /\ Right(cur[p], disk[slot])
            /\ swap_map' = swap_map \ {slot} /\ disk' = disk /\ want' = want /\ panic' = panic
            /\ mem' = [mem EXCEPT ![pagedir[cur[p]].frame] = disk[slot]]
            /\ pagedir[cur[p]].frame \in Frame /\ pagedir'[cur[p]].frame = pagedir[cur[p]].frame
<1> DEFINE x == cur[p]
<1>0. pagedir \in [Page -> Pte]
  BY DEF VMInv, IInv, TypeOK
<1>1. pc[p] = "swap_in" /\ x \in Page /\ Owner[x] = p
  BY CurPage DEF SwapIn, Idle
<1>2. x \in spt /\ spte[x].type = "SWAP" /\ ~spte[x].is_loaded /\ Mapped(x)
  BY <1>1 DEF VMInv, TableInv, ThreadInv, LoadOf
<1>3. SwappedOut(x)
  BY <1>2 DEF SwappedOut
<1>4. spte[x].swap_index \in swap_map /\ Right(x, disk[spte[x].swap_index])
  BY <1>1, <1>3 DEF ContentInv, SlotOf
<1>5. pagedir[x].frame \in Frame
  BY <1>0, <1>1, <1>2 DEF Mapped, Pte
<1>6. /\ swap_map' = swap_map \ {spte[x].swap_index} /\ disk' = disk /\ want' = want
      /\ panic' = panic
      /\ mem' = [mem EXCEPT ![pagedir[x].frame] = disk[spte[x].swap_index]]
      /\ pagedir' = [pagedir EXCEPT ![x].accessed = TRUE, ![x].dirty = TRUE]
  BY <1>4 DEF SwapIn, FreedSlot
<1>7. pagedir'[x].frame = pagedir[x].frame
  BY <1>0, <1>1, <1>6 DEF Pte
<1> QED  BY <1>1, <1>3, <1>4, <1>5, <1>6, <1>7

\* What a loaded page shows stays its own data.
LEMMA MemStep ==
  ASSUME VMInv, Apart, Apart', Regime, ContentInv, panic = "none", NEW p \in Proc,
         Program(p) \/ Kernel(p), NEW x \in Page
  PROVE  MemOf(x)'
<1>0. /\ mem \in [Frame -> Data] /\ pagedir \in [Page -> Pte]
  BY DEF VMInv, IInv, TypeOK
<1> SUFFICES ASSUME x \in spt', spte'[x].is_loaded, InUse(x)'
             PROVE  Right(x, mem[pagedir[x].frame])'
  BY DEF MemOf
<1>1. CASE /\ x \in spt /\ spte[x].is_loaded /\ InUse(x)
           /\ pagedir'[x].frame = pagedir[x].frame
  <2> DEFINE f == pagedir[x].frame
  <2>1. f \in Frame /\ Right(x, mem[f]) /\ Mapped(x)
    BY <1>0, <1>1 DEF InUse, Mapped, Pte, ContentInv, MemOf
  <2>2. ClaimOf(f, x)
    BY <1>1 DEF ClaimOf
  <2>3. MemMove(p, f) /\ WantMove(p, x)
    BY <2>1, MemMoves, WantMoves
  <2>4. CASE want'[x] = want[x]
    <3>1. CASE mem'[f] = mem[f]
      BY <1>1, <2>1, <2>4, <3>1 DEF Right
    <3>2. ASSUME NEW pg \in Page, Owner[pg] = p, Mapped(pg), pagedir[pg].frame = f,
                 mem'[f] = Stored(pg), want'[pg] = Stored(pg), pc[p] \in {"user", "copy"}
          PROVE  Right(x, mem[f])'
      <4>1. ClaimOf(f, pg)
        BY <3>2 DEF ClaimOf, InUse
      <4>2. pg = x
        BY <2>1, <2>2, <4>1, OneClaim
      <4> QED  BY <1>1, <3>2, <4>2 DEF Right
    <3>3. ~(pc[p] = "read_file" /\ f = frame[p])
      <4> SUFFICES ASSUME pc[p] = "read_file", f = frame[p] PROVE FALSE
        OBVIOUS
      <4>1. cur[p] \in Page /\ ClaimOf(f, cur[p]) /\ ~Mapped(cur[p])
        BY CurPage DEF Idle, ClaimOf, VMInv, TableInv, ThreadInv, LoadOf, Absent
      <4> QED  BY <2>1, <2>2, <4>1, OneClaim
    <3>4. ~(pc[p] = "swap_in" /\ f = pagedir[cur[p]].frame)
      <4> SUFFICES ASSUME pc[p] = "swap_in", f = pagedir[cur[p]].frame PROVE FALSE
        OBVIOUS
      <4>1. /\ cur[p] \in Page /\ Owner[cur[p]] = p /\ Mapped(cur[p])
            /\ ~spte[cur[p]].is_loaded
        BY CurPage DEF Idle, VMInv, TableInv, ThreadInv, LoadOf
      <4>2. ClaimOf(f, cur[p])
        BY <4>1 DEF ClaimOf, InUse
      <4> QED  BY <1>1, <2>1, <2>2, <4>1, <4>2, OneClaim
    <3>5. f \notin user_pool
      BY <2>1, <2>2, OneClaim
    <3> QED  BY <2>3, <3>1, <3>2, <3>3, <3>4, <3>5 DEF MemMove
  <2>5. CASE want'[x] = Stored(x) /\ mem'[f] = Stored(x)
    BY <1>1, <2>5 DEF Right
  <2> QED  BY <1>1, <2>3, <2>4, <2>5 DEF WantMove
<1>2. CASE pc[p] = "install" /\ x = cur[p]
  <2>1. InstallPage(p)
    <3>1. ~InstallFails(p)
      <4>1. ~Mapped(x) /\ Mapped(x)'
        BY <1>2 DEF VMInv, TableInv, ThreadInv, LoadOf, Absent, InUse
      <4> QED  BY <4>1 DEF InstallFails, pages, Mapped
    <3> QED  BY <1>2, <3>1, LabelActs
  <2>2. pagedir'[x].frame = frame[p] /\ mem' = mem
    <3>1. /\ pagedir' = [pagedir EXCEPT ![x] = [Unmapped EXCEPT !.frame = frame[p]]]
          /\ mem' = mem
      BY <1>2, <2>1, InstallEffect
    <3> QED  BY <1>0, <3>1 DEF Unmapped
  <2>3. CASE x \in spt
    <3>1. spte[x].type # "SWAP"
      <4> SUFFICES ASSUME spte[x].type = "SWAP" PROVE FALSE
        OBVIOUS
      <4>1. spte' = spte
        BY <1>2, <2>1, InstallEffect
      <4> QED  BY <1>2, <2>3, <4>1 DEF VMInv, TableInv, ThreadInv, LoadOf, Absent
    <3>2. Right(x, mem[frame[p]])
      BY <1>2, <2>3, <3>1 DEF ContentInv, FilledOf
    <3>3. want' = want
      BY <1>2, <2>1, <2>3, InstallEffect
    <3> QED  BY <2>2, <3>2, <3>3 DEF Right
  <2>4. CASE x \notin spt
    <3>1. Kind[x] = "STACK"
      BY <1>2, <2>4 DEF VMInv, TableInv, ThreadInv, LoadOf, Pinning, Absent
    <3>2. want'[x] = mem[frame[p]]
      <4>1. want \in [Page -> Data]
        BY DEF VMInv, IInv, TypeOK
      <4>2. want' = [want EXCEPT ![x] = mem[frame[p]]]
        BY <1>2, <2>1, <2>4, InstallEffect
      <4> QED  BY <4>1, <4>2
    <3> QED  BY <2>2, <3>1, <3>2 DEF Right
  <2> QED  BY <2>3, <2>4
<1>3. CASE pc[p] = "swap_in" /\ x = cur[p]
  <2>1. SwapIn(p)
    BY <1>3, EvictActs
  <2> DEFINE d == disk[spte[x].swap_index]
  <2>2. /\ Right(x, d) /\ want' = want /\ pagedir'[x].frame = pagedir[x].frame
        /\ pagedir[x].frame \in Frame /\ mem' = [mem EXCEPT ![pagedir[x].frame] = d]
    BY <1>3, <2>1, SwapInEffect
  <2>3. mem'[pagedir'[x].frame] = d
    BY <1>0, <2>2
  <2> QED  BY <2>2, <2>3 DEF Right
<1> QED  BY <1>1, <1>2, <1>3, LoadedBack

\* A page swapped out keeps its slot, and the slot its data.
LEMMA SlotStep ==
  ASSUME VMInv, Apart, Apart', Regime, ContentInv, panic = "none", NEW p \in Proc,
         Program(p) \/ Kernel(p), NEW x \in Page
  PROVE  SlotOf(x)'
<1> SUFFICES ASSUME SwappedOut(x)'
             PROVE  spte'[x].swap_index \in swap_map' /\ Right(x, disk[spte[x].swap_index])'
  BY DEF SlotOf
<1>0. disk \in [Slot -> Data]
  BY DEF VMInv, IInv, TypeOK
<1>1. CASE SwappedOut(x) /\ spte'[x].swap_index = spte[x].swap_index
  <2> DEFINE i == spte[x].swap_index
  <2>1. i \in swap_map /\ Right(x, disk[i]) /\ x \in spt
    BY <1>1 DEF ContentInv, SlotOf, SwappedOut
  <2>2. i \in swap_map' /\ disk'[i] = disk[i]
    <3>1. CASE pc[p] = "swap_in" /\ spte'[cur[p]].is_loaded
               /\ swap_map' = swap_map \ {spte[cur[p]].swap_index} /\ disk' = disk
      <4>1. cur[p] \in Page /\ SwappedOut(cur[p])
        BY <3>1, EvictActs, SwapInEffect
      <4>2. x # cur[p]
        BY <3>1, SwapBack
      <4> QED  BY <1>1, <2>1, <3>1, <4>1, <4>2 DEF ContentInv, SlotsInv
    <3>2. ASSUME NEW s \in Slot \ swap_map, swap_map' = swap_map \cup {s},
                 disk' = [disk EXCEPT ![s] = mem[fte[p].frame]]
          PROVE  i \in swap_map' /\ disk'[i] = disk[i]
      BY <1>0, <2>1, <3>2
    <3> QED  BY <2>1, <3>1, <3>2, SlotMoves DEF SlotMove
  <2>3. Faithful => want'[x] = want[x]
    <3>1. ASSUME Faithful, pc[p] \in {"user", "copy"}, Owner[x] = p, Mapped(x) PROVE FALSE
      BY <1>1, <3>1, StoreSafe DEF SwappedOut, Chosen
    <3> QED  BY <2>1, <3>1, WantMoves DEF WantMove
  <2> HIDE DEF i
  <2> QED  BY <1>1, <2>1, <2>2, <2>3 DEF Right, i
<1>2. CASE pc[p] = "swap_out" /\ x = fte[p].spte /\ pc'[p] = "unload"
  <2>1. Right(x, mem[fte[p].frame])
    BY <1>2, VictimContents DEF Chosen
  <2>2. PICK s \in Slot \ swap_map :
          /\ swap_map' = swap_map \cup {s} /\ disk' = [disk EXCEPT ![s] = mem[fte[p].frame]]
          /\ spte'[fte[p].spte].swap_index = s
    BY <1>2, SlotMoves DEF SlotMove
  <2>3. want'[x] = want[x]
    BY <1>2, WantMoves DEF WantMove
  <2> QED  BY <1>0, <1>2, <2>1, <2>2, <2>3 DEF Right
<1> QED  BY <1>1, <1>2, SwapBack

\* Only mapped pages are written to their file, and with their own data.
LEMMA FileStep ==
  ASSUME VMInv, Apart, Apart', Regime, ContentInv, panic = "none", NEW p \in Proc,
         Program(p) \/ Kernel(p), NEW x \in Page
  PROVE  FileOf(x)'
<1>0. FileOf(x)
  BY DEF ContentInv
<1>1. CASE pc[p] = "write_back" /\ x = fte[p].spte /\ file'[x] = mem[fte[p].frame]
  <2>1. Right(x, mem[fte[p].frame]) /\ x \in spt
    BY <1>1, VictimContents DEF Chosen
  <2>2. Kind[x] = "MMAP"
    BY <1>1, <2>1 DEF VMInv, TableInv, ThreadInv, VictimOf, Chosen, PageInv, TypeOf
  <2> QED  BY <1>1, <2>1, <2>2 DEF FileOf, Right
<1>2. CASE pc[p] = "mm_write" /\ x = cur[p] /\ Mapped(x) /\ file'[x] = mem[pagedir[x].frame]
  <2>1. Owner[x] = p /\ x \in spt /\ spte[x].is_loaded /\ Kind[x] = "MMAP"
    BY <1>2, CurPage DEF Idle, VMInv, TableInv, ThreadInv, TakeOf, Taking, ContentInv, FilledOf
  <2>2. InUse(x)
    BY <1>2, <2>1 DEF InUse
  <2>3. Right(x, mem[pagedir[x].frame])
    BY <2>1, <2>2 DEF ContentInv, MemOf
  <2> QED  BY <1>2, <2>1, <2>3 DEF FileOf, Right
<1> QED  BY <1>0, <1>1, <1>2, FileMoves DEF FileMove, FileOf

\* A file stays up to date for the pages that will be read from it.
LEMMA CleanStep ==
  ASSUME VMInv, Apart, Apart', Regime, ContentInv, panic = "none", NEW p \in Proc,
         Program(p) \/ Kernel(p), NEW x \in Page
  PROVE  CleanOf(x)'
<1>0. /\ TypeOK /\ pc \in [Proc -> Labels]
  BY DEF VMInv, IInv, TypeOK
<1> SUFFICES ASSUME Faithful, x \in spt', spte'[x].type # "SWAP", Saved(x)'
             PROVE  file'[x] = want'[x]
  BY DEF CleanOf, Faithful, Roomy, Alone
<1>1. CASE want'[x] = file[x] /\ file' = file
  BY <1>1
<1>2. CASE ~(want'[x] = file[x] /\ file' = file)
  <2>1. x \in spt
    <3>1. ASSUME pc[p] = "install", x = cur[p], x \notin spt, spte'[x] = spte[x] PROVE FALSE
      BY <3>1 DEF VMInv, TableInv, ThreadInv, LoadOf, Pinning, Absent
    <3> QED  BY <1>2, <3>1, SptMoves DEF SptMove
  <2>2. spte[x].type # "SWAP"
    BY <1>2, <2>1, SpteMoves DEF SpteMove
  <2>3. CASE pc[p] = "write_back" /\ x = fte[p].spte
    <3>1. WriteBack(p) /\ Right(x, mem[fte[p].frame])
      BY <2>3, EvictActs, VictimContents DEF Chosen
    <3>2. file' = [file EXCEPT ![x] = mem[fte[p].frame]] /\ want' = want
      BY <2>3, <3>1 DEF WriteBack
    <3> QED  BY <1>0, <3>1, <3>2 DEF Right, TypeOK
  <2>4. CASE ~(pc[p] = "write_back" /\ x = fte[p].spte)
    <3>1. Saved(x)
      <4>1. ASSUME NEW q \in Proc, pc'[q] = "unload", fte'[q].spte = x PROVE Saved(x)
        <5>1. CASE q # p
          BY <1>0, <4>1, <5>1, OthersKept DEF SameFor, Saved
        <5>2. CASE q = p
          <6>1. CASE TestVictim(p)
            BY <1>0, <2>2, <4>1, <5>2, <6>1 DEF TestVictim, Goto, MustSave, locals, Saved
          <6>2. ~WriteBack(p)
            BY <2>4, <4>1, <5>2 DEF WriteBack, locals
          <6>3. CASE SwapOut(p)
            <7>1. pc[p] = "swap_out" /\ fte[p].spte = x
              BY <4>1, <5>2, <6>3 DEF SwapOut, locals
            <7>2. PICK s \in Slot : spte' = SwappedTo(x, s)
              BY <1>0, <4>1, <5>2, <6>3, <7>1 DEF SwapOut
            <7>3. spte'[x].type = "SWAP"
              BY <1>0, <7>2 DEF SwappedTo, TypeOK, Spte
            <7> QED  BY <7>3
          <6> QED  BY <1>0, <4>1, <5>2, <6>1, <6>2, <6>3, Arrivals
        <5> QED  BY <5>1, <5>2
      <4>2. ASSUME pc[p] = "install", x = cur[p] PROVE Saved(x)
        BY <2>1, <4>2 DEF Saved, VMInv, TableInv, ThreadInv, LoadOf, Absent
      <4>3. ASSUME ~spte'[x].is_loaded PROVE Saved(x)
        BY <2>1, <4>2, <4>3, SpteMoves DEF SpteMove, Saved
      <4>4. ASSUME ~pagedir'[x].dirty PROVE Saved(x)
        <5>1. ~(pc[p] = "pagedir" /\ Owner[x] = p)
          BY <2>1 DEF VMInv, TableInv, ThreadInv, ModeOf, PagesOf
        <5> QED  BY <4>2, <4>4, <5>1, DirtyMoves DEF DirtyMove, Saved
      <4> QED  BY <4>1, <4>3, <4>4 DEF Saved
    <3>2. file[x] = want[x]
      BY <2>1, <2>2, <3>1 DEF ContentInv, CleanOf
    <3>3. want'[x] = want[x]
      <4>1. ASSUME pc[p] \in {"user", "copy"}, Owner[x] = p, Mapped(x), pagedir'[x].dirty,
                   pc'[p] = "user", UNCHANGED <<fte, file, spte, spt>>
            PROVE  FALSE
        <5>1. /\ spte'[x].is_loaded
              /\ \A q \in Proc : pc[q] # "unload"
          BY <4>1, StoreSafe DEF Chosen
        <5>2. \A q \in Proc : pc'[q] # "unload"
          BY <1>0, <4>1, <5>1, OthersKept DEF SameFor
        <5> QED  BY <4>1, <5>1, <5>2 DEF Saved
      <4> QED  BY <2>1, <4>1, WantMoves DEF WantMove
    <3>4. file'[x] = file[x] \/ file'[x] = want[x]
      <4>1. ASSUME pc[p] = "mm_write", x = cur[p], Mapped(x), file'[x] = mem[pagedir[x].frame]
            PROVE  file'[x] = want[x]
        <5>1. Owner[x] = p /\ spte[x].is_loaded
          BY <4>1, CurPage DEF Idle, VMInv, TableInv, ThreadInv, TakeOf, Taking
        <5>2. InUse(x)
          BY <4>1, <5>1 DEF InUse
        <5> QED  BY <2>1, <4>1, <5>1, <5>2 DEF ContentInv, MemOf, Right
      <4> QED  BY <2>4, <4>1, FileMoves DEF FileMove
    <3> QED  BY <3>2, <3>3, <3>4
  <2> QED  BY <2>3, <2>4
<1> QED  BY <1>1, <1>2

\* Where copies are up to date, what is written to a file is what the program
\* stored.
LEMMA SavedData ==
  ASSUME VMInv, Apart, ContentInv, Faithful, panic = "none", NEW p \in Proc,
         Program(p) \/ Kernel(p), NEW x \in Page
  PROVE  /\ file'[x] = file[x] \/ (file'[x] = want[x] /\ want' = want)
         /\ MmWrite(p) /\ x = cur[p] => file'[x] = want[x] /\ want' = want
<1>0. file \in [Page -> Data]
  BY DEF VMInv, IInv, TypeOK
<1>1. CASE WriteBack(p) /\ x = fte[p].spte
  <2>1. pc[p] = "write_back"
    BY <1>1 DEF WriteBack
  <2>2. Right(x, mem[fte[p].frame])
    BY <1>1, <2>1, VictimContents DEF Chosen
  <2>3. file' = [file EXCEPT ![x] = mem[fte[p].frame]] /\ want' = want
    BY <1>1 DEF WriteBack
  <2>4. ~MmWrite(p)
    BY <2>1 DEF MmWrite
  <2> QED  BY <1>0, <2>2, <2>3, <2>4 DEF Right
<1>2. CASE MmWrite(p) /\ x = cur[p]
  <2>1. pc[p] = "mm_write" /\ want' = want /\ Mapped(x)
        /\ file' = [file EXCEPT ![x] = mem[pagedir[x].frame]]
    BY <1>2 DEF MmWrite
  <2>2. Owner[x] = p /\ x \in spt /\ spte[x].is_loaded
    BY <1>2, <2>1, CurPage DEF Idle, VMInv, TableInv, ThreadInv, TakeOf, Taking
  <2>3. InUse(x)
    BY <2>1, <2>2 DEF InUse
  <2>4. mem[pagedir[x].frame] = want[x]
    BY <2>2, <2>3 DEF ContentInv, MemOf, Right
  <2> QED  BY <1>0, <2>1, <2>4
<1>3. CASE ~(WriteBack(p) /\ x = fte[p].spte) /\ ~(MmWrite(p) /\ x = cur[p])
  <2>1. file'[x] = file[x]
    BY <1>0, <1>3, Writers DEF WriteBack, MmWrite
  <2> QED  BY <1>3, <2>1
<1> QED  BY <1>1, <1>2, <1>3

\* A mapping that goes has been saved, if there was anything to save; and nothing
\* is stored in its pages from then on.
LEMMA KeptStep ==
  ASSUME VMInv, Apart, Apart', Regime, ContentInv, panic = "none", NEW p \in Proc,
         Program(p) \/ Kernel(p), NEW x \in Page
  PROVE  KeptOf(x)'
<1>0. TypeOK /\ Owner[x] \in Proc
  BY VMConstants DEF VMInv, IInv
<1> SUFFICES ASSUME Faithful, Kind[x] = "MMAP", x \notin spt' \/ At(x, Saving)'
             PROVE  file'[x] = want'[x]
  BY DEF KeptOf, Faithful, Roomy, Alone
<1>1. CASE x \notin spt \/ At(x, Saving)
  <2>1. file[x] = want[x]
    BY <1>1 DEF ContentInv, KeptOf
  <2>2. ASSUME pc[p] \in {"user", "copy"}, Owner[x] = p, Mapped(x) PROVE FALSE
    <3>1. x \in spt
      BY <2>2 DEF VMInv, TableInv, PageInv, MapOf
    <3> QED  BY <1>1, <2>2, <3>1 DEF At, Saving
  <2>3. ~(pc[p] = "install" /\ x = cur[p] /\ x \notin spt)
    BY DEF VMInv, TableInv, ThreadInv, LoadOf, Pinning, Absent
  <2>4. want'[x] = want[x] \/ (want'[x] = file[x] /\ file' = file)
    BY <2>2, <2>3, WantMoves DEF WantMove
  <2> QED  BY <2>1, <2>4, SavedData
<1>2. CASE x \in spt /\ ~At(x, Saving)
  <2>1. x \in spt'
    <3>1. ASSUME pc[p] = "drop", x = cur[p] PROVE FALSE
      BY <1>2, <3>1, CurPage DEF Idle, At, Saving
    <3> QED  BY <1>2, <3>1, SptMoves DEF SptMove
  <2>2. Owner[x] = p /\ cur'[p] = x /\ pc'[p] \in Saving
    <3>1. cur'[Owner[x]] = x /\ pc'[Owner[x]] \in Saving
      BY <2>1 DEF At
    <3>2. CASE Owner[x] # p
      BY <1>0, <1>2, <3>1, <3>2, OthersKept DEF SameFor, At, VMInv, IInv
    <3> QED  BY <3>1, <3>2
  <2>3. CASE MmWrite(p)
    <3>1. x = cur[p]
      BY <2>2, <2>3 DEF MmWrite, locals
    <3> QED  BY <2>3, <3>1, SavedData
  <2>4. CASE CheckLoaded(p)
    <3>1. /\ pc[p] = "check" /\ x = cur[p] /\ file' = file /\ want' = want
          /\ ~spte[x].is_loaded \/ mode[p] = "destroy" \/ ~pagedir[x].dirty
      BY <1>0, <2>2, <2>4 DEF CheckLoaded, MustWrite, Goto, HasFrame, Saving, locals, contents,
        TypeOK
    <3>2. mode[p] # "destroy"
      <4>1. MmapOf(p) /\ (mode[p] = "destroy" => mmap_list[p] = <<>>)
        BY DEF VMInv, TableInv, ThreadInv, ModeOf
      <4>2. \E i \in DOMAIN mmap_list[p] : mmap_list[p][i] = x
        BY <1>2, <2>2, <4>1 DEF MmapOf, PagesOf
      <4> QED  BY <4>1, <4>2
    <3>3. spte[x].type # "SWAP"
      BY <1>2 DEF VMInv, TableInv, PageInv, TypeOf
    <3>4. file[x] = want[x]
      BY <1>2, <3>1, <3>2, <3>3 DEF ContentInv, CleanOf, Saved
    <3> QED  BY <3>1, <3>4
  <2>5. ~(pc[p] \in Saving /\ cur' = cur)
    BY <1>2, <2>2 DEF At
  <2> QED  BY <1>0, <2>2, <2>3, <2>4, <2>5, SavingArrivals
<1> QED  BY <1>1, <1>2

\* A load fills its frame with the page's data before it installs the page.
LEMMA FilledOwn ==
  ASSUME VMInv, Apart, Apart', Regime, ContentInv, panic = "none", NEW p \in Proc,
         Program(p) \/ Kernel(p)
  PROVE  FilledOf(p)'
<1>0. /\ TypeOK /\ pc \in [Proc -> Labels] /\ frame \in [Proc -> Frame \cup {None}]
      /\ mem \in [Frame -> Data] /\ spte \in [Page -> Spte] /\ user_pool \subseteq Frame
      /\ mode \in [Proc -> Modes]
  BY DEF VMInv, IInv, TypeOK
<1>1. ASSUME pc'[p] = "add", Zeroed(p)' PROVE mem'[frame'[p]] = Zeros
  <2>1. FrameAlloc(p) \/ Repalloc(p)
    BY <1>0, <1>1, Arrivals
  <2>2. PICK f \in user_pool : TakeFrame(p, f)
    <3>1. CASE FrameAlloc(p)
      BY <3>1 DEF FrameAlloc
    <3>2. CASE Repalloc(p)
      BY <1>0, <1>1, <3>2 DEF Repalloc, Retry, Goto
    <3> QED  BY <2>1, <3>1, <3>2
  <2>3. Zeroed(p)
    BY <1>1, <2>1 DEF FrameAlloc, Repalloc, pages, Zeroed
  <2> QED  BY <1>0, <2>2, <2>3 DEF TakeFrame
<1>2. ASSUME pc'[p] = "read_file" PROVE spte'[cur'[p]].type # "SWAP"
  <2>1. AddFrame(p)
    BY <1>0, <1>2, Arrivals
  <2> QED  BY <1>0, <1>2, <2>1 DEF AddFrame, Goto, HasFileData, locals, pages
<1>3. ASSUME pc'[p] = "install", cur'[p] \in spt', spte'[cur'[p]].type # "SWAP"
      PROVE  Right(cur[p], mem[frame[p]])'
  <2> DEFINE x == cur[p]
  <2>0. pc[p] \in {"add", "read_file"} => /\ x \in Page /\ frame[p] \in Frame
                                           /\ (x \in spt => ~spte[x].is_loaded)
    BY CurPage DEF Idle, VMInv, TableInv, ThreadInv, LoadOf, Absent, IInv, LocalsInv, LocalsOf
  <2>1. CASE AddFrame(p)
    <3>1. /\ pc[p] = "add" /\ ~HasFileData(x)
          /\ cur' = cur /\ frame' = frame /\ mem' = mem /\ want' = want
          /\ spt' = spt /\ spte' = spte
      BY <1>0, <1>3, <2>1 DEF AddFrame, Goto, locals, pages, contents
    <3>2. x \in spt /\ spte[x].type # "SWAP" /\ x \in Page /\ ~spte[x].is_loaded
      <4>1. cur'[p] = x
        BY <3>1
      <4>2. x \in spt /\ spte[x].type # "SWAP"
        BY <1>3, <3>1, <4>1
      <4> HIDE DEF x
      <4> QED  BY <2>0, <3>1, <4>2
    <3>3. Kind[x] = "ZERO"
      BY <3>1, <3>2 DEF HasFileData
    <3>4. Zeroed(p)
      <4>1. spte[x].type \in {"FILE", "SWAP", "MMAP"} /\ spte[x].type # "MMAP"
        BY <1>0, <3>2, <3>3 DEF Spte, VMInv, TableInv, PageInv, TypeOf
      <4> QED  BY <3>2, <3>3, <4>1 DEF Zeroed
    <3>5. mem[frame[p]] = Zeros
      BY <3>1, <3>4 DEF ContentInv, FilledOf
    <3>6. Faithful => want[x] = Zeros
      BY <3>2, <3>3 DEF ContentInv, CleanOf, Saved, FileOf
    <3> QED  BY <3>1, <3>3, <3>5, <3>6 DEF Right
  <2>2. ASSUME NEW short \in BOOLEAN, ReadFile(p, short) PROVE Right(cur[p], mem[frame[p]])'
    <3>1. /\ pc[p] = "read_file"
          /\ cur' = cur /\ frame' = frame /\ want' = want /\ spt' = spt /\ spte' = spte
          /\ mem' = [mem EXCEPT ![frame[p]] = file[x]]
      BY <1>0, <1>3, <2>2 DEF ReadFile, AfterRead, Goto, locals, pages
    <3>2. x \in spt /\ spte[x].type # "SWAP" /\ x \in Page /\ ~spte[x].is_loaded
      <4>1. cur'[p] = x
        BY <3>1
      <4>2. x \in spt /\ spte[x].type # "SWAP"
        BY <1>3, <3>1, <4>1
      <4> HIDE DEF x
      <4> QED  BY <2>0, <3>1, <4>2
    <3>3. mem'[frame[p]] = file[x]
      <4>1. frame[p] \in Frame
        BY <2>0, <3>1
      <4> QED  BY <1>0, <3>1, <4>1
    <3>4. Faithful => want[x] = file[x]
      BY <3>2 DEF ContentInv, CleanOf, Saved
    <3>5. FileOf(x) /\ Kind[x] \in Kinds
      BY <3>2, VMConstants DEF ContentInv
    <3> QED  BY <3>1, <3>3, <3>4, <3>5 DEF Right, FileOf, Kinds
  <2> QED  BY <1>0, <1>3, <2>1, <2>2, Arrivals
<1>4. ASSUME pc'[p] \in {"mm_lock", "mm_write"} PROVE Kind[cur'[p]] = "MMAP"
  <2>1. CASE CheckLoaded(p)
    <3>1. pc[p] = "check" /\ mode[p] # "destroy" /\ cur' = cur
      BY <1>0, <1>4, <2>1 DEF CheckLoaded, MustWrite, Goto, locals
    <3>2. cur[p] = Head(mmap_list[p]) /\ mmap_list[p] # <<>>
      BY <3>1 DEF VMInv, TableInv, ThreadInv, TakeOf, Taking, IInv, LocalsInv, LocalsOf, Unmapping
    <3> QED  BY <3>1, <3>2, HeadMapping
  <2>2. CASE MmLock(p)
    BY <2>2 DEF MmLock, locals, ContentInv, FilledOf
  <2>3. ~Unpin(p) /\ ~InstallPage(p)
    <3>1. ASSUME pc[p] \in {"unpin", "install"} PROVE mode[p] \in {"user", "io"}
      BY <1>0, <3>1 DEF VMInv, TableInv, ThreadInv, ModeOf, Taking, Modes
    <3> QED  BY <1>0, <1>4, <3>1 DEF Unpin, InstallPage, Resume, Goto
  <2> QED  BY <1>0, <1>4, <2>1, <2>2, <2>3, Arrivals
<1> QED  BY <1>1, <1>2, <1>3, <1>4 DEF FilledOf

\* And nobody else touches that frame.
LEMMA FilledOther ==
  ASSUME VMInv, Apart, Apart', Regime, ContentInv, panic = "none", NEW p \in Proc,
         Program(p) \/ Kernel(p), NEW q \in Proc \ {p}
  PROVE  FilledOf(q)'
<1>0. SameFor(q) /\ FilledOf(q)
  BY OthersKept DEF VMInv, IInv, ContentInv
<1> DEFINE x == cur[q]
<1>1. CASE pc[q] \notin {"add", "read_file", "install"}
  BY <1>0, <1>1 DEF FilledOf, SameFor
<1>2. CASE pc[q] \in {"add", "read_file", "install"}
  <2> DEFINE f == frame[q]
  <2>1. x \in Page /\ Owner[x] = q /\ ~Mapped(x) /\ f \in Frame
    BY <1>2, CurPage DEF Idle, VMInv, TableInv, ThreadInv, LoadOf, Absent, IInv, LocalsInv,
      LocalsOf
  <2>2. ClaimOf(f, x)
    BY <1>2 DEF ClaimOf
  <2>3. x # cur[p] \/ pc[p] \in Idle
    BY <2>1, CurPage
  <2>4. mem'[f] = mem[f]
    <3>1. ASSUME NEW pg \in Page, Owner[pg] = p, Mapped(pg), pagedir[pg].frame = f,
                 pc[p] # "clear_page"
          PROVE  FALSE
      BY <2>1, <2>2, <3>1, OneClaim DEF ClaimOf, InUse
    <3>2. ~(pc[p] = "read_file" /\ f = frame[p])
      BY <2>1, <2>2, <2>3, OneClaim, CurPage DEF ClaimOf, Idle
    <3>3. ~(pc[p] = "swap_in" /\ f = pagedir[cur[p]].frame)
      BY <3>1, CurPage DEF Idle, VMInv, TableInv, ThreadInv, LoadOf
    <3>4. f \notin user_pool
      BY <2>1, <2>2, OneClaim
    <3> QED  BY <2>1, <3>1, <3>2, <3>3, <3>4, MemMoves DEF MemMove
  <2>5. want'[x] = want[x]
    BY <2>1, <2>3, WantMoves DEF WantMove, Idle
  <2>6. x \in spt' <=> x \in spt
    BY <2>1, <2>3, SptMoves DEF SptMove, Idle
  <2>7. spte'[x].type = spte[x].type
    <3>1. ~(pc[p] = "swap_out" /\ x = fte[p].spte)
      BY <1>2, VictimApart DEF Chosen, Absent
    <3> QED  BY <2>1, <2>3, <3>1, SpteMoves DEF SpteMove, Idle
  <2>8. Zeroed(q)' => Zeroed(q)
    BY <1>0, <2>6, <2>7 DEF Zeroed, SameFor
  <2>9. Right(x, mem[f]) => Right(cur[q], mem[frame[q]])'
    BY <1>0, <2>4, <2>5 DEF Right, SameFor
  <2>10. pc[q] \notin {"mm_lock", "mm_write"}
    BY <1>2
  <2> HIDE DEF x, f
  <2> QED  BY <1>0, <2>4, <2>6, <2>7, <2>8, <2>9, <2>10 DEF FilledOf, SameFor, x, f
<1> QED  BY <1>1, <1>2

\* page_table_rm, once begun, leads to the end of the process.
LEMMA EndIsFinal ==
  ASSUME VMInv, NEW p \in Proc, Program(p) \/ Kernel(p), NEW q \in Proc, mode[q] = "destroy"
  PROVE  mode'[q] = "destroy"
<1>1. CASE q # p
  BY <1>1, OthersKept DEF SameFor, VMInv, IInv
<1>2. CASE q = p
  <2>1. /\ pc[p] \in Taking \cup {"next", "pagedir", "dead"}
        /\ mode \in [Proc -> Modes]
    BY <1>2 DEF VMInv, TableInv, ThreadInv, ModeOf, IInv, TypeOK
  <2>2. mode' = mode \/ LastMapping(p) \/ pc[p] \in {"user", "exit", "copy"}
    BY DEF Program, Kernel, FrameStep, PageStep, TeardownStep, FrameAlloc, FrameAllocFails,
      EvictFrame, ScanEntry, TestVictim, WriteBack, SwapOut, Unload, ClearPage, ReleaseFrame,
      Repalloc, AddFrame, LoadPage, StackGrowth, BadAddress, ReadFile, InstallPage, InstallFails,
      SwapIn, Unpin, Undo, SysLock, SysCopy, KernelFault, ProcessExit, NextMapping, NextEntry,
      CheckLoaded, MmLock, MmWrite, GetPage, FreePage, UnmapPage, DropEntry, PagedirDestroy,
      UserAccess, UserFault, SysIO, Mmap, Munmap, Exit
  <2> QED  BY <1>2, <2>1, <2>2 DEF LastMapping, Taking
<1> QED  BY <1>1, <1>2

\* Slots stay with their pages.
LEMMA SlotsStep ==
  ASSUME VMInv, Apart, Apart', Regime, ContentInv, panic = "none", NEW p \in Proc,
         Program(p) \/ Kernel(p)
  PROVE  SlotsInv'
<1>1. ASSUME NEW x \in Page, NEW y \in Page, SwappedOut(x)', SwappedOut(y)',
             spte'[x].swap_index = spte'[y].swap_index
      PROVE  x = y
  <2>1. ASSUME NEW u \in Page, NEW v \in Page, spte'[u].swap_index = spte'[v].swap_index,
               SwappedOut(u), spte'[u].swap_index = spte[u].swap_index,
               pc[p] = "swap_out", v = fte[p].spte, pc'[p] = "unload"
        PROVE  FALSE
    <3>1. spte[u].swap_index \in swap_map
      BY <2>1 DEF ContentInv, SlotOf
    <3>2. spte'[v].swap_index \notin swap_map
      BY <2>1, SlotMoves DEF SlotMove
    <3> QED  BY <2>1, <3>1, <3>2
  <2>2. CASE SwappedOut(x) /\ spte'[x].swap_index = spte[x].swap_index
             /\ SwappedOut(y) /\ spte'[y].swap_index = spte[y].swap_index
    BY <1>1, <2>2 DEF ContentInv, SlotsInv
  <2> QED  BY <1>1, <2>1, <2>2, SwapBack
<1>2. ASSUME Calm \/ Alone, NobodyEnds', NEW s \in swap_map'
      PROVE  \E pg \in Page : SwappedOut(pg)' /\ spte'[pg].swap_index = s
  <2>0. NobodyEnds
    BY <1>2, EndIsFinal DEF NobodyEnds
  <2>d. ASSUME pc[p] = "drop" PROVE ~SwappedOut(cur[p])
    <3>1. Kind[cur[p]] = "MMAP" /\ cur[p] \in Page
      <4>1. /\ mode[p] # "destroy" /\ mode[p] \in {"munmap", "exit"}
            /\ cur[p] = Head(mmap_list[p]) /\ mmap_list[p] # <<>>
        BY <2>0, <2>d DEF NobodyEnds, VMInv, TableInv, ThreadInv, TakeOf, Taking, IInv, LocalsInv,
          LocalsOf, Unmapping
      <4> QED  BY <2>d, <4>1, HeadMapping, CurPage DEF Idle
    <3> QED  BY <3>1 DEF VMInv, TableInv, PageInv, TypeOf, SwappedOut
  <2>1. ASSUME s \in swap_map, pc[p] = "swap_in" => s # spte[cur[p]].swap_index
        PROVE  \E pg \in Page : SwappedOut(pg)' /\ spte'[pg].swap_index = s
    <3>1. PICK pg \in Page : SwappedOut(pg) /\ spte[pg].swap_index = s
      BY <1>2, <2>0, <2>1 DEF ContentInv, SlotsInv
    <3> QED  BY <2>1, <2>d, <3>1, SwapForward
  <2>2. CASE pc[p] = "swap_in"
    BY <1>2, <2>1, <2>2, EvictActs, SwapInEffect
  <2>3. CASE pc[p] = "swap_out" /\ s \notin swap_map
    <3> DEFINE v == fte[p].spte
    <3>1. PICK r \in Slot \ swap_map : swap_map' = swap_map \cup {r} /\ spte'[v].swap_index = r
      BY <1>2, <2>3, SlotMoves DEF SlotMove
    <3>2. SwapOut(p) /\ swap_map # Slot
      BY <2>3, <3>1, EvictActs DEF VMInv, IInv, TypeOK
    <3>3. v \in Page /\ v \in spt
      BY <2>3, VictimContents DEF Chosen
    <3>4. /\ pc'[p] = "unload" /\ fte' = fte /\ spt' = spt
          /\ \E t \in Slot : spte' = SwappedTo(v, t)
      BY <2>3, <3>2 DEF SwapOut, Goto, locals, VMInv, IInv, TypeOK
    <3>5. spte'[v].type = "SWAP"
      BY <3>3, <3>4 DEF SwappedTo, VMInv, IInv, TypeOK, Spte
    <3> QED  BY <1>2, <2>3, <3>1, <3>3, <3>4, <3>5 DEF SwappedOut
  <2> QED  BY <1>2, <2>1, <2>2, <2>3, SlotMoves DEF SlotMove
<1>3. ASSUME Roomy PROVE swap_map' = {}
  BY <1>3, SlotMoves DEF SlotMove, ContentInv, SlotsInv, Regime, NoEvict, Evicting
<1> QED  BY <1>1, <1>2, <1>3 DEF SlotsInv, Calm, Roomy, Alone

\* A step of any thread keeps the data of every page where its tables say.
LEMMA ContentStep ==
  ASSUME VMInv, Apart, Apart', Regime, ContentInv, panic = "none", NEW p \in Proc,
         Program(p) \/ Kernel(p)
  PROVE  ContentInv'
<1>1. \A x \in Page : MemOf(x)' /\ SlotOf(x)' /\ FileOf(x)' /\ CleanOf(x)' /\ KeptOf(x)'
  BY MemStep, SlotStep, FileStep, CleanStep, KeptStep
<1>2. \A q \in Proc : FilledOf(q)'
  BY FilledOwn, FilledOther
<1> QED  BY <1>1, <1>2, SlotsStep DEF ContentInv

\* Nothing is loaded at the start, and the files hold what the programs expect.
LEMMA ContentInit ==
  ASSUME Init
  PROVE  ContentInv
<1>1. ASSUME NEW x \in Page PROVE MemOf(x) /\ SlotOf(x) /\ FileOf(x) /\ CleanOf(x) /\ KeptOf(x)
  BY <1>1 DEF Init, MemOf, SlotOf, FileOf, CleanOf, KeptOf, SwappedOut, NewSpte
<1>2. ASSUME NEW p \in Proc PROVE FilledOf(p)
  BY <1>2 DEF Init, FilledOf
<1>3. \A pg \in Page : ~SwappedOut(pg)
  BY DEF Init, SwappedOut, NewSpte
<1>4. SlotsInv
  BY <1>3 DEF Init, SlotsInv
<1> QED  BY <1>1, <1>2, <1>4 DEF ContentInv

\* A step that changes nothing keeps it.
LEMMA ContentStutter ==
  ASSUME ContentInv, UNCHANGED vars
  PROVE  ContentInv'
<1> USE DEF vars, locals, locks, frames, pages, contents
<1>1. ASSUME NEW x \in Page PROVE (MemOf(x) /\ SlotOf(x) /\ FileOf(x) /\ CleanOf(x) /\ KeptOf(x))'
  BY <1>1 DEF ContentInv, MemOf, SlotOf, FileOf, CleanOf, KeptOf, Saved, SwappedOut, InUse, Mapped,
    Right, At
<1>2. ASSUME NEW p \in Proc PROVE FilledOf(p)'
  BY <1>2 DEF ContentInv, FilledOf, Zeroed, Right
<1>3. SlotsInv'
  BY DEF ContentInv, SlotsInv, SwappedOut, NobodyEnds
<1> QED  BY <1>1, <1>2, <1>3 DEF ContentInv

\* The regimes of VMTables are kept whichever of them holds, if any.
LEMMA RegimeKept ==
  ASSUME VMInv, Regime, [Next]_vars
  PROVE  Regime'
<1>1. CASE UNCHANGED vars
  BY <1>1 DEF Regime, NoTeardown, CalmOf, NoEvict, Known, vars, locals, pages
<1>2. CASE panic = "none" /\ \E p \in Proc : Program(p) \/ Kernel(p)
  BY <1>2, CalmStep, RoomyStep DEF Regime
<1> QED  BY <1>1, <1>2 DEF Next, Terminated

-----------------------------------------------------------------------------
\* As long as no teardown overlaps an eviction, every page in use is in its
\* frame, every page swapped out is in its slot, and a clean page is in its file.
THEOREM ContentsInductive == Spec /\ []Apart => [](VMInv /\ Regime /\ ContentInv)
<1>1. Init => Regime /\ ContentInv
  BY ContentInit DEF Init, Regime, NoTeardown, CalmOf, NoEvict, Evicting, Taking
<1>2. ASSUME VMInv, Apart, Apart', Regime, ContentInv, [Next]_vars
      PROVE  (Regime /\ ContentInv)'
  <2>1. Regime'
    BY <1>2, RegimeKept
  <2>2. ContentInv'
    <3>1. CASE UNCHANGED vars
      BY <1>2, <3>1, ContentStutter
    <3>2. CASE panic = "none" /\ \E p \in Proc : Program(p) \/ Kernel(p)
      BY <1>2, <3>2, ContentStep
    <3> QED  BY <1>2, <3>1, <3>2 DEF Next, Terminated
  <2> QED  BY <2>1, <2>2
<1>3. VMInv /\ Apart /\ Apart' /\ Regime /\ ContentInv /\ [Next]_vars => (Regime /\ ContentInv)'
  BY <1>2
<1> QED  BY <1>1, <1>3, TablesInductive, PTL DEF Spec

\* No page of an executable or of a mapped file shows the remains of another
\* page, where no teardown overlaps an eviction: not when its frame or its slot
\* has been reused, nor when load_page and swap_in race with an eviction.
\* A new page of the stack may: stack_growth does not ask for zeros.
THEOREM NoForeignPages == Spec /\ []Apart => []NoForeignData
<1>1. ContentInv /\ TypeOK => NoForeignData
  BY DEF ContentInv, MemOf, Right, NoForeignData, TypeOK
<1>2. VMInv => TypeOK
  BY DEF VMInv, IInv
<1> QED  BY <1>1, <1>2, ContentsInductive, PTL

\* Where no teardown overlaps an eviction, the slot of a page swapped out stays
\* marked, and is nobody else's: swap_in never finds it free or overwritten.
THEOREM SlotsHeld ==
  Spec /\ []Apart => [](/\ \A pg \in Page : SwappedOut(pg) => spte[pg].swap_index \in swap_map
                        /\ \A pg, q \in Page :
                             SwappedOut(pg) /\ SwappedOut(q)
                             /\ spte[pg].swap_index = spte[q].swap_index => pg = q)
<1> DEFINE Held == /\ \A pg \in Page : SwappedOut(pg) => spte[pg].swap_index \in swap_map
                   /\ \A pg, q \in Page : SwappedOut(pg) /\ SwappedOut(q)
                        /\ spte[pg].swap_index = spte[q].swap_index => pg = q
<1>1. ContentInv => Held
  BY DEF ContentInv, SlotOf, SlotsInv
<1> QED  BY <1>1, ContentsInductive, PTL

\* Where no process exits with pages swapped out, no slot is lost either: those
\* marked in use are exactly those of the pages swapped out.
THEOREM NoSlotLost ==
  ASSUME Calm \/ Roomy
  PROVE  Spec => []SwapSlotsOwned
<1>1. ASSUME VMInv, Regime, ContentInv PROVE SwapSlotsOwned
  <2>0. Calm => NobodyEnds
    BY <1>1 DEF Regime, NoTeardown, CalmOf, NobodyEnds, VMInv, TableInv, ThreadInv, ModeOf
  <2>1. \A pg \in Page : SwappedOut(pg) => spte[pg].swap_index \in swap_map
    BY <1>1 DEF ContentInv, SlotOf
  <2>2. \A s \in swap_map : \E pg \in Page : SwappedOut(pg) /\ spte[pg].swap_index = s
    BY <1>1, <2>0 DEF ContentInv, SlotsInv
  <2> QED  BY <1>1, <2>1, <2>2 DEF ContentInv, SlotsInv, SwapSlotsOwned
<1> QED  BY <1>1, ContentsInductive, ApartRegimes, PTL

\* What a program stored in a page is what it finds there, however often the
\* page went to swap or to its file in between, when one process runs (against
\* any shortage of frames) or there is a frame for every page.  Otherwise a store
\* after the copy was taken is lost: the run vm_lost_store shows it.
THEOREM StoresKept ==
  ASSUME Roomy \/ Alone
  PROVE  Spec => []StoresSurvive
<1>1. ASSUME ContentInv, TypeOK PROVE StoresSurvive
  BY <1>1 DEF ContentInv, MemOf, Right, StoresSurvive, Faithful, TypeOK
<1>2. VMInv => TypeOK
  BY DEF VMInv, IInv
<1> QED  BY <1>1, <1>2, ContentsInductive, ApartRegimes, PTL

-----------------------------------------------------------------------------
(***************************************************************************)
(* Paging is not seen by the programs: the refinement of AddressSpace.     *)
(* What a page holds for its program is want, and each step stores in a    *)
(* page, maps a file, grows the stack, gives a page up, or does nothing    *)
(* that a program could see.                                               *)
(***************************************************************************)
\* What Image comes to.
Ideal(pg) == IF pg \in KnownPages \/ Kind[pg] = "MMAP" THEN want[pg] ELSE None
Shown == \A pg \in Page : Image(pg) = Ideal(pg)

\* Wherever the kernel has a page, it has what its program stored.
LEMMA ImageIsWant ==
  ASSUME VMInv, ContentInv, Faithful
  PROVE  Shown
<1> SUFFICES ASSUME NEW x \in Page PROVE Image(x) = Ideal(x)
  BY DEF Shown
<1>1. CASE x \notin KnownPages /\ Kind[x] # "MMAP"
  BY <1>1 DEF Image, Ideal
<1>2. CASE x \in KnownPages \/ Kind[x] = "MMAP"
  <2>1. CASE InMemory(x)
    <3>1. x \in spt /\ spte[x].is_loaded /\ ~At(x, Saving)
      BY <2>1 DEF InMemory
    <3>2. Mapped(x)
      BY <3>1 DEF VMInv, TableInv, PageInv, LoadedOf, At, Saving
    <3>3. InUse(x)
      BY <3>1, <3>2 DEF InUse, At, Saving
    <3>4. mem[pagedir[x].frame] = want[x]
      BY <3>1, <3>3 DEF ContentInv, MemOf, Right
    <3> QED  BY <1>2, <2>1, <3>4 DEF Image, Ideal
  <2>2. CASE ~InMemory(x) /\ InSwap(x)
    <3>1. SwappedOut(x)
      BY <2>2 DEF InSwap, SwappedOut
    <3>2. disk[spte[x].swap_index] = want[x]
      BY <3>1 DEF ContentInv, SlotOf, Right
    <3> QED  BY <1>2, <2>2, <3>2 DEF Image, Ideal
  <2>3. CASE ~InMemory(x) /\ ~InSwap(x)
    <3>1. CASE x \notin spt \/ At(x, Saving)
      <4>1. Kind[x] = "MMAP"
        BY <1>2, <3>1 DEF KnownPages, At, Saving, Taking
      <4>2. file[x] = want[x]
        BY <3>1, <4>1 DEF ContentInv, KeptOf
      <4> QED  BY <1>2, <2>3, <4>2 DEF Image, Ideal
    <3>2. CASE x \in spt /\ ~At(x, Saving)
      <4>1. ~spte[x].is_loaded /\ spte[x].type # "SWAP"
        BY <2>3, <3>2 DEF InMemory, InSwap
      <4>2. file[x] = want[x]
        BY <3>2, <4>1 DEF ContentInv, CleanOf, Saved
      <4> QED  BY <1>2, <2>3, <4>2 DEF Image, Ideal
    <3> QED  BY <3>1, <3>2
  <2> QED  BY <2>1, <2>2, <2>3
<1> QED  BY <1>1, <1>2

\* The teardown turns to a page, keeps to it, and drops it.
LEMMA TakingMoves ==
  ASSUME VMInv, NEW p \in Proc, Program(p) \/ Kernel(p)
  PROVE  \/ NextMapping(p) \/ NextEntry(p) \/ DropEntry(p)
         \/ /\ pc'[p] \in Taking <=> pc[p] \in Taking
            /\ pc[p] \in Taking => cur'[p] = cur[p]
<1>0. pc \in [Proc -> Labels] /\ mode \in [Proc -> Modes]
  BY DEF VMInv, IInv, TypeOK
<1>1. pc[p] = "mm_write" => Mapped(cur[p])
  BY DEF VMInv, TableInv, ThreadInv, TakeOf, Taking
<1>2. pc[p] \in {"unpin", "install"} => mode[p] \in {"user", "io"}
  BY <1>0 DEF VMInv, TableInv, ThreadInv, ModeOf, Taking, Modes
<1>3. CASE CheckLoaded(p) \/ MmLock(p) \/ MmWrite(p) \/ GetPage(p) \/ FreePage(p) \/ UnmapPage(p)
  BY <1>0, <1>3 DEF CheckLoaded, MmLock, MmWrite, GetPage, FreePage, UnmapPage, Goto, Taking, locals
<1>4. CASE InstallPage(p) \/ InstallFails(p) \/ Unpin(p)
  BY <1>0, <1>2, <1>4 DEF InstallPage, InstallFails, Unpin, Resume, Goto, Taking
<1>5. CASE KernelFault(p)
  BY <1>0, <1>1, <1>5 DEF KernelFault, Goto, Taking
<1>6. CASE FrameStep(p) \/ \E short \in BOOLEAN : ReadFile(p, short)
  BY <1>0, <1>6 DEF FrameStep, FrameAlloc, FrameAllocFails, EvictFrame, ScanEntry, TestVictim,
    WriteBack, SwapOut, Unload, ClearPage, ReleaseFrame, Repalloc, AddFrame, ReadFile, AfterRead,
    Retry, Goto, Taking
<1>7. CASE LoadPage(p) \/ StackGrowth(p) \/ BadAddress(p) \/ SwapIn(p) \/ Undo(p)
  BY <1>0, <1>7 DEF LoadPage, StackGrowth, BadAddress, SwapIn, Undo, Kill, Goto, Taking
<1>8. CASE SysLock(p) \/ ProcessExit(p) \/ LastMapping(p) \/ PagedirDestroy(p)
           \/ \E write \in BOOLEAN : SysCopy(p, write)
  BY <1>0, <1>8 DEF SysLock, ProcessExit, LastMapping, PagedirDestroy, SysCopy, Goto, Taking
<1>9. CASE Program(p)
  BY <1>0, <1>9 DEF Program, UserAccess, UserFault, SysIO, Mmap, Munmap, Exit, Goto, Taking
<1> QED  BY <1>3, <1>4, <1>5, <1>6, <1>7, <1>8, <1>9 DEF Kernel, PageStep, TeardownStep

\* Which pages appear in and leave the address spaces.
KnownMove(p, x) ==
  \/ x \in KnownPages' <=> x \in KnownPages
  \/ InstallPage(p) /\ cur[p] \notin spt
  \/ Mmap(p)
  \/ (NextMapping(p) \/ NextEntry(p)) /\ x = cur'[p] /\ pc'[p] = "check"

LEMMA KnownMoves ==
  ASSUME VMInv, NEW p \in Proc, Program(p) \/ Kernel(p), NEW x \in Page
  PROVE  KnownMove(p, x)
<1>0. /\ TypeOK /\ pc \in [Proc -> Labels] /\ cur \in [Proc -> Page \cup {None}]
      /\ Owner[x] \in Proc /\ spt \subseteq Page
  BY VMConstants DEF VMInv, IInv, TypeOK
<1>1. CASE Owner[x] # p
  <2>1. At(x, Taking)' <=> At(x, Taking)
    BY <1>0, <1>1, OthersKept DEF SameFor, At
  <2>2. x \in spt' <=> x \in spt
    BY <1>1, SptMoves, CurPage DEF SptMove, Idle
  <2> QED  BY <2>1, <2>2 DEF KnownMove, KnownPages
<1>2. CASE Owner[x] = p
  <2>1. CASE DropEntry(p)
    <3>1. pc[p] = "drop" /\ pc'[p] = "next" /\ spt' = spt \ {cur[p]}
      BY <1>0, <2>1 DEF DropEntry, Goto
    <3>2. x \in KnownPages <=> x \in spt /\ x # cur[p]
      BY <1>2, <3>1 DEF KnownPages, At, Taking
    <3>3. x \in KnownPages' <=> x \in spt'
      BY <1>2, <3>1 DEF KnownPages, At, Taking
    <3> QED  BY <3>1, <3>2, <3>3 DEF KnownMove
  <2>2. CASE NextMapping(p) \/ NextEntry(p)
    <3>1. /\ pc[p] = "next" /\ spt' = spt
          /\ pc'[p] = "check" \/ pc'[p] = "pagedir"
      BY <1>0, <2>2 DEF NextMapping, NextEntry, Goto, pages
    <3>2. x \in KnownPages <=> x \in spt
      BY <1>2, <3>1 DEF KnownPages, At, Taking
    <3>3. (pc'[p] = "check" /\ x = cur'[p]) \/ (x \in KnownPages' <=> x \in spt')
      BY <1>2, <3>1 DEF KnownPages, At, Taking
    <3> QED  BY <2>2, <3>1, <3>2, <3>3 DEF KnownMove
  <2>3. CASE /\ pc'[p] \in Taking <=> pc[p] \in Taking
             /\ pc[p] \in Taking => cur'[p] = cur[p]
             /\ ~DropEntry(p)
    <3>1. At(x, Taking)' <=> At(x, Taking)
      BY <1>2, <2>3 DEF At
    <3>2. CASE x \in spt' <=> x \in spt
      BY <3>1, <3>2 DEF KnownMove, KnownPages
    <3>3. CASE ~(x \in spt' <=> x \in spt)
      <4>1. CASE InstallPage(p)
        <5>1. spt' = spt \cup {cur[p]}
          BY <4>1, InstallEffect
        <5>2. cur[p] \notin spt
          BY <3>3, <5>1
        <5> QED  BY <4>1, <5>2 DEF KnownMove
      <4> QED  BY <2>3, <3>3, <4>1, Writers DEF KnownMove
    <3> QED  BY <3>2, <3>3
  <2> QED  BY <2>1, <2>2, <2>3, TakingMoves
<1> QED  BY <1>1, <1>2

\* The abstract state in terms of want.
LEMMA SpaceData ==
  ASSUME Shown, Shown'
  PROVE  /\ [pg \in Page |-> Image(pg)] = [pg \in Page |-> Ideal(pg)]
         /\ [pg \in Page |-> Image(pg)]' = [pg \in Page |-> Ideal(pg)']
  BY DEF Shown

\* A store of the program, or of read into a buffer.
LEMMA StoreRefines ==
  ASSUME VMInv, Shown, Shown', NEW p \in Proc, NEW pg \in Page, Owner[pg] = p, Mapped(pg),
         pc[p] \in {"user", "copy"}, want' = [want EXCEPT ![pg] = Stored(pg)],
         KnownPages' = KnownPages
  PROVE  Space!Store(pg)
<1>0. want \in [Page -> Data]
  BY DEF VMInv, IInv, TypeOK
<1>1. pg \in KnownPages
  BY DEF VMInv, TableInv, PageInv, MapOf, KnownPages, At, Taking
<1>2. ASSUME NEW x \in Page PROVE Ideal(x)' = IF x = pg THEN Stored(pg) ELSE Ideal(x)
  BY <1>0, <1>1 DEF Ideal
<1>3. [x \in Page |-> Ideal(x)'] = [[x \in Page |-> Ideal(x)] EXCEPT ![pg] = Stored(pg)]
  BY <1>2
<1> QED  BY <1>1, <1>3, SpaceData DEF Space!Store

\* mmap shows what the file holds.
LEMMA MmapRefines ==
  ASSUME VMInv, ContentInv, Faithful, Shown, Shown', NEW p \in Proc, Mmap(p)
  PROVE  \E new \in SUBSET ({pg \in Page : Kind[pg] = "MMAP"} \ KnownPages) : Space!Map(new)
<1> DEFINE new == ToSet(Region[p])
<1>0. want \in [Page -> Data] /\ pc[p] = "user" /\ cur' = cur /\ pc' = pc
  BY DEF VMInv, IInv, TypeOK, Mmap, locals
<1>1. \A pg \in new : pg \in Page \ spt /\ Kind[pg] = "MMAP" /\ Owner[pg] = p
  BY MmapPages
<1>2. /\ spt' = spt \cup new
      /\ want' = [pg \in Page |-> IF pg \in new THEN file[pg] ELSE want[pg]]
  BY DEF Mmap
<1>3. KnownPages' = KnownPages \cup new
  BY <1>0, <1>1, <1>2 DEF KnownPages, At, Taking
<1>4. \A pg \in new : file[pg] = want[pg]
  BY <1>1 DEF ContentInv, KeptOf
<1>5. want' = want
  BY <1>0, <1>2, <1>4
<1>6. ASSUME NEW x \in Page PROVE Ideal(x)' = Ideal(x)
  BY <1>1, <1>3, <1>5 DEF Ideal
<1>7. Space!Map(new)
  BY <1>3, <1>6, SpaceData DEF Space!Map
<1> QED  BY <1>1, <1>7 DEF KnownPages

\* stack_growth's page appears when it is installed.
LEMMA GrowRefines ==
  ASSUME VMInv, Shown, Shown', NEW p \in Proc, InstallPage(p), cur[p] \notin spt
  PROVE  \E pg \in {x \in Page : Kind[x] = "STACK"} : Space!Grow(pg)
<1>0. /\ want \in [Page -> Data] /\ mem \in [Frame -> Data] /\ pc \in [Proc -> Labels]
      /\ mode \in [Proc -> Modes]
  BY DEF VMInv, IInv, TypeOK
<1>1. PICK y : y = cur[p]
  OBVIOUS
<1>2. /\ pc[p] = "install" /\ y \in Page /\ Owner[y] = p /\ frame[p] \in Frame
      /\ spt' = spt \cup {y} /\ want' = [want EXCEPT ![y] = mem[frame[p]]]
  BY <1>1, InstallEffect
<1>3. Kind[y] = "STACK" /\ mode[p] \in {"user", "io"}
  BY <1>0, <1>1, <1>2 DEF VMInv, TableInv, ThreadInv, LoadOf, Pinning, Absent, ModeOf, Taking, Modes
<1>4. cur' = cur /\ pc'[p] \notin Taking /\ \A q \in Proc \ {p} : pc'[q] = pc[q]
  BY <1>0, <1>3 DEF InstallPage, Resume, Goto, Taking
<1>5. \A x \in Page : At(x, Taking)' <=> At(x, Taking)
  BY <1>2, <1>4, VMConstants DEF At, Taking
<1>6. KnownPages' = KnownPages \cup {y} /\ y \notin KnownPages
  <2>1. y \notin spt /\ ~At(y, Taking) /\ spt \subseteq Page
    BY <1>1, <1>2 DEF At, Taking, VMInv, IInv, TypeOK
  <2> QED  BY <1>2, <1>5, <2>1 DEF KnownPages
<1>7. ASSUME NEW x \in Page PROVE Ideal(x)' = IF x = y THEN mem[frame[p]] ELSE Ideal(x)
  BY <1>0, <1>2, <1>6 DEF Ideal
<1>8. [x \in Page |-> Ideal(x)'] = [[x \in Page |-> Ideal(x)] EXCEPT ![y] = mem[frame[p]]]
  BY <1>7
<1>9. mem[frame[p]] \in Data
  BY <1>0, <1>2
<1>10. Space!Grow(y)
  BY <1>6, <1>8, <1>9, SpaceData DEF Space!Grow
<1> QED  BY <1>2, <1>3, <1>10

\* A page leaves when the teardown turns to it.
LEMMA LeaveRefines ==
  ASSUME VMInv, Shown, Shown', NEW p \in Proc, NextMapping(p) \/ NextEntry(p), pc'[p] = "check"
  PROVE  \E pg \in Page : Space!Leave(pg)
<1>0. /\ pc \in [Proc -> Labels] /\ cur \in [Proc -> Page \cup {None}] /\ spt \subseteq Page
      /\ \A q : q \in PagesOf(p) <=> q \in Page /\ Owner[q] = p
  BY DEF VMInv, IInv, TypeOK, PagesOf
<1>1. PICK y \in spt : Owner[y] = p /\ cur' = [cur EXCEPT ![p] = y]
  <2>1. CASE NextMapping(p)
    BY <2>1, HeadMapping DEF NextMapping
  <2>2. CASE NextEntry(p)
    BY <1>0, <2>2 DEF NextEntry, Goto
  <2> QED  BY <2>1, <2>2
<1>2. pc[p] = "next" /\ pc' = [pc EXCEPT ![p] = "check"] /\ spt' = spt /\ want' = want
  BY <1>0 DEF NextMapping, NextEntry, Goto, pages, contents
<1>3. \A x \in Page : At(x, Taking)' <=> At(x, Taking) \/ x = y
  BY <1>0, <1>1, <1>2, VMConstants DEF At, Taking
<1>4. ~At(y, Taking)
  BY <1>1, <1>2 DEF At, Taking
<1>5. y \in Page /\ y \in KnownPages /\ KnownPages' = KnownPages \ {y}
  BY <1>0, <1>1, <1>2, <1>3, <1>4 DEF KnownPages
<1>6. ASSUME NEW x \in Page
      PROVE  Ideal(x)' = IF x = y /\ Kind[y] # "MMAP" THEN None ELSE Ideal(x)
  BY <1>2, <1>5 DEF Ideal
<1>7. [x \in Page |-> Ideal(x)'] =
        IF y \in {x \in Page : Kind[x] = "MMAP"} THEN [x \in Page |-> Ideal(x)]
        ELSE [[x \in Page |-> Ideal(x)] EXCEPT ![y] = None]
  BY <1>5, <1>6
<1>8. Space!Leave(y)
  BY <1>5, <1>7, SpaceData DEF Space!Leave
<1> QED  BY <1>5, <1>8

\* Every other step is one that no program sees.
LEMMA SpaceStep ==
  ASSUME VMInv, ContentInv, Faithful, Shown, Shown', NEW p \in Proc, Program(p) \/ Kernel(p)
  PROVE  [Space!Next]_(Space!space_vars)
<1>1. CASE InstallPage(p) /\ cur[p] \notin spt
  BY <1>1, GrowRefines DEF Space!Next
<1>2. CASE Mmap(p)
  BY <1>2, MmapRefines DEF Space!Next
<1>3. CASE (NextMapping(p) \/ NextEntry(p)) /\ pc'[p] = "check"
  BY <1>3, LeaveRefines DEF Space!Next
<1>4. CASE /\ ~(InstallPage(p) /\ cur[p] \notin spt) /\ ~Mmap(p)
           /\ ~((NextMapping(p) \/ NextEntry(p)) /\ pc'[p] = "check")
  <2>1. KnownPages' = KnownPages
    <3>1. \A x \in Page : x \in KnownPages' <=> x \in KnownPages
      BY <1>4, KnownMoves DEF KnownMove
    <3>2. spt \subseteq Page /\ spt' \subseteq Page
      <4>1. spt \subseteq Page
        BY DEF VMInv, IInv, TypeOK
      <4>2. spt' = spt \/ InstallPage(p) \/ DropEntry(p)
        BY <1>4, Writers
      <4> QED  BY <4>1, <4>2, InstallEffect DEF DropEntry
    <3> QED  BY <3>1, <3>2 DEF KnownPages
  <2>2. CASE want' = want
    <3>1. \A x \in Page : Ideal(x)' = Ideal(x)
      BY <2>1, <2>2 DEF Ideal
    <3> QED  BY <2>1, <3>1, SpaceData DEF Space!space_vars
  <2>3. ASSUME NEW pg \in Page, NEW write \in BOOLEAN, Owner[pg] = p, Mapped(pg), Touch(pg, write),
               pc[p] \in {"user", "copy"}
        PROVE  [Space!Next]_(Space!space_vars)
    BY <2>1, <2>2, <2>3, TouchEffect, StoreRefines DEF Space!Next
  <2>4. ASSUME NEW write \in BOOLEAN, SysCopy(p, write) PROVE [Space!Next]_(Space!space_vars)
    BY <2>3, <2>4, CurPage DEF SysCopy, Idle
  <2>5. ASSUME NEW pg \in PagesOf(p), NEW write \in BOOLEAN, UserAccess(p, pg, write)
        PROVE  [Space!Next]_(Space!space_vars)
    BY <2>3, <2>5 DEF UserAccess, PagesOf
  <2>6. CASE InstallPage(p)
    BY <1>4, <2>2, <2>6, InstallEffect
  <2> QED  BY <1>4, <2>2, <2>4, <2>5, <2>6, Writers
<1> QED  BY <1>1, <1>2, <1>3, <1>4

\* Programs do not see paging, when one process runs (against any shortage of
\* frames) or there is a frame for every page: each step of the kernel is a step of
\* AddressSpace or changes nothing there.  What a page holds follows it through
\* load_file, eviction, swap_in and process_remove_mmap.
THEOREM PagingRefinesSpace ==
  ASSUME Roomy \/ Alone
  PROVE  Spec => PagingTransparent
<1>0. Faithful
  BY DEF Faithful
<1>1. Init => Space!Init
  <2> SUFFICES ASSUME Init PROVE Space!Init
    OBVIOUS
  <2>1. KnownPages = {pg \in Page : Kind[pg] \in {"FILE", "ZERO"}}
    BY VMConstants DEF Init, KnownPages, At, Taking
  <2>2. \A pg \in Page : Kind[pg] \in {"FILE", "ZERO", "MMAP", "STACK"}
    BY VMConstants DEF Kinds
  <2>3. ASSUME NEW pg \in Page
        PROVE  Image(pg) = IF pg \in {x \in Page : Kind[x] = "STACK"} THEN None
                           ELSE [x \in Page |-> IF Kind[x] = "ZERO" THEN Zeros ELSE Text(x)][pg]
    <3>1. ~InMemory(pg) /\ ~InSwap(pg)
      BY DEF Init, InMemory, InSwap, NewSpte
    <3>2. file[pg] = IF Kind[pg] = "ZERO" THEN Zeros ELSE Text(pg)
      BY DEF Init
    <3> QED  BY <2>1, <2>2, <3>1, <3>2 DEF Image
  <2>4. KnownPages = Page \ ({pg \in Page : Kind[pg] = "MMAP"} \cup {pg \in Page : Kind[pg] = "STACK"})
    BY <2>1, <2>2
  <2> QED  BY <2>3, <2>4 DEF Space!Init
<1>2. VMInv /\ ContentInv => Shown
  BY <1>0, ImageIsWant
<1>3. ASSUME VMInv, ContentInv, Shown, Shown', [Next]_vars
      PROVE  [Space!Next]_(Space!space_vars)
  <2>1. CASE UNCHANGED vars
    BY <2>1 DEF Space!space_vars, KnownPages, Image, InMemory, InSwap, At, vars, locals, pages, contents
  <2>2. CASE \E p \in Proc : Program(p) \/ Kernel(p)
    BY <1>0, <1>3, <2>2, SpaceStep
  <2> QED  BY <1>3, <2>1, <2>2 DEF Next, Terminated
<1>4. VMInv /\ ContentInv /\ Shown /\ Shown' /\ [Next]_vars => [Space!Next]_(Space!space_vars)
  BY <1>3
<1> QED
  BY <1>1, <1>2, <1>4, ContentsInductive, ApartRegimes, PTL DEF Spec, PagingTransparent, Space!Spec

-----------------------------------------------------------------------------
(***************************************************************************)
(* The kernel does not panic.                                              *)
(***************************************************************************)
\* What a step can do to file_lock, to a thread's mode and to the free frames.
LEMMA LockActs ==
  ASSUME NEW p \in Proc, Program(p) \/ Kernel(p)
  PROVE  /\ file_lock' = file_lock \/ SysLock(p) \/ MmLock(p) \/ file_lock' = None
         /\ mode' = mode \/ mode' = [mode EXCEPT ![p] = "user"] \/ Munmap(p) \/ ProcessExit(p)
              \/ LastMapping(p) \/ \E pg \in PagesOf(p) \cap Buffers : SysIO(p, pg)
         /\ user_pool' \subseteq user_pool \/ ReleaseFrame(p) \/ Undo(p) \/ FreePage(p)
              \/ PagedirDestroy(p)
<1>1. file_lock' = file_lock \/ SysLock(p) \/ MmLock(p) \/ file_lock' = None
  BY DEF Program, Kernel, FrameStep, PageStep, TeardownStep, LockFile, UnlockFile, FreeFrame,
    locks, FrameAlloc, FrameAllocFails, EvictFrame, ScanEntry, TestVictim, WriteBack, SwapOut,
    Unload, ClearPage, ReleaseFrame, Repalloc, AddFrame, LoadPage, StackGrowth, BadAddress,
    ReadFile, InstallPage, InstallFails, SwapIn, Unpin, Undo, SysCopy, KernelFault, ProcessExit,
    NextMapping, LastMapping, NextEntry, CheckLoaded, MmWrite, GetPage, FreePage, UnmapPage,
    DropEntry, PagedirDestroy, UserAccess, UserFault, SysIO, Mmap, Munmap, Exit
<1>2. mode' = mode \/ mode' = [mode EXCEPT ![p] = "user"] \/ Munmap(p) \/ ProcessExit(p)
        \/ LastMapping(p) \/ \E pg \in PagesOf(p) \cap Buffers : SysIO(p, pg)
  BY DEF Program, Kernel, FrameStep, PageStep, TeardownStep, FrameAlloc, FrameAllocFails,
    EvictFrame, ScanEntry, TestVictim, WriteBack, SwapOut, Unload, ClearPage, ReleaseFrame,
    Repalloc, AddFrame, LoadPage, StackGrowth, BadAddress, ReadFile, InstallPage, InstallFails,
    SwapIn, Unpin, Undo, SysLock, SysCopy, KernelFault, NextMapping, NextEntry, CheckLoaded,
    MmLock, MmWrite, GetPage, FreePage, UnmapPage, DropEntry, PagedirDestroy, UserAccess,
    UserFault, Mmap, Exit
<1>3. user_pool' \subseteq user_pool \/ ReleaseFrame(p) \/ Undo(p) \/ FreePage(p)
        \/ PagedirDestroy(p)
  BY DEF Program, Kernel, FrameStep, PageStep, TeardownStep, frames, TakeFrame, FrameAlloc,
    FrameAllocFails, EvictFrame, ScanEntry, TestVictim, WriteBack, SwapOut, Unload, ClearPage,
    Repalloc, AddFrame, LoadPage, StackGrowth, BadAddress, ReadFile, InstallPage, InstallFails,
    SwapIn, Unpin, SysLock, SysCopy, KernelFault, ProcessExit, NextMapping, LastMapping,
    NextEntry, CheckLoaded, MmLock, MmWrite, GetPage, UnmapPage, DropEntry, UserAccess,
    UserFault, SysIO, Mmap, Munmap, Exit
<1> QED  BY <1>1, <1>2, <1>3

\* Every panic comes from one of these.
LEMMA PanicActs ==
  ASSUME NEW p \in Proc, Program(p) \/ Kernel(p)
  PROVE  \/ panic' = panic \/ EvictFrame(p) \/ WriteBack(p) \/ SwapOut(p) \/ ClearPage(p)
         \/ LoadPage(p) \/ BadAddress(p) \/ (\E short \in BOOLEAN : ReadFile(p, short))
         \/ SwapIn(p) \/ Undo(p)
  BY DEF Program, Kernel, FrameStep, PageStep, TeardownStep, FrameAlloc, FrameAllocFails,
    ScanEntry, TestVictim, Unload, ReleaseFrame, Repalloc, AddFrame, StackGrowth, InstallPage,
    InstallFails, Unpin, SysLock, SysCopy, KernelFault, ProcessExit, NextMapping, LastMapping,
    NextEntry, CheckLoaded, MmLock, MmWrite, GetPage, FreePage, UnmapPage, DropEntry,
    PagedirDestroy, UserAccess, UserFault, SysIO, Mmap, Munmap, Exit

\* The labels at which a thread under file_lock goes on.
LEMMA LockedActs ==
  ASSUME NEW p \in Proc, Program(p) \/ Kernel(p)
  PROVE  /\ pc[p] = "sys_lock" => SysLock(p)
         /\ pc[p] = "copy" => KernelFault(p) \/ \E write \in BOOLEAN : SysCopy(p, write)
         /\ pc[p] = "mm_write" => KernelFault(p) \/ MmWrite(p)
<1>1. pc[p] = "sys_lock" => SysLock(p)
  BY DEF Program, Kernel, FrameStep, PageStep, TeardownStep, FrameAlloc, FrameAllocFails,
    EvictFrame, ScanEntry, TestVictim, WriteBack, SwapOut, Unload, ClearPage, ReleaseFrame,
    Repalloc, AddFrame, LoadPage, StackGrowth, BadAddress, ReadFile, InstallPage, InstallFails,
    SwapIn, Unpin, Undo, SysCopy, KernelFault, ProcessExit, NextMapping, LastMapping, NextEntry,
    CheckLoaded, MmLock, MmWrite, GetPage, FreePage, UnmapPage, DropEntry, PagedirDestroy,
    UserAccess, UserFault, SysIO, Mmap, Munmap, Exit
<1>2. pc[p] = "copy" => KernelFault(p) \/ \E write \in BOOLEAN : SysCopy(p, write)
  BY DEF Program, Kernel, FrameStep, PageStep, TeardownStep, FrameAlloc, FrameAllocFails,
    EvictFrame, ScanEntry, TestVictim, WriteBack, SwapOut, Unload, ClearPage, ReleaseFrame,
    Repalloc, AddFrame, LoadPage, StackGrowth, BadAddress, ReadFile, InstallPage, InstallFails,
    SwapIn, Unpin, Undo, SysLock, ProcessExit, NextMapping, LastMapping, NextEntry, CheckLoaded,
    MmLock, MmWrite, GetPage, FreePage, UnmapPage, DropEntry, PagedirDestroy, UserAccess,
    UserFault, SysIO, Mmap, Munmap, Exit
<1>3. pc[p] = "mm_write" => KernelFault(p) \/ MmWrite(p)
  BY DEF Program, Kernel, FrameStep, PageStep, TeardownStep, FrameAlloc, FrameAllocFails,
    EvictFrame, ScanEntry, TestVictim, WriteBack, SwapOut, Unload, ClearPage, ReleaseFrame,
    Repalloc, AddFrame, LoadPage, StackGrowth, BadAddress, ReadFile, InstallPage, InstallFails,
    SwapIn, Unpin, Undo, SysLock, SysCopy, ProcessExit, NextMapping, LastMapping, NextEntry,
    CheckLoaded, MmLock, GetPage, FreePage, UnmapPage, DropEntry, PagedirDestroy, UserAccess,
    UserFault, SysIO, Mmap, Munmap, Exit
<1> QED  BY <1>1, <1>2, <1>3

\* A buffer that read or write has accepted stays mapped until it is copied: no
\* eviction takes it, and the lock is free when the call returns.
LEMMA LockedOwn ==
  ASSUME VMInv, Apart, Apart', Regime, CauseInv, panic = "none", NEW p \in Proc,
         Program(p) \/ Kernel(p), Quiet
  PROVE  LockedOf(p)'
<1>0. /\ pc \in [Proc -> Labels] /\ mode \in [Proc -> Modes] /\ cur \in [Proc -> Page \cup {None}]
      /\ pagedir \in [Page -> Pte] /\ file_lock \in Proc \cup {None} /\ None \notin Proc
  BY VMConstants DEF VMInv, IInv, TypeOK
<1>1. LockedOf(p)
  BY DEF CauseInv
<1>2. ~KernelFault(p)
  <2>1. pc[p] = "copy" => Mapped(cur[p])
    BY <1>1 DEF LockedOf, VMInv, TableInv, ThreadInv, ModeOf
  <2>2. pc[p] = "mm_write" => Mapped(cur[p])
    BY DEF VMInv, TableInv, ThreadInv, TakeOf, Taking
  <2> QED  BY <2>1, <2>2 DEF KernelFault
<1>3. ASSUME mode'[p] = "io"
      PROVE  /\ Buffers # {} /\ pc'[p] \in {"sys_lock", "copy"} /\ Mapped(cur[p])'
  <2>1. CASE \E pg \in PagesOf(p) \cap Buffers : SysIO(p, pg)
    <3>1. PICK pg \in PagesOf(p) \cap Buffers : SysIO(p, pg)
      BY <2>1
    <3>2. pc[p] = "user" /\ mode[p] = "user"
      BY <3>1 DEF SysIO, VMInv, TableInv, ThreadInv, ModeOf
    <3>3. Mapped(pg)
      BY <1>0, <1>3, <3>1, <3>2 DEF SysIO
    <3>4. /\ cur' = [cur EXCEPT ![p] = pg] /\ pagedir' = pagedir
          /\ pc' = [pc EXCEPT ![p] = "sys_lock"]
      BY <3>1, <3>3 DEF SysIO, Goto, pages
    <3> QED  BY <1>0, <3>1, <3>3, <3>4 DEF Mapped
  <2>2. CASE ~\E pg \in PagesOf(p) \cap Buffers : SysIO(p, pg)
    <3>1. mode[p] = "io"
      BY <1>0, <1>3, <2>2, LockActs DEF Munmap, ProcessExit, LastMapping
    <3>2. /\ Buffers # {} /\ pc[p] \in {"sys_lock", "copy"} /\ Mapped(cur[p])
      BY <1>1, <3>1 DEF LockedOf
    <3>3. ASSUME NEW write \in BOOLEAN, SysCopy(p, write) PROVE FALSE
      BY <1>0, <1>3, <3>3 DEF SysCopy
    <3>4. SysLock(p)
      BY <1>2, <3>2, <3>3, LockedActs
    <3> QED  BY <1>0, <3>2, <3>4 DEF SysLock, Goto, locals, pages, Mapped
  <2> QED  BY <2>1, <2>2
<1>4. ASSUME file_lock' = p PROVE pc'[p] \in {"copy", "mm_write"}
  <2>1. CASE SysLock(p)
    BY <1>0, <2>1 DEF SysLock, Goto
  <2>2. CASE MmLock(p)
    BY <1>0, <2>2 DEF MmLock, Goto
  <2>3. CASE file_lock' = file_lock /\ ~SysLock(p) /\ ~MmLock(p)
    <3>1. pc[p] \in {"copy", "mm_write"}
      BY <1>1, <1>4, <2>3 DEF LockedOf
    <3>2. file_lock' = None
      BY <1>2, <3>1, LockedActs DEF SysCopy, MmWrite, UnlockFile
    <3> QED  BY <1>0, <1>4, <3>2
  <2> QED  BY <1>0, <1>4, <2>1, <2>2, <2>3, LockActs
<1> QED  BY <1>3, <1>4 DEF LockedOf

\* No step of another thread takes the buffer's frame, or hands over file_lock.
LEMMA LockedOther ==
  ASSUME VMInv, Apart, Apart', Regime, CauseInv, panic = "none", NEW p \in Proc,
         Program(p) \/ Kernel(p), Quiet, NEW q \in Proc \ {p}
  PROVE  LockedOf(q)'
<1>0. SameFor(q) /\ LockedOf(q) /\ None \notin Proc
  BY OthersKept, VMConstants DEF VMInv, IInv, CauseInv
<1>1. ASSUME file_lock' = q PROVE file_lock = q
  BY <1>0, <1>1, LockActs DEF SysLock, MmLock, LockFile
<1>2. ASSUME mode[q] = "io", Mapped(cur[q]) PROVE Mapped(cur[q])'
  <2>1. pc[q] \in {"sys_lock", "copy"} /\ Buffers # {}
    BY <1>0, <1>2 DEF LockedOf
  <2>2. cur[q] \in Page /\ Owner[cur[q]] = q
    BY <2>1, CurPage DEF Idle
  <2>3. pc[p] # "clear"
    BY <2>1 DEF Quiet, Roomy, Regime, NoEvict, Evicting, Alone
  <2>4. pc[p] \notin Idle => cur[p] # cur[q]
    BY <2>2, CurPage
  <2>5. pagedir'[cur[q]].frame = pagedir[cur[q]].frame
    BY <2>2, <2>3, <2>4, MapMoves DEF MapMove, Idle
  <2> QED  BY <1>0, <1>2, <2>5 DEF Mapped, SameFor
<1> QED  BY <1>0, <1>1, <1>2 DEF LockedOf, SameFor

\* While frame_tbl_lock is held, or about to be taken, the free frames are those
\* of the eviction under way.
LEMMA PoolStep ==
  ASSUME VMInv, Apart, Apart', Regime, CauseInv, panic = "none", NEW p \in Proc,
         Program(p) \/ Kernel(p), Calm \/ Alone
  PROVE  PoolInv'
<1> DEFINE Wanting == Evicting \cup {"evict"}
<1>0. /\ pc \in [Proc -> Labels] /\ fte \in [Proc -> Entry \cup {None}] /\ LockInv
      /\ \A q \in Proc \ {p} : SameFor(q)
  BY OthersKept DEF VMInv, IInv, TypeOK
<1> SUFFICES ASSUME NEW r \in Proc, pc'[r] \in Wanting, NEW f \in user_pool'
             PROVE  \E q \in Proc : pc'[q] = "repalloc" /\ fte'[q].frame = f
  BY DEF PoolInv
<1>1. ASSUME pc'[p] \in Wanting, pc[p] \notin Wanting PROVE FrameAllocFails(p)
  BY <1>0, <1>1 DEF Program, Kernel, FrameStep, PageStep, TeardownStep, Goto, Kill, Resume,
    AfterRead, Retry, Evicting, FrameAlloc, EvictFrame, ScanEntry, TestVictim, WriteBack, SwapOut,
    Unload, ClearPage, ReleaseFrame, Repalloc, AddFrame, LoadPage, StackGrowth, BadAddress,
    ReadFile, InstallPage, InstallFails, SwapIn, Unpin, Undo, SysLock, SysCopy, KernelFault,
    ProcessExit, NextMapping, LastMapping, NextEntry, CheckLoaded, MmLock, MmWrite, GetPage,
    FreePage, UnmapPage, DropEntry, PagedirDestroy, UserAccess, UserFault, SysIO, Mmap, Munmap,
    Exit
<1>2. \E q \in Proc : pc[q] \in Wanting
  <2>1. CASE FrameAllocFails(p)
    BY <2>1 DEF FrameAllocFails, frames
  <2> QED  BY <1>0, <1>1, <2>1 DEF SameFor
<1>3. user_pool \subseteq {fte[q].frame : q \in {s \in Proc : pc[s] = "repalloc"}}
  BY <1>2 DEF CauseInv, PoolInv
<1>4. CASE f \in user_pool
  <2>1. PICK q \in Proc : pc[q] = "repalloc" /\ fte[q].frame = f
    BY <1>3, <1>4
  <2>2. CASE q # p
    BY <1>0, <2>1, <2>2 DEF SameFor
  <2>3. CASE q = p
    <3>1. Repalloc(p)
      BY <2>1, <2>3 DEF Program, Kernel, FrameStep, PageStep, TeardownStep, FrameAlloc,
        FrameAllocFails, EvictFrame, ScanEntry, TestVictim, WriteBack, SwapOut, Unload, ClearPage,
        ReleaseFrame, AddFrame, LoadPage, StackGrowth, BadAddress, ReadFile, InstallPage,
        InstallFails, SwapIn, Unpin, Undo, SysLock, SysCopy, KernelFault, ProcessExit,
        NextMapping, LastMapping, NextEntry, CheckLoaded, MmLock, MmWrite, GetPage, FreePage,
        UnmapPage, DropEntry, PagedirDestroy, UserAccess, UserFault, SysIO, Mmap, Munmap, Exit
    <3>2. PICK g \in user_pool : TakeFrame(p, g)
      BY <1>4, <3>1 DEF Repalloc
    <3>3. PICK s \in Proc : pc[s] = "repalloc" /\ fte[s].frame = g
      BY <1>3, <3>2
    <3>4. s = p
      <4>1. frame_tbl_lock = p /\ frame_tbl_lock = s
        BY <1>0, <2>1, <2>3, <3>3 DEF LockInv, Evicting
      <4> QED  BY <4>1
    <3>5. g = f
      BY <2>1, <2>3, <3>3, <3>4
    <3> QED  BY <3>2, <3>5 DEF TakeFrame
  <2> QED  BY <2>2, <2>3
<1>5. CASE f \notin user_pool
  <2>1. CASE ReleaseFrame(p)
    <3>1. user_pool' = user_pool \cup {fte[p].frame} /\ fte' = fte /\ pc'[p] = "repalloc"
      BY <1>0, <2>1 DEF ReleaseFrame, Goto, locals
    <3> QED  BY <1>5, <3>1
  <2>2. ASSUME Undo(p) \/ FreePage(p) \/ PagedirDestroy(p) PROVE FALSE
    <3>1. pc[p] \in {"undo", "free_frame", "pagedir"}
      BY <2>2 DEF Undo, FreePage, PagedirDestroy
    <3>2. Alone
      BY <3>1 DEF Regime, NoTeardown, CalmOf, Taking
    <3>3. r = p
      BY <3>2 DEF Alone
    <3>4. ~FrameAllocFails(p)
      BY <3>1 DEF FrameAllocFails
    <3> QED  BY <1>1, <3>1, <3>3, <3>4 DEF Evicting
  <2> QED  BY <1>5, <2>1, <2>2, LockActs
<1> QED  BY <1>4, <1>5

\* Not all frames are in the hands of threads that have yet to enter them in the
\* table, so an eviction finds an entry to start from.
LEMMA TableFilled ==
  ASSUME VMInv, PoolInv, Ample, NEW p \in Proc, EvictFrame(p)
  PROVE  frame_tbl_list # <<>>
<1> SUFFICES ASSUME frame_tbl_list = <<>> PROVE FALSE
  OBVIOUS
<1>0. pc[p] = "evict" /\ \A q \in Proc : pc[q] \notin Evicting
  BY VMConstants DEF EvictFrame, TableUnlocked, VMInv, IInv, LockInv
<1>1. user_pool = {}
  BY <1>0 DEF PoolInv, Evicting
<1>2. ASSUME NEW f \in Frame PROVE \E q \in Proc \ {p} : InHand(q) = f
  <2>1. TabledFrames = {}
    BY DEF TabledFrames
  <2>2. PICK q \in Proc : InHand(q) = f
    BY <1>1, <2>1 DEF VMInv, FramePartition, HeldFrames
  <2> QED  BY <1>0, <2>2, VMConstants DEF InHand
<1> DEFINE h == [f \in Frame |-> CHOOSE q \in Proc \ {p} : InHand(q) = f]
<1>3. h \in [Frame -> Proc \ {p}] /\ \A f \in Frame : InHand(h[f]) = f
  BY <1>2
<1> HIDE DEF h
<1>4. /\ IsFiniteSet(Proc \ {p}) /\ Cardinality(Proc \ {p}) = Cardinality(Proc) - 1
      /\ Cardinality(Proc) \in Nat /\ Cardinality(Frame) \in Nat
  <2>1. IsFiniteSet(Proc) /\ IsFiniteSet(Frame)
    BY DEF Ample
  <2>2. IsFiniteSet(Proc \ {p}) /\ Cardinality(Proc \ {p}) = Cardinality(Proc) - 1
    BY ONLY <2>1, p \in Proc, FS_RemoveElement
  <2> QED  BY ONLY <2>1, <2>2, FS_CardinalityType
<1>5. PICK f, g \in Frame : f # g /\ h[f] = h[g]
  BY <1>3, <1>4, FS_PigeonHole DEF Ample
<1> QED  BY <1>3, <1>5

\* Every marked slot is that of a page that is swapped out, and the victim is
\* not, so there is a slot for it.
LEMMA SlotLeft ==
  ASSUME VMInv, ContentInv, Calm \/ Alone, NobodyEnds, Ample, NEW p \in Proc, pc[p] = "swap_out"
  PROVE  swap_map # Slot
<1> SUFFICES ASSUME swap_map = Slot PROVE FALSE
  OBVIOUS
<1> DEFINE v == fte[p].spte
           Others == {pg \in Page : Kind[pg] # "MMAP"} \ {v}
<1>1. v \in spt /\ v \in Page /\ spte[v].is_loaded /\ spte[v].type # "MMAP"
  BY VictimApart DEF VMInv, IInv, TypeOK, TableInv, ThreadInv, VictimOf, Chosen
<1>2. Kind[v] # "MMAP"
  BY <1>1 DEF VMInv, TableInv, PageInv, TypeOf
<1>3. ~SwappedOut(v)
  <2> SUFFICES ASSUME SwappedOut(v) PROVE FALSE
    OBVIOUS
  <2>1. PICK q \in Proc : pc[q] = "unload"
    BY <1>1 DEF SwappedOut
  <2>2. frame_tbl_lock = p /\ frame_tbl_lock = q
    BY <2>1 DEF VMInv, IInv, LockInv, Evicting
  <2> QED  BY <2>1, <2>2
<1>4. ASSUME NEW s \in Slot
      PROVE  \E pg \in Others : SwappedOut(pg) /\ spte[pg].swap_index = s
  <2>1. PICK pg \in Page : SwappedOut(pg) /\ spte[pg].swap_index = s
    BY <1>4 DEF ContentInv, SlotsInv
  <2>2. Kind[pg] # "MMAP"
    BY <2>1 DEF SwappedOut, VMInv, TableInv, PageInv, TypeOf
  <2> QED  BY <1>3, <2>1, <2>2
<1> HIDE DEF v
<1> DEFINE h == [s \in Slot |-> CHOOSE pg \in Others : SwappedOut(pg) /\ spte[pg].swap_index = s]
<1>5. h \in [Slot -> Others] /\ \A s \in Slot : spte[h[s]].swap_index = s
  BY <1>4
<1> HIDE DEF h
<1>6. IsFiniteSet({pg \in Page : Kind[pg] # "MMAP"})
  BY FS_Subset DEF Ample
<1>7. /\ IsFiniteSet(Others) /\ Cardinality(Others) = Cardinality({pg \in Page : Kind[pg] # "MMAP"}) - 1
      /\ Cardinality({pg \in Page : Kind[pg] # "MMAP"}) \in Nat /\ Cardinality(Slot) \in Nat
  <2>1. PICK all : all = {pg \in Page : Kind[pg] # "MMAP"}
    OBVIOUS
  <2>2. v \in all /\ IsFiniteSet(all)
    BY <1>1, <1>2, <1>6, <2>1 DEF v
  <2>3. IsFiniteSet(all \ {v}) /\ Cardinality(all \ {v}) = Cardinality(all) - 1
    BY ONLY <2>2, FS_RemoveElement
  <2>4. Cardinality(all) \in Nat
    BY ONLY <2>2, FS_CardinalityType
  <2>5. Cardinality(Slot) \in Nat
    BY FS_CardinalityType DEF Ample
  <2> QED  BY ONLY <2>1, <2>3, <2>4, <2>5 DEF Others
<1>8. PICK s, t \in Slot : s # t /\ h[s] = h[t]
  <2>1. Cardinality(Others) < Cardinality(Slot)
    BY <1>7 DEF Ample
  <2> HIDE DEF Others
  <2> QED  BY <1>5, <1>7, <2>1, FS_PigeonHole DEF Ample
<1> QED  BY <1>5, <1>8

\* A step from a state with the invariants does not panic, cause by cause.
LEMMA NoPanicStep ==
  ASSUME VMInv, Regime, ContentInv, CauseInv, Provided, panic = "none", NEW p \in Proc,
         Program(p) \/ Kernel(p)
  PROVE  panic' = "none"
<1>0. /\ Quiet /\ LockedOf(p) /\ ModeOf(p) /\ LoadOf(p) /\ VictimOf(p)
      /\ mode \in [Proc -> Modes] /\ cur \in [Proc -> Page \cup {None}]
  BY DEF Provided, Quiet, CauseInv, VMInv, IInv, TypeOK, TableInv, ThreadInv
<1>1. ~Roomy => Ample /\ (Calm \/ Alone)
  BY DEF Provided
<1>2. ASSUME pc[p] \in {"fault", "undo"} PROVE mode[p] = "user"
  BY <1>0, <1>2 DEF LockedOf, ModeOf, Taking, Modes
<1>3. CASE EvictFrame(p)
  <2>1. ~Roomy
    BY <1>3 DEF EvictFrame, Regime, NoEvict
  <2> QED  BY <1>1, <1>3, <2>1, TableFilled DEF EvictFrame, CauseInv
<1>4. CASE WriteBack(p)
  BY <1>0, <1>4 DEF WriteBack, LockedOf
<1>5. CASE SwapOut(p)
  <2>1. pc[p] = "swap_out"
    BY <1>5 DEF SwapOut
  <2>2. ~Roomy
    BY <2>1 DEF Regime, NoEvict, Evicting
  <2>3. NobodyEnds
    <3>1. mode[p] # "destroy"
      BY <1>0, <2>1 DEF ModeOf, Taking
    <3>2. Calm => NobodyEnds
      BY DEF Regime, NoTeardown, CalmOf, NobodyEnds, VMInv, TableInv, ThreadInv, ModeOf
    <3>3. Alone => NobodyEnds
      BY <3>1 DEF Alone, NobodyEnds
    <3> QED  BY <1>1, <2>2, <3>2, <3>3
  <2>4. swap_map # Slot
    BY <1>1, <2>1, <2>2, <2>3, SlotLeft
  <2> QED  BY <1>5, <2>4 DEF SwapOut
<1>6. CASE ClearPage(p)
  BY <1>0, <1>6 DEF ClearPage, LiveSpte, VictimOf
<1>7. CASE LoadPage(p)
  BY <1>2, <1>7 DEF LoadPage, Kill
<1>8. CASE BadAddress(p)
  BY <1>2, <1>8 DEF BadAddress, Kill
<1>9. ASSUME NEW short \in BOOLEAN, ReadFile(p, short) PROVE panic' = "none"
  BY <1>0, <1>9 DEF ReadFile, LockedOf
<1>10. CASE SwapIn(p)
  BY <1>10, SwapInEffect
<1>11. CASE Undo(p)
  BY <1>2, <1>11 DEF Undo, Kill
<1> QED  BY <1>3, <1>4, <1>5, <1>6, <1>7, <1>8, <1>9, <1>10, <1>11, PanicActs

\* What excludes the causes is kept by every step.
LEMMA CauseStep ==
  ASSUME VMInv, Apart, Apart', Regime, CauseInv, panic = "none", NEW p \in Proc,
         Program(p) \/ Kernel(p)
  PROVE  CauseInv'
<1>1. Quiet => \A q \in Proc : LockedOf(q)'
  BY LockedOwn, LockedOther
<1>2. Calm \/ Alone => PoolInv'
  BY PoolStep
<1> QED  BY <1>1, <1>2 DEF CauseInv, Quiet, Roomy, Alone, Calm

\* The kernel neither asserts nor panics: evict_frame never starts from an empty
\* table, no thread takes file_lock twice, no freed entry is used, swap_in finds
\* its slot in use, swap_out finds a free one, and no fault in kernel mode stays
\* unresolved.
THEOREM KernelNeverPanics ==
  ASSUME Provided
  PROVE  Spec => []NoPanic
<1>1. Init => CauseInv /\ NoPanic
  <2> SUFFICES ASSUME Init PROVE CauseInv /\ NoPanic
    OBVIOUS
  <2>1. \A q \in Proc : mode[q] = "user" /\ file_lock # q /\ pc[q] = "user"
    BY VMConstants DEF Init
  <2> QED  BY <2>1 DEF CauseInv, LockedOf, PoolInv, Evicting, NoPanic, Init
<1>2. ASSUME VMInv, Apart, Apart', Regime, ContentInv, CauseInv, NoPanic, [Next]_vars
      PROVE  (CauseInv /\ NoPanic)'
  <2>1. CASE UNCHANGED vars
    BY <1>2, <2>1 DEF CauseInv, LockedOf, PoolInv, Mapped, NoPanic, vars, locals, locks, frames,
      pages
  <2>2. CASE \E p \in Proc : Program(p) \/ Kernel(p)
    BY <1>2, <2>2, CauseStep, NoPanicStep DEF NoPanic
  <2> QED  BY <1>2, <2>1, <2>2 DEF Next, Terminated
<1>3. VMInv /\ Apart /\ Apart' /\ Regime /\ ContentInv /\ CauseInv /\ NoPanic /\ [Next]_vars
        => (CauseInv /\ NoPanic)'
  BY <1>2
<1>4. Spec => []Apart
  BY ApartRegimes DEF Provided
<1> QED  BY <1>1, <1>3, <1>4, ContentsInductive, PTL DEF Spec
=============================================================================
