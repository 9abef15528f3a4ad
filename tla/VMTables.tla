------------------------------ MODULE VMTables ------------------------------
(***************************************************************************)
(* The page directories, the supplemental page tables and the frame table  *)
(* agree, for any number of processes, pages, frames and slots, as long as *)
(* no teardown overlaps an eviction (Apart); and three regimes in which    *)
(* they never do.                                                          *)
(*                                                                         *)
(* The order: facts about one state; what a step does to the thread that   *)
(* takes it, one lemma per conjunct of ThreadInv; to the frame table; to   *)
(* the other threads; to a page, one lemma per conjunct of PageInv; the    *)
(* theorems.  A lemma about a step has one step per action, and an action  *)
(* that changes the conjunct has first the facts about what it changes.    *)
(***************************************************************************)
EXTENDS VMInvariants, VMProofs, FiniteSetTheorems

\* The inductive invariant: that of VMProofs, with the frame partition now
\* unconditional, and that of the tables.
VMInv == IInv /\ FramePartition /\ TableInv


\* Facts about the page a thread works on.
LEMMA CurPage ==
  ASSUME VMInv, NEW p \in Proc, pc[p] \notin Idle
  PROVE  cur[p] \in Page /\ Owner[cur[p]] = p
  BY DEF VMInv, IInv, LocalsInv, LocalsOf, TableInv, ThreadInv, CurOf

\* The entry under evict_frame's hand.
LEMMA HandEntry ==
  ASSUME VMInv, panic = "none", NEW p \in Proc, pc[p] \in {"scan"} \cup Chosen
  PROVE  /\ hand[p] \in 1..Len(frame_tbl_list) /\ frame_tbl_list[hand[p]] \in Entry
         /\ frame_tbl_list[hand[p]] \in Entries
         /\ pc[p] \in Chosen => fte[p] = frame_tbl_list[hand[p]]
<1>1. hand[p] \in 1..Len(frame_tbl_list) /\ (pc[p] \in Chosen => fte[p] = frame_tbl_list[hand[p]])
  BY DEF VMInv, IInv, HandInv, HandOf
<1>2. frame_tbl_list \in Seq(Entry)
  BY DEF VMInv, IInv, TypeOK
<1> QED  BY <1>1, <1>2 DEF Entries

\* The victim of an eviction is no page that a thread is loading.
LEMMA VictimApart ==
  ASSUME VMInv, NEW p \in Proc, panic = "none", pc[p] \in Chosen \cup {"clear"}
  PROVE  /\ fte[p] \in Entry /\ fte[p].spte \in Page
         /\ \A q \in Proc : pc[q] \in Absent \cup {"swap_in", "unpin"} => cur[q] # fte[p].spte
<1>1. fte[p] \in Entry
  <2>1. CASE pc[p] = "clear"
    BY <2>1 DEF VMInv, IInv, LocalsInv, LocalsOf
  <2>2. CASE pc[p] \in Chosen
    BY <2>2, HandEntry
  <2> QED  BY <2>1, <2>2
<1>2. Mapped(fte[p].spte) /\ ~spte[fte[p].spte].pinned
  BY DEF VMInv, TableInv, ThreadInv, VictimOf
<1>3. ASSUME NEW q \in Proc, pc[q] \in Absent \cup {"swap_in", "unpin"}
      PROVE  ~Mapped(cur[q]) \/ spte[cur[q]].pinned
  BY <1>3 DEF VMInv, TableInv, ThreadInv, LoadOf, Pinning
<1> QED  BY <1>1, <1>2, <1>3 DEF Entry

\* swap_out changes the victim's entry only, and in two fields.
LEMMA SwapOutEffect ==
  ASSUME VMInv, panic = "none", NEW p \in Proc, SwapOut(p)
  PROVE  /\ \A pg \in Page \ {fte[p].spte} : spte'[pg] = spte[pg]
         /\ spte'[fte[p].spte].pinned = spte[fte[p].spte].pinned
         /\ spte'[fte[p].spte].is_loaded = spte[fte[p].spte].is_loaded
         /\ spte'[fte[p].spte].type \in {"SWAP", spte[fte[p].spte].type}
<1>0. spte \in [Page -> Spte]
  BY DEF VMInv, IInv, TypeOK
<1>1. fte[p].spte \in Page
  BY VictimApart DEF SwapOut, Chosen
<1>2. CASE swap_map = Slot
  BY <1>2 DEF SwapOut
<1>3. CASE swap_map # Slot
  <2>1. PICK s \in Slot \ swap_map :
             spte' = [spte EXCEPT ![fte[p].spte].type = "SWAP", ![fte[p].spte].swap_index = s]
    BY <1>3 DEF SwapOut, SwappedTo
  <2> DEFINE v == fte[p].spte
  <2> HIDE DEF v
  <2>2. spte' = [spte EXCEPT ![v].type = "SWAP", ![v].swap_index = s] /\ v \in Page
    BY <1>1, <2>1 DEF v
  <2>3. /\ \A pg \in Page \ {v} : spte'[pg] = spte[pg]
        /\ spte'[v].pinned = spte[v].pinned
        /\ spte'[v].is_loaded = spte[v].is_loaded
        /\ spte'[v].type = "SWAP"
    BY ONLY <1>0, <2>2 DEF Spte
  <2> QED  BY <2>3 DEF v
<1> QED  BY <1>2, <1>3

\* A page that is taken down is mapped as long as it is marked as loaded.
LEMMA TakenPage ==
  ASSUME VMInv, Apart, NEW p \in Proc, pc[p] \in Taking
  PROVE  /\ cur[p] \in spt
         /\ spte[cur[p]].is_loaded /\ pc[p] # "drop" => Mapped(cur[p])
         /\ ~spte[cur[p]].is_loaded => ~Mapped(cur[p])
<1>1. cur[p] \in Page /\ Owner[cur[p]] = p
  BY CurPage DEF Taking, Idle
<1>2. cur[p] \in spt
  BY DEF VMInv, TableInv, ThreadInv, TakeOf
<1>3. ~Leaving(cur[p])
  BY DEF Leaving, Apart, Evicting
<1>4. ASSUME spte[cur[p]].is_loaded, pc[p] # "drop" PROVE Mapped(cur[p])
  BY <1>1, <1>2, <1>4 DEF VMInv, TableInv, PageInv, LoadedOf, At
<1>5. ASSUME ~spte[cur[p]].is_loaded PROVE ~Mapped(cur[p])
  BY <1>1, <1>3, <1>5 DEF VMInv, TableInv, PageInv, MapOf, At, Taking
<1> QED  BY <1>2, <1>4, <1>5

\* mmap starts from a table without mapped pages.
LEMMA RegionFacts ==
  ASSUME NEW p \in Proc
  PROVE  /\ Region[p] \in Seq(Page)
         /\ \A i, j \in DOMAIN Region[p] : Region[p][i] = Region[p][j] => i = j
         /\ \A pg \in Page : Owner[pg] = p /\ Kind[pg] = "MMAP"
                          <=> \E i \in DOMAIN Region[p] : Region[p][i] = pg
         /\ \A i \in DOMAIN Region[p] : Owner[Region[p][i]] = p
         /\ \A pg : pg \in ToSet(Region[p]) <=> pg \in Page /\ Owner[pg] = p /\ Kind[pg] = "MMAP"
<1>1. Region[p] \in Seq(Page) /\ IsInjective(Region[p])
  BY VMConstants
<1>2. {Region[p][i] : i \in DOMAIN Region[p]} = {pg \in Page : Owner[pg] = p /\ Kind[pg] = "MMAP"}
  BY VMConstants DEF ToSet
<1> QED  BY <1>1, <1>2, VMConstants DEF IsInjective

\* The first of the mapped pages.
LEMMA HeadMapping ==
  ASSUME VMInv, NEW p \in Proc, mmap_list[p] # <<>>
  PROVE  /\ Head(mmap_list[p]) \in spt /\ Owner[Head(mmap_list[p])] = p
         /\ Kind[Head(mmap_list[p])] = "MMAP"
<1>1. mmap_list[p] \in Seq(Page) /\ MmapOf(p)
  BY DEF VMInv, IInv, TypeOK, TableInv, ThreadInv
<1>2. 1 \in DOMAIN mmap_list[p] /\ Head(mmap_list[p]) = mmap_list[p][1] /\ mmap_list[p][1] \in Page
  BY <1>1
<1> QED  BY <1>1, <1>2 DEF MmapOf, PagesOf

\* The page a thread turns to is its own.
LEMMA CurMove ==
  ASSUME VMInv, Apart, Apart', panic = "none", NEW p \in Proc, Program(p) \/ Kernel(p)
  PROVE  CurOf(p)'
<1>0. /\ pc \in [Proc -> Labels] /\ cur \in [Proc -> Page \cup {None}]
  BY DEF VMInv, IInv, TypeOK
<1>c. CurOf(p)
  BY DEF VMInv, TableInv, ThreadInv
<1>1. CASE FrameAlloc(p)
  BY <1>1, <1>0, <1>c DEF FrameAlloc, Goto, TakeFrame, CurOf, Idle, locals
<1>2. CASE FrameAllocFails(p)
  BY <1>2, <1>0, <1>c DEF FrameAllocFails, Goto, CurOf, Idle, locals
<1>3. CASE EvictFrame(p)
  BY <1>3, <1>0, <1>c DEF EvictFrame, Goto, CurOf, Idle, locals
<1>4. CASE ScanEntry(p)
  BY <1>4, <1>0, <1>c DEF ScanEntry, Goto, CurOf, Idle, locals
<1>5. CASE TestVictim(p)
  BY <1>5, <1>0, <1>c DEF TestVictim, Goto, CurOf, Idle, locals
<1>6. CASE WriteBack(p)
  BY <1>6, <1>0, <1>c DEF WriteBack, Goto, CurOf, Idle, locals
<1>7. CASE SwapOut(p)
  BY <1>7, <1>0, <1>c DEF SwapOut, Goto, CurOf, Idle, locals
<1>8. CASE Unload(p)
  BY <1>8, <1>0, <1>c DEF Unload, Goto, CurOf, Idle, locals
<1>9. CASE ClearPage(p)
  BY <1>9, <1>0, <1>c DEF ClearPage, Goto, CurOf, Idle, locals
<1>10. CASE ReleaseFrame(p)
  BY <1>10, <1>0, <1>c DEF ReleaseFrame, Goto, CurOf, Idle, locals
<1>11. CASE Repalloc(p)
  BY <1>11, <1>0, <1>c DEF Repalloc, Goto, Retry, TakeFrame, CurOf, Idle, locals
<1>12. CASE AddFrame(p)
  BY <1>12, <1>0, <1>c DEF AddFrame, Goto, CurOf, Idle, locals
<1>13. CASE LoadPage(p)
  BY <1>13, <1>0, <1>c DEF LoadPage, Goto, Kill, CurOf, Idle, locals
<1>14. CASE StackGrowth(p)
  BY <1>14, <1>0, <1>c DEF StackGrowth, Goto, CurOf, Idle, locals
<1>15. CASE BadAddress(p)
  BY <1>15, <1>0, <1>c DEF BadAddress, Goto, Kill, CurOf, Idle, locals
<1>16. ASSUME NEW short \in BOOLEAN, ReadFile(p, short) PROVE CurOf(p)'
  BY <1>16, <1>0, <1>c DEF ReadFile, Goto, AfterRead, CurOf, Idle, locals
<1>16f. CASE InstallFails(p)
  BY <1>16f, <1>0, <1>c DEF InstallFails, Goto, CurOf, Idle, locals
<1>17. CASE InstallPage(p)
  BY <1>17, <1>0, <1>c DEF InstallPage, Goto, Resume, CurOf, Idle, locals
<1>18. CASE SwapIn(p)
  BY <1>18, <1>0, <1>c DEF SwapIn, Goto, CurOf, Idle, locals
<1>19. CASE Unpin(p)
  BY <1>19, <1>0, <1>c DEF Unpin, Goto, Resume, CurOf, Idle, locals
<1>20. CASE Undo(p)
  BY <1>20, <1>0, <1>c DEF Undo, Goto, Kill, CurOf, Idle, locals
<1>21. CASE SysLock(p)
  BY <1>21, <1>0, <1>c DEF SysLock, Goto, CurOf, Idle, locals
<1>22. ASSUME NEW write \in BOOLEAN, SysCopy(p, write) PROVE CurOf(p)'
  BY <1>22, <1>0, <1>c DEF SysCopy, Goto, CurOf, Idle, locals
<1>23. CASE KernelFault(p)
  BY <1>23, <1>0, <1>c DEF KernelFault, Goto, CurOf, Idle, locals
<1>24. CASE ProcessExit(p)
  BY <1>24, <1>0, <1>c DEF ProcessExit, Goto, CurOf, Idle, locals
<1>25. CASE NextMapping(p)
  BY <1>25, <1>0, <1>c, HeadMapping DEF NextMapping, Goto, CurOf, Idle, locals
<1>26. CASE LastMapping(p)
  BY <1>26, <1>0, <1>c DEF LastMapping, Goto, CurOf, Idle, locals
<1>27. CASE NextEntry(p)
  BY <1>27, <1>0, <1>c DEF NextEntry, Goto, PagesOf, CurOf, Idle, locals
<1>28. CASE CheckLoaded(p)
  BY <1>28, <1>0, <1>c DEF CheckLoaded, Goto, HasFrame, CurOf, Idle, locals
<1>29. CASE MmLock(p)
  BY <1>29, <1>0, <1>c DEF MmLock, Goto, CurOf, Idle, locals
<1>30. CASE MmWrite(p)
  BY <1>30, <1>0, <1>c DEF MmWrite, Goto, CurOf, Idle, locals
<1>31. CASE GetPage(p)
  BY <1>31, <1>0, <1>c DEF GetPage, Goto, CurOf, Idle, locals
<1>32. CASE FreePage(p)
  BY <1>32, <1>0, <1>c DEF FreePage, Goto, CurOf, Idle, locals
<1>33. CASE UnmapPage(p)
  BY <1>33, <1>0, <1>c DEF UnmapPage, Goto, CurOf, Idle, locals
<1>34. CASE DropEntry(p)
  BY <1>34, <1>0, <1>c DEF DropEntry, Goto, CurOf, Idle, locals
<1>35. CASE PagedirDestroy(p)
  BY <1>35, <1>0, <1>c DEF PagedirDestroy, Goto, CurOf, Idle, locals
<1>36. ASSUME NEW pg \in PagesOf(p), NEW write \in BOOLEAN, UserAccess(p, pg, write)
       PROVE CurOf(p)'
  BY <1>36, <1>0, <1>c DEF UserAccess, CurOf, Idle, locals
<1>37. ASSUME NEW pg \in PagesOf(p), UserFault(p, pg), Known(pg) \/ "exit" \in Calls
       PROVE CurOf(p)'
  BY <1>37, <1>0, <1>c DEF UserFault, Goto, PagesOf, CurOf, Idle, locals
<1>38. ASSUME NEW pg \in PagesOf(p), SysIO(p, pg) PROVE CurOf(p)'
  BY <1>38, <1>0, <1>c DEF SysIO, Goto, PagesOf, CurOf, Idle, locals
<1>39. CASE Mmap(p)
  BY <1>39, <1>0, <1>c DEF Mmap, CurOf, Idle, locals
<1>40. CASE Munmap(p)
  BY <1>40, <1>0, <1>c DEF Munmap, Goto, CurOf, Idle, locals
<1>41. CASE Exit(p)
  BY <1>41, <1>0, <1>c DEF Exit, Goto, CurOf, Idle, locals
<1> QED  BY <1>1, <1>2, <1>3, <1>4, <1>5, <1>6, <1>7, <1>8, <1>9, <1>10, <1>11, <1>12, <1>13,
  <1>14, <1>15,
  <1>16, <1>16f, <1>17, <1>18, <1>19, <1>20, <1>21, <1>22, <1>23, <1>24, <1>25, <1>26, <1>27, <1>28,
  <1>29, <1>30, <1>31, <1>32, <1>33, <1>34, <1>35, <1>36, <1>37, <1>38, <1>39, <1>40, <1>41 DEF
  Program, Kernel, FrameStep, PageStep, TeardownStep

\* A thread's mode goes with the path it is on.
LEMMA ModeMove ==
  ASSUME VMInv, Apart, Apart', panic = "none", NEW p \in Proc, Program(p) \/ Kernel(p)
  PROVE  ModeOf(p)'
<1>0. /\ pc \in [Proc -> Labels] /\ mode \in [Proc -> Modes]
      /\ cur \in [Proc -> Page \cup {None}] /\ mmap_list \in [Proc -> Seq(Page)]
  BY DEF VMInv, IInv, TypeOK
<1>m. ModeOf(p)
  BY DEF VMInv, TableInv, ThreadInv
<1>k. TakeOf(p)
  BY DEF VMInv, TableInv, ThreadInv
<1>l. LocalsOf(p)
  BY DEF VMInv, TableInv, ThreadInv, IInv, LocalsInv
<1>1. CASE FrameAlloc(p)
  BY <1>1, <1>0, <1>m DEF FrameAlloc, Goto, TakeFrame, ModeOf, Taking, locals, pages
<1>2. CASE FrameAllocFails(p)
  BY <1>2, <1>0, <1>m DEF FrameAllocFails, Goto, ModeOf, Taking, locals, pages
<1>3. CASE EvictFrame(p)
  BY <1>3, <1>0, <1>m DEF EvictFrame, Goto, ModeOf, Taking, locals, pages
<1>4. CASE ScanEntry(p)
  BY <1>4, <1>0, <1>m DEF ScanEntry, Goto, ModeOf, Taking, locals, pages
<1>5. CASE TestVictim(p)
  BY <1>5, <1>0, <1>m DEF TestVictim, Goto, ModeOf, Taking, locals, pages
<1>6. CASE WriteBack(p)
  BY <1>6, <1>0, <1>m DEF WriteBack, Goto, ModeOf, Taking, locals, pages
<1>7. CASE SwapOut(p)
  BY <1>7, <1>0, <1>m DEF SwapOut, Goto, ModeOf, Taking, locals, pages
<1>8. CASE Unload(p)
  BY <1>8, <1>0, <1>m DEF Unload, Goto, ModeOf, Taking, locals, pages
<1>9. CASE ClearPage(p)
  BY <1>9, <1>0, <1>m DEF ClearPage, Goto, ModeOf, Taking, locals, pages
<1>10. CASE ReleaseFrame(p)
  BY <1>10, <1>0, <1>m DEF ReleaseFrame, Goto, ModeOf, Taking, locals, pages
<1>11. CASE Repalloc(p)
  BY <1>11, <1>0, <1>m DEF Repalloc, Goto, Retry, TakeFrame, ModeOf, Taking, locals, pages
<1>12. CASE AddFrame(p)
  BY <1>12, <1>0, <1>m DEF AddFrame, Goto, ModeOf, Taking, locals, pages
<1>13. CASE LoadPage(p)
  BY <1>13, <1>0, <1>m DEF LoadPage, Goto, Kill, ModeOf, Taking, locals, pages
<1>14. CASE StackGrowth(p)
  BY <1>14, <1>0, <1>m DEF StackGrowth, Goto, ModeOf, Taking, locals, pages
<1>15. CASE BadAddress(p)
  BY <1>15, <1>0, <1>m DEF BadAddress, Goto, Kill, ModeOf, Taking, locals, pages
<1>16. ASSUME NEW short \in BOOLEAN, ReadFile(p, short) PROVE ModeOf(p)'
  BY <1>16, <1>0, <1>m DEF ReadFile, Goto, AfterRead, ModeOf, Taking, locals, pages
<1>16f. CASE InstallFails(p)
  BY <1>16f, <1>0, <1>m DEF InstallFails, Goto, ModeOf, Taking, locals, pages
<1>17. CASE InstallPage(p)
  BY <1>17, <1>0, <1>m DEF InstallPage, Goto, Resume, ModeOf, Taking, locals, pages
<1>18. CASE SwapIn(p)
  BY <1>18, <1>0, <1>m DEF SwapIn, Goto, ModeOf, Taking, locals, pages
<1>19. CASE Unpin(p)
  BY <1>19, <1>0, <1>m DEF Unpin, Goto, Resume, ModeOf, Taking, locals, pages
<1>20. CASE Undo(p)
  BY <1>20, <1>0, <1>m DEF Undo, Goto, Kill, ModeOf, Taking, locals, pages
<1>21. CASE SysLock(p)
  BY <1>21, <1>0, <1>m DEF SysLock, Goto, ModeOf, Taking, locals, pages
<1>22. ASSUME NEW write \in BOOLEAN, SysCopy(p, write) PROVE ModeOf(p)'
  BY <1>22, <1>0, <1>m DEF SysCopy, Goto, ModeOf, Taking, locals, pages
<1>23. CASE KernelFault(p)
  BY <1>23, <1>0, <1>m, <1>k DEF KernelFault, Goto, TakeOf, ModeOf, Taking, locals, pages
<1>24. CASE ProcessExit(p)
  BY <1>24, <1>0, <1>m DEF ProcessExit, Goto, ModeOf, Taking, locals, pages
<1>25. CASE NextMapping(p)
  BY <1>25, <1>0, <1>m DEF NextMapping, Goto, ModeOf, Taking, locals, pages
<1>26. CASE LastMapping(p)
  BY <1>26, <1>0, <1>m DEF LastMapping, Goto, ModeOf, Taking, locals, pages
<1>27. CASE NextEntry(p)
  BY <1>27, <1>0, <1>m DEF NextEntry, Goto, ModeOf, Taking, locals, pages
<1>28. CASE CheckLoaded(p)
  BY <1>28, <1>0, <1>m DEF CheckLoaded, Goto, HasFrame, ModeOf, Taking, locals, pages
<1>29. CASE MmLock(p)
  BY <1>29, <1>0, <1>m DEF MmLock, Goto, ModeOf, Taking, locals, pages
<1>30. CASE MmWrite(p)
  BY <1>30, <1>0, <1>m DEF MmWrite, Goto, ModeOf, Taking, locals, pages
<1>31. CASE GetPage(p)
  BY <1>31, <1>0, <1>m DEF GetPage, Goto, ModeOf, Taking, locals, pages
<1>32. CASE FreePage(p)
  BY <1>32, <1>0, <1>m DEF FreePage, Goto, ModeOf, Taking, locals, pages
<1>33. CASE UnmapPage(p)
  BY <1>33, <1>0, <1>m DEF UnmapPage, Goto, ModeOf, Taking, locals, pages
<1>34. CASE DropEntry(p)
  BY <1>34, <1>0, <1>m DEF DropEntry, Goto, ModeOf, Taking, locals, pages
<1>35. CASE PagedirDestroy(p)
  BY <1>35, <1>0, <1>m DEF PagedirDestroy, Goto, ModeOf, Taking, locals, pages
<1>36. ASSUME NEW pg \in PagesOf(p), NEW write \in BOOLEAN, UserAccess(p, pg, write)
       PROVE ModeOf(p)'
  BY <1>36, <1>0, <1>m DEF UserAccess, ModeOf, Taking, locals, pages
<1>37. ASSUME NEW pg \in PagesOf(p), UserFault(p, pg), Known(pg) \/ "exit" \in Calls
       PROVE ModeOf(p)'
  BY <1>37, <1>0, <1>m DEF UserFault, Goto, ModeOf, Taking, locals, pages
<1>38. ASSUME NEW pg \in PagesOf(p), SysIO(p, pg) PROVE ModeOf(p)'
  BY <1>38, <1>0, <1>m DEF SysIO, Goto, ModeOf, Taking, locals, pages
<1>39. CASE Mmap(p)
  BY <1>39, <1>0, <1>m DEF Mmap, ModeOf, Taking, locals, pages
<1>40. CASE Munmap(p)
  BY <1>40, <1>0, <1>m DEF Munmap, Goto, ModeOf, Taking, locals, pages
<1>41. CASE Exit(p)
  BY <1>41, <1>0, <1>m DEF Exit, Goto, ModeOf, Taking, locals, pages
<1> QED  BY <1>1, <1>2, <1>3, <1>4, <1>5, <1>6, <1>7, <1>8, <1>9, <1>10, <1>11, <1>12, <1>13,
  <1>14, <1>15,
  <1>16, <1>16f, <1>17, <1>18, <1>19, <1>20, <1>21, <1>22, <1>23, <1>24, <1>25, <1>26, <1>27, <1>28,
  <1>29, <1>30, <1>31, <1>32, <1>33, <1>34, <1>35, <1>36, <1>37, <1>38, <1>39, <1>40, <1>41 DEF
  Program, Kernel, FrameStep, PageStep, TeardownStep

\* What the labels of a load say of the page that is loaded.
LEMMA LoadMove ==
  ASSUME VMInv, Apart, Apart', panic = "none", NEW p \in Proc, Program(p) \/ Kernel(p)
  PROVE  LoadOf(p)'
<1>0. /\ pc \in [Proc -> Labels] /\ cur \in [Proc -> Page \cup {None}]
      /\ pagedir \in [Page -> Pte] /\ spte \in [Page -> Spte] /\ spt \subseteq Page
  BY DEF VMInv, IInv, TypeOK
<1>d. LoadOf(p)
  BY DEF VMInv, TableInv, ThreadInv
<1>l. LocalsOf(p)
  BY DEF VMInv, TableInv, ThreadInv, IInv, LocalsInv
<1>m. ModeOf(p)
  BY DEF VMInv, TableInv, ThreadInv
<1>1. CASE FrameAlloc(p)
  BY <1>1, <1>0, <1>d, <1>l DEF FrameAlloc, Goto, TakeFrame, LoadOf, LocalsOf, Idle, Absent,
    Pinning, Mapped, locals, pages
<1>2. CASE FrameAllocFails(p)
  BY <1>2, <1>0, <1>d, <1>l DEF FrameAllocFails, Goto, LoadOf, LocalsOf, Idle, Absent, Pinning,
    Mapped, locals, pages
<1>3. CASE EvictFrame(p)
  BY <1>3, <1>0, <1>d, <1>l DEF EvictFrame, Goto, LoadOf, LocalsOf, Idle, Absent, Pinning, Mapped,
    locals, pages
<1>4. CASE ScanEntry(p)
  <2>1. \A pg \in Page : pagedir'[pg].frame = pagedir[pg].frame
    BY <1>4, <1>0, HandEntry DEF ScanEntry, ClearAccessed, Entry, Pte
  <2>2. cur[p] \in Page
    BY <1>4, CurPage DEF ScanEntry, Idle
  <2>3. pc'[p] \in Absent \ {"fault"} /\ cur' = cur /\ spte' = spte /\ spt' = spt
    BY <1>4, <1>0 DEF ScanEntry, Goto, Absent
  <2>4. pc'[p] \notin {"swap_in", "unpin", "undo", "read_file"}
    BY <1>4, <1>0 DEF ScanEntry, Goto
  <2> QED  BY <1>4, <1>d, <2>1, <2>2, <2>3, <2>4 DEF ScanEntry, LoadOf, Mapped, Absent, Pinning
<1>5. CASE TestVictim(p)
  BY <1>5, <1>0, <1>d, <1>l DEF TestVictim, Goto, LoadOf, LocalsOf, Idle, Absent, Pinning, Mapped,
    locals, pages
<1>6. CASE WriteBack(p)
  BY <1>6, <1>0, <1>d, <1>l DEF WriteBack, Goto, LoadOf, LocalsOf, Idle, Absent, Pinning, Mapped,
    locals, pages
<1>7. CASE SwapOut(p)
  <2>1. fte[p].spte \in Page /\ cur[p] # fte[p].spte /\ cur[p] \in Page
    BY <1>7, VictimApart, CurPage DEF SwapOut, Chosen, Absent, Idle
  <2>2. spte'[cur[p]] = spte[cur[p]]
    BY <1>7, <1>0, <2>1 DEF SwapOut, SwappedTo
  <2>3. /\ pc'[p] \in {"swap_out", "unload"} /\ cur' = cur /\ spt' = spt /\ pagedir' = pagedir
    BY <1>7, <1>0 DEF SwapOut, Goto, locals
  <2> QED  BY <1>7, <1>d, <2>1, <2>2, <2>3 DEF SwapOut, LoadOf, Mapped, Absent, Pinning
<1>8. CASE Unload(p)
  <2>1. fte[p].spte \in Page /\ cur[p] # fte[p].spte /\ cur[p] \in Page
    BY <1>8, VictimApart, CurPage DEF Unload, Chosen, Absent, Idle
  <2>2. spte'[cur[p]] = spte[cur[p]]
    BY <1>8, <1>0, <2>1 DEF Unload, NotLoaded
  <2>3. /\ pc'[p] = "clear" /\ cur' = cur /\ spt' = spt /\ pagedir' = pagedir
    BY <1>8, <1>0 DEF Unload, Goto, locals
  <2> QED  BY <1>8, <1>d, <2>1, <2>2, <2>3 DEF Unload, LoadOf, Mapped, Absent, Pinning
<1>9. CASE ClearPage(p)
  <2>1. fte[p].spte \in Page /\ cur[p] # fte[p].spte /\ cur[p] \in Page
    BY <1>9, VictimApart, CurPage DEF ClearPage, Absent, Idle
  <2>2. pagedir'[cur[p]] = pagedir[cur[p]]
    BY <1>9, <1>0, <2>1 DEF ClearPage, Cleared
  <2>3. /\ pc'[p] = "release" /\ cur' = cur /\ spt' = spt /\ spte' = spte
    BY <1>9, <1>0 DEF ClearPage, Goto, locals
  <2> QED  BY <1>9, <1>d, <2>1, <2>2, <2>3 DEF ClearPage, LoadOf, Mapped, Absent, Pinning
<1>10. CASE ReleaseFrame(p)
  BY <1>10, <1>0, <1>d, <1>l DEF ReleaseFrame, Goto, LoadOf, LocalsOf, Idle, Absent, Pinning,
    Mapped, locals, pages
<1>11. CASE Repalloc(p)
  BY <1>11, <1>0, <1>d, <1>l DEF Repalloc, Goto, Retry, TakeFrame, LoadOf, LocalsOf, Idle, Absent,
    Pinning, Mapped, locals, pages
<1>12. CASE AddFrame(p)
  BY <1>12, <1>0, <1>d, <1>l DEF AddFrame, Goto, HasFileData, LoadOf, LocalsOf, Idle, Absent,
    Pinning, Mapped, locals, pages
<1>13. CASE LoadPage(p)
  <2>1. cur[p] \in Page /\ ~Mapped(cur[p])
    BY <1>13, <1>d, CurPage DEF LoadPage, Idle, LoadOf, Absent
  <2>2. /\ spte'[cur[p]].is_loaded = spte[cur[p]].is_loaded
        /\ spte'[cur[p]].pinned = ~spte[cur[p]].is_loaded
    BY <1>13, <1>0, <2>1 DEF LoadPage, Spte
  <2>3. cur' = cur /\ pagedir' = pagedir /\ spt' = spt /\ cur[p] \in spt
    BY <1>13 DEF LoadPage, locals
  <2>4. \/ pc'[p] = "palloc" /\ ~spte[cur[p]].is_loaded
        \/ pc'[p] \in {"exit", "fault"}
    BY <1>13, <1>0 DEF LoadPage, Kill, Goto
  <2> QED  BY <2>1, <2>2, <2>3, <2>4 DEF LoadOf, Mapped, Absent, Pinning
<1>14. CASE StackGrowth(p)
  <2>1. cur[p] \in Page /\ ~Mapped(cur[p])
    BY <1>14, <1>d, CurPage DEF StackGrowth, Idle, LoadOf, Absent
  <2>2. spte'[cur[p]].is_loaded /\ spte'[cur[p]].pinned /\ spte'[cur[p]].type = "SWAP"
    BY <1>14, <1>0, <2>1 DEF StackGrowth, NewSpte
  <2>3. /\ cur' = cur /\ pagedir' = pagedir /\ spt' = spt /\ cur[p] \notin spt
        /\ Kind[cur[p]] = "STACK" /\ pc'[p] = "palloc"
    BY <1>14, <1>0 DEF StackGrowth, Goto, locals
  <2> QED  BY <2>1, <2>2, <2>3 DEF LoadOf, Mapped, Absent, Pinning
<1>15. CASE BadAddress(p)
  BY <1>15, <1>0, <1>d, <1>l DEF BadAddress, Goto, Kill, LoadOf, LocalsOf, Idle, Absent, Pinning,
    Mapped, locals, pages
<1>16. ASSUME NEW short \in BOOLEAN, ReadFile(p, short) PROVE LoadOf(p)'
  BY <1>16, <1>0, <1>d, <1>l DEF ReadFile, Goto, AfterRead, LoadOf, LocalsOf, Idle, Absent,
    Pinning, Mapped, locals, pages
<1>16f. CASE InstallFails(p)
  BY <1>16f, <1>0, <1>d, <1>l DEF InstallFails, Goto, LoadOf, LocalsOf, Idle, Absent,
    Pinning, Mapped, locals, pages
<1>17. CASE InstallPage(p)
  <2>1. cur[p] \in Page /\ ~Mapped(cur[p]) /\ spte[cur[p]].pinned /\ cur' = cur
    BY <1>17, <1>d, CurPage DEF InstallPage, Idle, LoadOf, Absent, Pinning
  <2>2. CASE cur[p] \notin spt
    BY <1>17, <1>0, <1>m, <2>1, <2>2 DEF InstallPage, Resume, Goto, ModeOf, Taking, LoadOf,
      Absent, Pinning
  <2>3. CASE cur[p] \in spt
    <3>1. frame[p] \in Frame /\ None \notin Frame
      BY <1>17, <1>l, VMConstants DEF InstallPage, LocalsOf
    <3>2. pagedir'[cur[p]].frame = frame[p] /\ cur[p] \in spt'
      BY <1>17, <1>0, <2>1, <2>3 DEF InstallPage, Unmapped
    <3>3. ~spte[cur[p]].is_loaded
      BY <1>17, <1>d, <2>3 DEF InstallPage, LoadOf, Absent
    <3>4. CASE spte[cur[p]].type = "SWAP"
      <4>1. pc'[p] = "swap_in" /\ spte' = spte
        BY <1>17, <1>0, <2>1, <2>3, <3>4 DEF InstallPage, Goto
      <4> QED  BY <2>1, <3>1, <3>2, <3>3, <3>4, <4>1 DEF LoadOf, Mapped, Absent, Pinning
    <3>5. CASE spte[cur[p]].type # "SWAP"
      <4>1. pc'[p] = "unpin" /\ spte' = [spte EXCEPT ![cur[p]].is_loaded = TRUE]
        BY <1>17, <1>0, <2>1, <2>3, <3>5 DEF InstallPage, Goto
      <4>2. spte'[cur[p]].is_loaded /\ spte'[cur[p]].pinned
        BY <1>0, <2>1, <4>1 DEF Spte
      <4> QED  BY <2>1, <3>1, <3>2, <4>1, <4>2 DEF LoadOf, Mapped, Absent, Pinning
    <3> QED  BY <3>4, <3>5
  <2> QED  BY <2>2, <2>3
<1>18. CASE SwapIn(p)
  <2>1. /\ cur[p] \in Page /\ Mapped(cur[p]) /\ spte[cur[p]].pinned /\ cur' = cur
        /\ cur[p] \in spt /\ spt' = spt
    BY <1>18, <1>d, CurPage DEF SwapIn, Idle, LoadOf, Pinning, locals
  <2>2. CASE spte[cur[p]].swap_index \notin swap_map
    BY <1>18, <1>d, <2>2, <2>1 DEF SwapIn, LoadOf, Mapped, Absent, Pinning
  <2>3. CASE spte[cur[p]].swap_index \in swap_map
    <3>0. pagedir' = [pagedir EXCEPT ![cur[p]].accessed = TRUE, ![cur[p]].dirty = TRUE]
      BY <1>18, <2>3 DEF SwapIn
    <3>1. pagedir'[cur[p]].frame = pagedir[cur[p]].frame
      BY <1>0, <2>1, <3>0 DEF Pte
    <3>2. spte' = [spte EXCEPT ![cur[p]].is_loaded = TRUE] /\ pc'[p] = "unpin"
      BY <1>18, <1>0, <2>3 DEF SwapIn, Goto
    <3>3. spte'[cur[p]].is_loaded /\ spte'[cur[p]].pinned
      BY <1>0, <2>1, <3>2 DEF Spte
    <3> QED  BY <2>1, <3>1, <3>2, <3>3 DEF LoadOf, Mapped, Absent, Pinning
  <2> QED  BY <2>2, <2>3
<1>19. CASE Unpin(p)
  BY <1>19, <1>0, <1>d, <1>l DEF Unpin, Goto, Resume, LoadOf, LocalsOf, Idle, Absent, Pinning,
    Mapped, locals, pages
<1>20. CASE Undo(p)
  <2>1. /\ cur[p] \in Page /\ ~Mapped(cur[p]) /\ cur' = cur /\ spt' = spt /\ pagedir' = pagedir
        /\ cur[p] \in spt => ~spte[cur[p]].is_loaded
        /\ cur[p] \notin spt => /\ Kind[cur[p]] = "STACK" /\ spte[cur[p]].is_loaded
                              /\ spte[cur[p]].type = "SWAP"
    BY <1>20, <1>d, CurPage DEF Undo, Idle, LoadOf, Absent, Pinning
  <2>2. /\ spte'[cur[p]].is_loaded = spte[cur[p]].is_loaded
        /\ spte'[cur[p]].type = spte[cur[p]].type
    BY <1>20, <1>0, <2>1 DEF Undo, Spte
  <2>3. pc'[p] = "exit" \/ (pc'[p] = "undo" /\ panic' # "none")
    BY <1>20, <1>0 DEF Undo, Kill, Goto
  <2> QED  BY <2>1, <2>2, <2>3 DEF LoadOf, Mapped, Absent, Pinning
<1>21. CASE SysLock(p)
  BY <1>21, <1>0, <1>d, <1>l DEF SysLock, Goto, LoadOf, LocalsOf, Idle, Absent, Pinning, Mapped,
    locals, pages
<1>22. ASSUME NEW write \in BOOLEAN, SysCopy(p, write) PROVE LoadOf(p)'
  BY <1>22, <1>0, <1>d, <1>l DEF SysCopy, Goto, LoadOf, LocalsOf, Idle, Absent, Pinning, Mapped,
    locals, pages
<1>23. CASE KernelFault(p)
  BY <1>23, <1>0, <1>d, <1>l DEF KernelFault, Goto, LoadOf, LocalsOf, Idle, Absent, Pinning,
    Mapped, locals, pages
<1>24. CASE ProcessExit(p)
  BY <1>24, <1>0, <1>d, <1>l DEF ProcessExit, Goto, LoadOf, LocalsOf, Idle, Absent, Pinning,
    Mapped, locals, pages
<1>25. CASE NextMapping(p)
  BY <1>25, <1>0, <1>d, <1>l DEF NextMapping, Goto, LoadOf, LocalsOf, Idle, Absent, Pinning,
    Mapped, locals, pages
<1>26. CASE LastMapping(p)
  BY <1>26, <1>0, <1>d, <1>l DEF LastMapping, Goto, LoadOf, LocalsOf, Idle, Absent, Pinning,
    Mapped, locals, pages
<1>27. CASE NextEntry(p)
  BY <1>27, <1>0, <1>d, <1>l DEF NextEntry, Goto, LoadOf, LocalsOf, Idle, Absent, Pinning, Mapped,
    locals, pages
<1>28. CASE CheckLoaded(p)
  BY <1>28, <1>0, <1>d, <1>l DEF CheckLoaded, Goto, HasFrame, LoadOf, LocalsOf, Idle, Absent,
    Pinning, Mapped, locals, pages
<1>29. CASE MmLock(p)
  BY <1>29, <1>0, <1>d, <1>l DEF MmLock, Goto, LoadOf, LocalsOf, Idle, Absent, Pinning, Mapped,
    locals, pages
<1>30. CASE MmWrite(p)
  BY <1>30, <1>0, <1>d, <1>l DEF MmWrite, Goto, LoadOf, LocalsOf, Idle, Absent, Pinning, Mapped,
    locals, pages
<1>31. CASE GetPage(p)
  BY <1>31, <1>0, <1>d, <1>l DEF GetPage, Goto, LoadOf, LocalsOf, Idle, Absent, Pinning, Mapped,
    locals, pages
<1>32. CASE FreePage(p)
  BY <1>32, <1>0, <1>d, <1>l DEF FreePage, Goto, LoadOf, LocalsOf, Idle, Absent, Pinning, Mapped,
    locals, pages
<1>33. CASE UnmapPage(p)
  BY <1>33, <1>0, <1>d, <1>l DEF UnmapPage, Goto, LoadOf, LocalsOf, Idle, Absent, Pinning, Mapped,
    locals, pages
<1>34. CASE DropEntry(p)
  BY <1>34, <1>0, <1>d, <1>l DEF DropEntry, Goto, LoadOf, LocalsOf, Idle, Absent, Pinning, Mapped,
    locals, pages
<1>35. CASE PagedirDestroy(p)
  BY <1>35, <1>0, <1>d, <1>l DEF PagedirDestroy, Goto, LoadOf, LocalsOf, Idle, Absent, Pinning,
    Mapped, locals, pages
<1>36. ASSUME NEW pg \in PagesOf(p), NEW write \in BOOLEAN, UserAccess(p, pg, write)
       PROVE LoadOf(p)'
  BY <1>36, <1>0, <1>d, <1>l DEF UserAccess, LoadOf, LocalsOf, Idle, Absent, Pinning, Mapped,
    locals, pages
<1>37. ASSUME NEW pg \in PagesOf(p), UserFault(p, pg), Known(pg) \/ "exit" \in Calls
       PROVE LoadOf(p)'
  BY <1>37, <1>0, <1>d, <1>l DEF UserFault, Goto, LoadOf, LocalsOf, Idle, Absent, Pinning, Mapped,
    locals, pages
<1>38. ASSUME NEW pg \in PagesOf(p), SysIO(p, pg) PROVE LoadOf(p)'
  BY <1>38, <1>0, <1>d, <1>l DEF SysIO, Goto, LoadOf, LocalsOf, Idle, Absent, Pinning, Mapped,
    locals, pages
<1>39. CASE Mmap(p)
  BY <1>39, <1>0, <1>d, <1>l DEF Mmap, LoadOf, LocalsOf, Idle, Absent, Pinning, Mapped, locals,
    pages
<1>40. CASE Munmap(p)
  BY <1>40, <1>0, <1>d, <1>l DEF Munmap, Goto, LoadOf, LocalsOf, Idle, Absent, Pinning, Mapped,
    locals, pages
<1>41. CASE Exit(p)
  BY <1>41, <1>0, <1>d, <1>l DEF Exit, Goto, LoadOf, LocalsOf, Idle, Absent, Pinning, Mapped,
    locals, pages
<1> QED  BY <1>1, <1>2, <1>3, <1>4, <1>5, <1>6, <1>7, <1>8, <1>9, <1>10, <1>11, <1>12, <1>13,
  <1>14, <1>15,
  <1>16, <1>16f, <1>17, <1>18, <1>19, <1>20, <1>21, <1>22, <1>23, <1>24, <1>25, <1>26, <1>27, <1>28,
  <1>29, <1>30, <1>31, <1>32, <1>33, <1>34, <1>35, <1>36, <1>37, <1>38, <1>39, <1>40, <1>41 DEF
  Program, Kernel, FrameStep, PageStep, TeardownStep

\* What the labels of a teardown say of the page that is taken down.
LEMMA TakeMove ==
  ASSUME VMInv, Apart, Apart', panic = "none", NEW p \in Proc, Program(p) \/ Kernel(p)
  PROVE  TakeOf(p)'
<1>0. /\ pc \in [Proc -> Labels] /\ mode \in [Proc -> Modes]
      /\ cur \in [Proc -> Page \cup {None}] /\ frame \in [Proc -> Frame \cup {None}]
      /\ pagedir \in [Page -> Pte] /\ spte \in [Page -> Spte] /\ spt \subseteq Page
      /\ mmap_list \in [Proc -> Seq(Page)]
  BY DEF VMInv, IInv, TypeOK
<1>k. TakeOf(p)
  BY DEF VMInv, TableInv, ThreadInv
<1>l. LocalsOf(p)
  BY DEF VMInv, TableInv, ThreadInv, IInv, LocalsInv
<1>m. ModeOf(p)
  BY DEF VMInv, TableInv, ThreadInv
<1>1. CASE FrameAlloc(p)
  BY <1>1, <1>0, <1>k, <1>l DEF FrameAlloc, Goto, TakeFrame, TakeOf, LocalsOf, Idle, Taking,
    Mapped, locals, pages
<1>2. CASE FrameAllocFails(p)
  BY <1>2, <1>0, <1>k, <1>l DEF FrameAllocFails, Goto, TakeOf, LocalsOf, Idle, Taking, Mapped,
    locals, pages
<1>3. CASE EvictFrame(p)
  BY <1>3, <1>0, <1>k, <1>l DEF EvictFrame, Goto, TakeOf, LocalsOf, Idle, Taking, Mapped, locals,
    pages
<1>4. CASE ScanEntry(p)
  BY <1>4, <1>0, <1>k, <1>l DEF ScanEntry, Goto, TakeOf, LocalsOf, Idle, Taking, Mapped, locals,
    pages
<1>5. CASE TestVictim(p)
  BY <1>5, <1>0, <1>k, <1>l DEF TestVictim, Goto, TakeOf, LocalsOf, Idle, Taking, Mapped, locals,
    pages
<1>6. CASE WriteBack(p)
  BY <1>6, <1>0, <1>k, <1>l DEF WriteBack, Goto, TakeOf, LocalsOf, Idle, Taking, Mapped, locals,
    pages
<1>7. CASE SwapOut(p)
  BY <1>7, <1>0, <1>k, <1>l DEF SwapOut, Goto, TakeOf, LocalsOf, Idle, Taking, Mapped, locals,
    pages
<1>8. CASE Unload(p)
  BY <1>8, <1>0, <1>k, <1>l DEF Unload, Goto, TakeOf, LocalsOf, Idle, Taking, Mapped, locals,
    pages
<1>9. CASE ClearPage(p)
  BY <1>9, <1>0, <1>k, <1>l DEF ClearPage, Goto, TakeOf, LocalsOf, Idle, Taking, Mapped, locals,
    pages
<1>10. CASE ReleaseFrame(p)
  BY <1>10, <1>0, <1>k, <1>l DEF ReleaseFrame, Goto, TakeOf, LocalsOf, Idle, Taking, Mapped,
    locals, pages
<1>11. CASE Repalloc(p)
  BY <1>11, <1>0, <1>k, <1>l DEF Repalloc, Goto, Retry, TakeFrame, TakeOf, LocalsOf, Idle, Taking,
    Mapped, locals, pages
<1>12. CASE AddFrame(p)
  BY <1>12, <1>0, <1>k, <1>l DEF AddFrame, Goto, TakeOf, LocalsOf, Idle, Taking, Mapped, locals,
    pages
<1>13. CASE LoadPage(p)
  BY <1>13, <1>0, <1>k, <1>l DEF LoadPage, Goto, Kill, TakeOf, LocalsOf, Idle, Taking, Mapped,
    locals, pages
<1>14. CASE StackGrowth(p)
  BY <1>14, <1>0, <1>k, <1>l DEF StackGrowth, Goto, TakeOf, LocalsOf, Idle, Taking, Mapped,
    locals, pages
<1>15. CASE BadAddress(p)
  BY <1>15, <1>0, <1>k, <1>l DEF BadAddress, Goto, Kill, TakeOf, LocalsOf, Idle, Taking, Mapped,
    locals, pages
<1>16. ASSUME NEW short \in BOOLEAN, ReadFile(p, short) PROVE TakeOf(p)'
  BY <1>16, <1>0, <1>k, <1>l DEF ReadFile, Goto, AfterRead, TakeOf, LocalsOf, Idle, Taking,
    Mapped, locals, pages
<1>16f. CASE InstallFails(p)
  BY <1>16f, <1>0, <1>k, <1>l DEF InstallFails, Goto, TakeOf, LocalsOf, Idle, Taking,
    Mapped, locals, pages
<1>17. CASE InstallPage(p)
  <2>1. pc'[p] \in {"undo", "swap_in", "unpin", "user", "copy", "mm_write"}
    BY <1>17, <1>0 DEF InstallPage, Resume, Goto
  <2>2. pc'[p] # "mm_write"
    BY <1>17, <1>0, <1>m DEF InstallPage, Resume, Goto, ModeOf, Taking, Modes
  <2> QED  BY <2>1, <2>2 DEF TakeOf, Taking
<1>18. CASE SwapIn(p)
  BY <1>18, <1>0, <1>k, <1>l DEF SwapIn, Goto, TakeOf, LocalsOf, Idle, Taking, Mapped, locals,
    pages
<1>19. CASE Unpin(p)
  <2>1. pc'[p] \in {"user", "copy"}
    BY <1>19, <1>0, <1>m DEF Unpin, Resume, Goto, ModeOf, Taking, Modes
  <2> QED  BY <2>1 DEF TakeOf, Taking
<1>20. CASE Undo(p)
  BY <1>20, <1>0, <1>k, <1>l DEF Undo, Goto, Kill, TakeOf, LocalsOf, Idle, Taking, Mapped, locals,
    pages
<1>21. CASE SysLock(p)
  BY <1>21, <1>0, <1>k, <1>l DEF SysLock, Goto, TakeOf, LocalsOf, Idle, Taking, Mapped, locals,
    pages
<1>22. ASSUME NEW write \in BOOLEAN, SysCopy(p, write) PROVE TakeOf(p)'
  BY <1>22, <1>0, <1>k, <1>l DEF SysCopy, Goto, TakeOf, LocalsOf, Idle, Taking, Mapped, locals,
    pages
<1>23. CASE KernelFault(p)
  BY <1>23, <1>0, <1>k, <1>l DEF KernelFault, Goto, TakeOf, LocalsOf, Idle, Taking, Mapped,
    locals, pages
<1>24. CASE ProcessExit(p)
  BY <1>24, <1>0, <1>k, <1>l DEF ProcessExit, Goto, TakeOf, LocalsOf, Idle, Taking, Mapped,
    locals, pages
<1>25. CASE NextMapping(p)
  <2>1. Head(mmap_list[p]) \in spt
    BY <1>25, HeadMapping DEF NextMapping
  <2> QED  BY <1>25, <1>0, <2>1 DEF NextMapping, Goto, TakeOf
<1>26. CASE LastMapping(p)
  BY <1>26, <1>0, <1>k, <1>l DEF LastMapping, Goto, TakeOf, LocalsOf, Idle, Taking, Mapped,
    locals, pages
<1>27. CASE NextEntry(p)
  BY <1>27, <1>0, <1>k, <1>l DEF NextEntry, Goto, TakeOf, LocalsOf, Idle, Taking, Mapped, locals,
    pages
<1>28. CASE CheckLoaded(p)
  <2>1. /\ cur[p] \in spt /\ (spte[cur[p]].is_loaded <=> Mapped(cur[p]))
        /\ mode[p] # "destroy" => cur[p] = Head(mmap_list[p])
    BY <1>28, <1>k, TakenPage DEF CheckLoaded, Taking, TakeOf
  <2>2. /\ pc'[p] \in {"drop", "mm_lock", "get_page"}
        /\ pc'[p] = "drop" <=> ~spte[cur[p]].is_loaded
    BY <1>28, <1>0 DEF CheckLoaded, Goto, HasFrame
  <2> QED  BY <1>28, <2>1, <2>2 DEF CheckLoaded, TakeOf, Mapped, locals, pages
<1>29. CASE MmLock(p)
  BY <1>29, <1>0, <1>k, <1>l DEF MmLock, Goto, TakeOf, LocalsOf, Idle, Taking, Mapped, locals,
    pages
<1>30. CASE MmWrite(p)
  BY <1>30, <1>0, <1>k, <1>l DEF MmWrite, Goto, TakeOf, LocalsOf, Idle, Taking, Mapped, locals,
    pages
<1>31. CASE GetPage(p)
  BY <1>31, <1>0, <1>k, <1>l DEF GetPage, Goto, TakeOf, LocalsOf, Idle, Taking, Mapped, locals,
    pages
<1>32. CASE FreePage(p)
  BY <1>32, <1>0, <1>k, <1>l DEF FreePage, Goto, TakeOf, LocalsOf, Idle, Taking, Mapped, locals,
    pages
<1>33. CASE UnmapPage(p)
  <2>1. cur[p] \in Page /\ cur[p] \in spt /\ (mode[p] # "destroy" => cur[p] = Head(mmap_list[p]))
    BY <1>33, <1>k, CurPage DEF UnmapPage, Idle, Taking, TakeOf
  <2>2. pc'[p] = "drop" /\ pagedir'[cur[p]].frame = None
    BY <1>33, <1>0, <2>1 DEF UnmapPage, Cleared, Goto
  <2> QED  BY <1>33, <2>1, <2>2 DEF UnmapPage, TakeOf, Mapped, locals, pages
<1>34. CASE DropEntry(p)
  BY <1>34, <1>0, <1>k, <1>l DEF DropEntry, Goto, TakeOf, LocalsOf, Idle, Taking, Mapped, locals,
    pages
<1>35. CASE PagedirDestroy(p)
  BY <1>35, <1>0, <1>k, <1>l DEF PagedirDestroy, Goto, TakeOf, LocalsOf, Idle, Taking, Mapped,
    locals, pages
<1>36. ASSUME NEW pg \in PagesOf(p), NEW write \in BOOLEAN, UserAccess(p, pg, write)
       PROVE TakeOf(p)'
  BY <1>36, <1>0, <1>k, <1>l DEF UserAccess, TakeOf, LocalsOf, Idle, Taking, Mapped, locals, pages
<1>37. ASSUME NEW pg \in PagesOf(p), UserFault(p, pg), Known(pg) \/ "exit" \in Calls
       PROVE TakeOf(p)'
  BY <1>37, <1>0, <1>k, <1>l DEF UserFault, Goto, TakeOf, LocalsOf, Idle, Taking, Mapped, locals,
    pages
<1>38. ASSUME NEW pg \in PagesOf(p), SysIO(p, pg) PROVE TakeOf(p)'
  BY <1>38, <1>0, <1>k, <1>l DEF SysIO, Goto, TakeOf, LocalsOf, Idle, Taking, Mapped, locals,
    pages
<1>39. CASE Mmap(p)
  BY <1>39, <1>0, <1>k, <1>l DEF Mmap, TakeOf, LocalsOf, Idle, Taking, Mapped, locals, pages
<1>40. CASE Munmap(p)
  BY <1>40, <1>0, <1>k, <1>l DEF Munmap, Goto, TakeOf, LocalsOf, Idle, Taking, Mapped, locals,
    pages
<1>41. CASE Exit(p)
  BY <1>41, <1>0, <1>k, <1>l DEF Exit, Goto, TakeOf, LocalsOf, Idle, Taking, Mapped, locals, pages
<1> QED  BY <1>1, <1>2, <1>3, <1>4, <1>5, <1>6, <1>7, <1>8, <1>9, <1>10, <1>11, <1>12, <1>13,
  <1>14, <1>15,
  <1>16, <1>16f, <1>17, <1>18, <1>19, <1>20, <1>21, <1>22, <1>23, <1>24, <1>25, <1>26, <1>27, <1>28,
  <1>29, <1>30, <1>31, <1>32, <1>33, <1>34, <1>35, <1>36, <1>37, <1>38, <1>39, <1>40, <1>41 DEF
  Program, Kernel, FrameStep, PageStep, TeardownStep

\* A thread's mapped pages stay in mmap_list.
LEMMA MmapMove ==
  ASSUME VMInv, Apart, Apart', panic = "none", NEW p \in Proc, Program(p) \/ Kernel(p)
  PROVE  MmapOf(p)'
<1>0. /\ pc \in [Proc -> Labels] /\ mode \in [Proc -> Modes]
      /\ cur \in [Proc -> Page \cup {None}] /\ mmap_list \in [Proc -> Seq(Page)]
      /\ spt \subseteq Page
  BY DEF VMInv, IInv, TypeOK
<1>mm. MmapOf(p)
  BY DEF VMInv, TableInv, ThreadInv
<1>l. LocalsOf(p)
  BY DEF VMInv, TableInv, ThreadInv, IInv, LocalsInv
<1>k. TakeOf(p)
  BY DEF VMInv, TableInv, ThreadInv
<1>d. LoadOf(p)
  BY DEF VMInv, TableInv, ThreadInv
<1>m. ModeOf(p)
  BY DEF VMInv, TableInv, ThreadInv
<1>1. CASE FrameAlloc(p)
  BY <1>1, <1>0, <1>mm DEF FrameAlloc, Goto, TakeFrame, MmapOf, PagesOf, locals, pages
<1>2. CASE FrameAllocFails(p)
  BY <1>2, <1>0, <1>mm DEF FrameAllocFails, Goto, MmapOf, PagesOf, locals, pages
<1>3. CASE EvictFrame(p)
  BY <1>3, <1>0, <1>mm DEF EvictFrame, Goto, MmapOf, PagesOf, locals, pages
<1>4. CASE ScanEntry(p)
  BY <1>4, <1>0, <1>mm DEF ScanEntry, Goto, MmapOf, PagesOf, locals, pages
<1>5. CASE TestVictim(p)
  BY <1>5, <1>0, <1>mm DEF TestVictim, Goto, MmapOf, PagesOf, locals, pages
<1>6. CASE WriteBack(p)
  BY <1>6, <1>0, <1>mm DEF WriteBack, Goto, MmapOf, PagesOf, locals, pages
<1>7. CASE SwapOut(p)
  BY <1>7, <1>0, <1>mm DEF SwapOut, Goto, MmapOf, PagesOf, locals, pages
<1>8. CASE Unload(p)
  BY <1>8, <1>0, <1>mm DEF Unload, Goto, MmapOf, PagesOf, locals, pages
<1>9. CASE ClearPage(p)
  BY <1>9, <1>0, <1>mm DEF ClearPage, Goto, MmapOf, PagesOf, locals, pages
<1>10. CASE ReleaseFrame(p)
  BY <1>10, <1>0, <1>mm DEF ReleaseFrame, Goto, MmapOf, PagesOf, locals, pages
<1>11. CASE Repalloc(p)
  BY <1>11, <1>0, <1>mm DEF Repalloc, Goto, Retry, TakeFrame, MmapOf, PagesOf, locals, pages
<1>12. CASE AddFrame(p)
  BY <1>12, <1>0, <1>mm DEF AddFrame, Goto, MmapOf, PagesOf, locals, pages
<1>13. CASE LoadPage(p)
  BY <1>13, <1>0, <1>mm DEF LoadPage, Goto, Kill, MmapOf, PagesOf, locals, pages
<1>14. CASE StackGrowth(p)
  BY <1>14, <1>0, <1>mm DEF StackGrowth, Goto, MmapOf, PagesOf, locals, pages
<1>15. CASE BadAddress(p)
  BY <1>15, <1>0, <1>mm DEF BadAddress, Goto, Kill, MmapOf, PagesOf, locals, pages
<1>16. ASSUME NEW short \in BOOLEAN, ReadFile(p, short) PROVE MmapOf(p)'
  BY <1>16, <1>0, <1>mm DEF ReadFile, Goto, AfterRead, MmapOf, PagesOf, locals, pages
<1>16f. CASE InstallFails(p)
  BY <1>16f, <1>0, <1>mm DEF InstallFails, Goto, MmapOf, PagesOf, locals, pages
<1>17. CASE InstallPage(p)
  <2>1. cur[p] \in spt \/ Kind[cur[p]] = "STACK"
    BY <1>17, <1>d DEF InstallPage, LoadOf, Absent, Pinning
  <2>2. mmap_list' = mmap_list /\ spt' \in {spt, spt \cup {cur[p]}}
    BY <1>17 DEF InstallPage
  <2> QED  BY <1>mm, <2>1, <2>2 DEF MmapOf, PagesOf
<1>18. CASE SwapIn(p)
  BY <1>18, <1>0, <1>mm DEF SwapIn, Goto, MmapOf, PagesOf, locals, pages
<1>19. CASE Unpin(p)
  BY <1>19, <1>0, <1>mm DEF Unpin, Goto, Resume, MmapOf, PagesOf, locals, pages
<1>20. CASE Undo(p)
  BY <1>20, <1>0, <1>mm DEF Undo, Goto, Kill, MmapOf, PagesOf, locals, pages
<1>21. CASE SysLock(p)
  BY <1>21, <1>0, <1>mm DEF SysLock, Goto, MmapOf, PagesOf, locals, pages
<1>22. ASSUME NEW write \in BOOLEAN, SysCopy(p, write) PROVE MmapOf(p)'
  BY <1>22, <1>0, <1>mm DEF SysCopy, Goto, MmapOf, PagesOf, locals, pages
<1>23. CASE KernelFault(p)
  BY <1>23, <1>0, <1>mm DEF KernelFault, Goto, MmapOf, PagesOf, locals, pages
<1>24. CASE ProcessExit(p)
  BY <1>24, <1>0, <1>mm DEF ProcessExit, Goto, MmapOf, PagesOf, locals, pages
<1>25. CASE NextMapping(p)
  BY <1>25, <1>0, <1>mm DEF NextMapping, Goto, MmapOf, PagesOf, locals, pages
<1>26. CASE LastMapping(p)
  BY <1>26, <1>0, <1>mm DEF LastMapping, Goto, MmapOf, PagesOf, locals, pages
<1>27. CASE NextEntry(p)
  BY <1>27, <1>0, <1>mm DEF NextEntry, Goto, MmapOf, PagesOf, locals, pages
<1>28. CASE CheckLoaded(p)
  BY <1>28, <1>0, <1>mm DEF CheckLoaded, Goto, HasFrame, MmapOf, PagesOf, locals, pages
<1>29. CASE MmLock(p)
  BY <1>29, <1>0, <1>mm DEF MmLock, Goto, MmapOf, PagesOf, locals, pages
<1>30. CASE MmWrite(p)
  BY <1>30, <1>0, <1>mm DEF MmWrite, Goto, MmapOf, PagesOf, locals, pages
<1>31. CASE GetPage(p)
  BY <1>31, <1>0, <1>mm DEF GetPage, Goto, MmapOf, PagesOf, locals, pages
<1>32. CASE FreePage(p)
  BY <1>32, <1>0, <1>mm DEF FreePage, Goto, MmapOf, PagesOf, locals, pages
<1>33. CASE UnmapPage(p)
  BY <1>33, <1>0, <1>mm DEF UnmapPage, Goto, MmapOf, PagesOf, locals, pages
<1>34. CASE DropEntry(p)
  <2>1. CASE mode[p] = "destroy"
    <3>1. mmap_list' = mmap_list /\ mmap_list[p] = <<>> /\ spt' \subseteq spt
      BY <1>34, <1>m, <2>1 DEF DropEntry, ModeOf
    <3> QED  BY <1>mm, <3>1 DEF MmapOf, PagesOf
  <2>2. CASE mode[p] # "destroy"
    <3>1. /\ cur[p] = Head(mmap_list[p]) /\ mmap_list[p] # <<>>
          /\ spt' = spt \ {Head(mmap_list[p])} /\ mmap_list'[p] = Tail(mmap_list[p])
      BY <1>34, <1>0, <1>k, <1>l, <2>2 DEF DropEntry, TakeOf, Taking, LocalsOf, Unmapping,
        WithoutMapping
    <3> DEFINE s == mmap_list[p]
    <3>2. /\ s \in Seq(Page) /\ s # <<>> /\ MmapOf(p)
      BY <1>0, <1>mm, <3>1
    <3> HIDE DEF s
    <3>3. /\ Head(s) = s[1] /\ 1 \in DOMAIN s /\ DOMAIN s = 1..Len(s)
          /\ Tail(s) \in Seq(Page) /\ DOMAIN Tail(s) = 1..(Len(s) - 1) /\ Len(s) \in Nat
          /\ \A i \in 1..(Len(s) - 1) : Tail(s)[i] = s[i + 1]
      BY <3>2
    <3>4. /\ \A i, j \in DOMAIN s : s[i] = s[j] => i = j
          /\ \A pg \in PagesOf(p) : pg \in spt /\ Kind[pg] = "MMAP" <=> \E i \in DOMAIN s : s[i] = pg
          /\ \A i \in DOMAIN s : Owner[s[i]] = p
      BY <1>mm DEF MmapOf, s
    <3>5. /\ \A i, j \in DOMAIN Tail(s) : Tail(s)[i] = Tail(s)[j] => i = j
          /\ \A i \in DOMAIN Tail(s) : Owner[Tail(s)[i]] = p
      BY <3>3, <3>4
    <3>6. ASSUME NEW pg \in PagesOf(p)
          PROVE  pg \in spt' /\ Kind[pg] = "MMAP" <=> \E i \in DOMAIN Tail(s) : Tail(s)[i] = pg
      <4>1. pg \in spt' <=> pg \in spt /\ pg # s[1]
        BY <3>1, <3>3 DEF s
      <4>2. ASSUME NEW k \in DOMAIN s, s[k] = pg, pg # s[1]
            PROVE  \E i \in DOMAIN Tail(s) : Tail(s)[i] = pg
        <5>1. k - 1 \in 1..(Len(s) - 1) /\ Tail(s)[k - 1] = s[k]
          BY <3>3, <4>2
        <5> QED  BY <3>3, <4>2, <5>1
      <4>3. ASSUME NEW i \in DOMAIN Tail(s), Tail(s)[i] = pg
            PROVE  pg # s[1] /\ \E k \in DOMAIN s : s[k] = pg
        BY <3>3, <3>4, <4>3
      <4> QED  BY <3>4, <4>1, <4>2, <4>3
    <3>7. mmap_list'[p] = Tail(s)
      BY <3>1 DEF s
    <3> QED  BY <3>5, <3>6, <3>7 DEF MmapOf, PagesOf
  <2> QED  BY <2>1, <2>2
<1>35. CASE PagedirDestroy(p)
  BY <1>35, <1>0, <1>mm DEF PagedirDestroy, Goto, MmapOf, PagesOf, locals, pages
<1>36. ASSUME NEW pg \in PagesOf(p), NEW write \in BOOLEAN, UserAccess(p, pg, write)
       PROVE MmapOf(p)'
  BY <1>36, <1>0, <1>mm DEF UserAccess, MmapOf, PagesOf, locals, pages
<1>37. ASSUME NEW pg \in PagesOf(p), UserFault(p, pg), Known(pg) \/ "exit" \in Calls
       PROVE MmapOf(p)'
  BY <1>37, <1>0, <1>mm DEF UserFault, Goto, MmapOf, PagesOf, locals, pages
<1>38. ASSUME NEW pg \in PagesOf(p), SysIO(p, pg) PROVE MmapOf(p)'
  BY <1>38, <1>0, <1>mm DEF SysIO, Goto, MmapOf, PagesOf, locals, pages
<1>39. CASE Mmap(p)
  <2>1. mmap_list'[p] = Region[p] /\ spt' = spt \cup ToSet(Region[p]) /\ mmap_list[p] = <<>>
    BY <1>39, <1>0 DEF Mmap
  <2>2. \A pg \in PagesOf(p) : ~(pg \in spt /\ Kind[pg] = "MMAP")
    BY <1>mm, <2>1 DEF MmapOf
  <2> QED  BY <2>1, <2>2, RegionFacts DEF MmapOf, PagesOf
<1>40. CASE Munmap(p)
  BY <1>40, <1>0, <1>mm DEF Munmap, Goto, MmapOf, PagesOf, locals, pages
<1>41. CASE Exit(p)
  BY <1>41, <1>0, <1>mm DEF Exit, Goto, MmapOf, PagesOf, locals, pages
<1> QED  BY <1>1, <1>2, <1>3, <1>4, <1>5, <1>6, <1>7, <1>8, <1>9, <1>10, <1>11, <1>12, <1>13,
  <1>14, <1>15,
  <1>16, <1>16f, <1>17, <1>18, <1>19, <1>20, <1>21, <1>22, <1>23, <1>24, <1>25, <1>26, <1>27, <1>28,
  <1>29, <1>30, <1>31, <1>32, <1>33, <1>34, <1>35, <1>36, <1>37, <1>38, <1>39, <1>40, <1>41 DEF
  Program, Kernel, FrameStep, PageStep, TeardownStep


-----------------------------------------------------------------------------
\* The frame table as a set of entries.
LEMMA EntriesFacts ==
  ASSUME VMInv
  PROVE  /\ Entries \subseteq Entry
         /\ \A e, g \in Entries : e.frame = g.frame => e = g
<1>1. frame_tbl_list \in Seq(Entry)
  BY DEF VMInv, IInv, TypeOK
<1>2. \A i, j \in DOMAIN frame_tbl_list : frame_tbl_list[i].frame = frame_tbl_list[j].frame => i = j
  BY DEF VMInv, FramePartition
<1> QED  BY <1>1, <1>2 DEF Entries

\* list_remove takes one entry away.
LEMMA EntriesRemoved ==
  ASSUME VMInv, NEW i \in DOMAIN frame_tbl_list, frame_tbl_list' = Unlisted(i)
  PROVE  Entries' = Entries \ {frame_tbl_list[i]}
<1> DEFINE s == frame_tbl_list
           t == RemoveAt(s, i)
<1>1. s \in Seq(Entry) /\ i \in 1..Len(s) /\ DOMAIN s = 1..Len(s)
  BY DEF VMInv, IInv, TypeOK
<1>2. \A j, k \in DOMAIN s : s[j] = s[k] => j = k
  BY DEF VMInv, FramePartition
<1>3. /\ t \in Seq(Entry) /\ Len(t) = Len(s) - 1
      /\ \A k \in 1..(Len(s) - 1) : t[k] = IF k < i THEN s[k] ELSE s[k + 1]
  BY <1>1, RemoveAtElements
<1> HIDE DEF s, t
<1>4. DOMAIN t = 1..(Len(s) - 1) /\ Len(s) \in Nat
  BY <1>1, <1>3
<1>5. ASSUME NEW k \in DOMAIN t PROVE \E j \in DOMAIN s : t[k] = s[j] /\ j # i
  <2>1. CASE k < i
    BY <1>1, <1>3, <1>4, <2>1
  <2>2. CASE ~(k < i)
    <3>1. k + 1 \in DOMAIN s /\ k + 1 # i /\ t[k] = s[k + 1]
      BY <1>1, <1>3, <1>4, <2>2
    <3> QED  BY <3>1
  <2> QED  BY <2>1, <2>2
<1>6. ASSUME NEW j \in DOMAIN s, j # i PROVE \E k \in DOMAIN t : t[k] = s[j]
  <2>1. CASE j < i
    BY <1>1, <1>3, <1>4, <2>1
  <2>2. CASE j > i
    <3>1. j - 1 \in DOMAIN t /\ ~(j - 1 < i) /\ (j - 1) + 1 = j
      BY <1>1, <1>4, <2>2
    <3>2. t[j - 1] = s[j]
      BY <1>3, <1>4, <3>1
    <3> QED  BY <3>1, <3>2
  <2> QED  BY <1>1, <1>6, <2>1, <2>2
<1>7. {t[k] : k \in DOMAIN t} = {s[j] : j \in DOMAIN s} \ {s[i]}
  BY <1>1, <1>2, <1>5, <1>6
<1> QED  BY <1>7 DEF Entries, Unlisted, s, t

\* list_push_back adds one.
LEMMA EntriesAppended ==
  ASSUME VMInv, NEW e \in Entry, frame_tbl_list' = Append(frame_tbl_list, e)
  PROVE  Entries' = Entries \cup {e}
<1> DEFINE s == frame_tbl_list
           t == Append(s, e)
<1>1. s \in Seq(Entry)
  BY DEF VMInv, IInv, TypeOK
<1>2. /\ DOMAIN t = 1..(Len(s) + 1) /\ DOMAIN s = 1..Len(s) /\ Len(s) \in Nat
      /\ \A k \in 1..Len(s) : t[k] = s[k]
      /\ t[Len(s) + 1] = e
  BY <1>1
<1>3. t = frame_tbl_list'
  OBVIOUS
<1> HIDE DEF s, t
<1>4. {t[k] : k \in DOMAIN t} = {s[k] : k \in DOMAIN s} \cup {e}
  BY <1>2
<1> QED  BY <1>3, <1>4 DEF Entries, s

\* free_frame takes the entry of its frame out of the table.
LEMMA EntriesFreed ==
  ASSUME VMInv, NEW f, FreeFrame(f)
  PROVE  Entries' = {e \in Entries : e.frame # f}
<1>1. CASE EntriesFor(f) = {}
  BY <1>1 DEF FreeFrame, frames, EntriesFor, Entries
<1>2. CASE EntriesFor(f) # {}
  <2>1. PICK i \in EntriesFor(f) : frame_tbl_list' = Unlisted(i)
    BY <1>2 DEF FreeFrame
  <2>2. i \in DOMAIN frame_tbl_list /\ frame_tbl_list[i].frame = f /\ frame_tbl_list[i] \in Entries
    BY <2>1 DEF EntriesFor, Entries
  <2>3. Entries' = Entries \ {frame_tbl_list[i]}
    BY <2>1, <2>2, EntriesRemoved
  <2> QED  BY <2>2, <2>3, EntriesFacts
<1> QED  BY <1>1, <1>2

EntriesMove(p) ==
  \/ /\ pc[p] = "add" /\ pc'[p] \in {"read_file", "install"}
     /\ Entries' = Entries \cup {[frame |-> frame[p], spte |-> cur[p]]}
  \/ pc[p] = "unload" /\ pc'[p] = "clear" /\ Entries' = Entries \ {fte[p]}
  \/ /\ pc[p] = "undo" \/ (pc[p] = "free_frame" /\ pc'[p] = "clear_page")
     /\ Entries' = {e \in Entries : e.frame # frame[p]}
  \/ pc[p] \notin {"add", "unload", "undo", "free_frame"} /\ Entries' = Entries

\* What a step does to the entries of the frame table.
LEMMA EntriesStep ==
  ASSUME VMInv, Apart, Apart', panic = "none", NEW p \in Proc, Program(p) \/ Kernel(p)
  PROVE  EntriesMove(p)
<1>0. /\ pc \in [Proc -> Labels]
  BY DEF VMInv, IInv, TypeOK
<1>1. CASE FrameAlloc(p)
  BY <1>1, <1>0 DEF FrameAlloc, Goto, TakeFrame, EntriesMove, Entries, frames
<1>2. CASE FrameAllocFails(p)
  BY <1>2, <1>0 DEF FrameAllocFails, Goto, EntriesMove, Entries, frames
<1>3. CASE EvictFrame(p)
  BY <1>3, <1>0 DEF EvictFrame, Goto, EntriesMove, Entries, frames
<1>4. CASE ScanEntry(p)
  BY <1>4, <1>0 DEF ScanEntry, Goto, EntriesMove, Entries, frames
<1>5. CASE TestVictim(p)
  BY <1>5, <1>0 DEF TestVictim, Goto, EntriesMove, Entries, frames
<1>6. CASE WriteBack(p)
  BY <1>6, <1>0 DEF WriteBack, Goto, EntriesMove, Entries, frames
<1>7. CASE SwapOut(p)
  BY <1>7, <1>0 DEF SwapOut, Goto, EntriesMove, Entries, frames
<1>8. CASE Unload(p)
  <2>1. hand[p] \in DOMAIN frame_tbl_list /\ fte[p] = frame_tbl_list[hand[p]]
    BY <1>8, HandEntry DEF Unload, Chosen, VMInv, IInv, TypeOK
  <2>2. Entries' = Entries \ {fte[p]}
    BY <1>8, <2>1, EntriesRemoved DEF Unload
  <2> QED  BY <1>8, <1>0, <2>2 DEF Unload, Goto, EntriesMove
<1>9. CASE ClearPage(p)
  BY <1>9, <1>0 DEF ClearPage, Goto, EntriesMove, Entries, frames
<1>10. CASE ReleaseFrame(p)
  BY <1>10, <1>0 DEF ReleaseFrame, Goto, EntriesMove, Entries, frames
<1>11. CASE Repalloc(p)
  BY <1>11, <1>0 DEF Repalloc, Goto, Retry, TakeFrame, EntriesMove, Entries, frames
<1>12. CASE AddFrame(p)
  <2>1. [frame |-> frame[p], spte |-> cur[p]] \in Entry
    BY <1>12, CurPage DEF AddFrame, VMInv, IInv, LocalsInv, LocalsOf, Idle, Entry
  <2>2. Entries' = Entries \cup {[frame |-> frame[p], spte |-> cur[p]]}
    BY <1>12, <2>1, EntriesAppended DEF AddFrame
  <2> QED  BY <1>12, <1>0, <2>2 DEF AddFrame, Goto, EntriesMove
<1>13. CASE LoadPage(p)
  BY <1>13, <1>0 DEF LoadPage, Goto, Kill, EntriesMove, Entries, frames
<1>14. CASE StackGrowth(p)
  BY <1>14, <1>0 DEF StackGrowth, Goto, EntriesMove, Entries, frames
<1>15. CASE BadAddress(p)
  BY <1>15, <1>0 DEF BadAddress, Goto, Kill, EntriesMove, Entries, frames
<1>16. ASSUME NEW short \in BOOLEAN, ReadFile(p, short) PROVE EntriesMove(p)
  BY <1>16, <1>0 DEF ReadFile, Goto, AfterRead, EntriesMove, Entries, frames
<1>16f. CASE InstallFails(p)
  BY <1>16f, <1>0 DEF InstallFails, Goto, EntriesMove, Entries, frames
<1>17. CASE InstallPage(p)
  BY <1>17, <1>0 DEF InstallPage, Goto, Resume, EntriesMove, Entries, frames
<1>18. CASE SwapIn(p)
  <2>1. pc[p] = "swap_in" /\ frame_tbl_list' = frame_tbl_list
    BY <1>18 DEF SwapIn, frames
  <2> QED  BY <2>1 DEF EntriesMove, Entries
<1>19. CASE Unpin(p)
  BY <1>19, <1>0 DEF Unpin, Goto, Resume, EntriesMove, Entries, frames
<1>20. CASE Undo(p)
  <2>1. Entries' = {e \in Entries : e.frame # frame[p]}
    BY <1>20, EntriesFreed DEF Undo
  <2> QED  BY <1>20, <2>1 DEF Undo, EntriesMove
<1>21. CASE SysLock(p)
  BY <1>21, <1>0 DEF SysLock, Goto, EntriesMove, Entries, frames
<1>22. ASSUME NEW write \in BOOLEAN, SysCopy(p, write) PROVE EntriesMove(p)
  BY <1>22, <1>0 DEF SysCopy, Goto, EntriesMove, Entries, frames
<1>23. CASE KernelFault(p)
  BY <1>23, <1>0 DEF KernelFault, Goto, EntriesMove, Entries, frames
<1>24. CASE ProcessExit(p)
  BY <1>24, <1>0 DEF ProcessExit, Goto, EntriesMove, Entries, frames
<1>25. CASE NextMapping(p)
  BY <1>25, <1>0 DEF NextMapping, Goto, EntriesMove, Entries, frames
<1>26. CASE LastMapping(p)
  BY <1>26, <1>0 DEF LastMapping, Goto, EntriesMove, Entries, frames
<1>27. CASE NextEntry(p)
  BY <1>27, <1>0 DEF NextEntry, Goto, EntriesMove, Entries, frames
<1>28. CASE CheckLoaded(p)
  BY <1>28, <1>0 DEF CheckLoaded, Goto, HasFrame, EntriesMove, Entries, frames
<1>29. CASE MmLock(p)
  BY <1>29, <1>0 DEF MmLock, Goto, EntriesMove, Entries, frames
<1>30. CASE MmWrite(p)
  BY <1>30, <1>0 DEF MmWrite, Goto, EntriesMove, Entries, frames
<1>31. CASE GetPage(p)
  BY <1>31, <1>0 DEF GetPage, Goto, EntriesMove, Entries, frames
<1>32. CASE FreePage(p)
  <2>1. Entries' = {e \in Entries : e.frame # frame[p]}
    BY <1>32, EntriesFreed DEF FreePage
  <2> QED  BY <1>32, <1>0, <2>1 DEF FreePage, Goto, EntriesMove
<1>33. CASE UnmapPage(p)
  BY <1>33, <1>0 DEF UnmapPage, Goto, EntriesMove, Entries, frames
<1>34. CASE DropEntry(p)
  BY <1>34, <1>0 DEF DropEntry, Goto, EntriesMove, Entries, frames
<1>35. CASE PagedirDestroy(p)
  BY <1>35, <1>0 DEF PagedirDestroy, Goto, EntriesMove, Entries, frames
<1>36. ASSUME NEW pg \in PagesOf(p), NEW write \in BOOLEAN, UserAccess(p, pg, write)
       PROVE EntriesMove(p)
  BY <1>36, <1>0 DEF UserAccess, EntriesMove, Entries, frames
<1>37. ASSUME NEW pg \in PagesOf(p), UserFault(p, pg), Known(pg) \/ "exit" \in Calls
       PROVE EntriesMove(p)
  BY <1>37, <1>0 DEF UserFault, Goto, EntriesMove, Entries, frames
<1>38. ASSUME NEW pg \in PagesOf(p), SysIO(p, pg) PROVE EntriesMove(p)
  BY <1>38, <1>0 DEF SysIO, Goto, EntriesMove, Entries, frames
<1>39. CASE Mmap(p)
  BY <1>39, <1>0 DEF Mmap, EntriesMove, Entries, frames
<1>40. CASE Munmap(p)
  BY <1>40, <1>0 DEF Munmap, Goto, EntriesMove, Entries, frames
<1>41. CASE Exit(p)
  BY <1>41, <1>0 DEF Exit, Goto, EntriesMove, Entries, frames
<1> QED  BY <1>1, <1>2, <1>3, <1>4, <1>5, <1>6, <1>7, <1>8, <1>9, <1>10, <1>11, <1>12, <1>13,
  <1>14, <1>15,
  <1>16, <1>16f, <1>17, <1>18, <1>19, <1>20, <1>21, <1>22, <1>23, <1>24, <1>25, <1>26, <1>27, <1>28,
  <1>29, <1>30, <1>31, <1>32, <1>33, <1>34, <1>35, <1>36, <1>37, <1>38, <1>39, <1>40, <1>41 DEF
  Program, Kernel, FrameStep, PageStep, TeardownStep

\* The frame a load works with is in the table.
LEMMA HeldMove ==
  ASSUME VMInv, Apart, Apart', panic = "none", NEW p \in Proc, Program(p) \/ Kernel(p)
  PROVE  HeldOf(p)'
<1>0. /\ pc \in [Proc -> Labels] /\ cur \in [Proc -> Page \cup {None}]
      /\ frame \in [Proc -> Frame \cup {None}]
  BY DEF VMInv, IInv, TypeOK
<1>h. HeldOf(p)
  BY DEF VMInv, TableInv, ThreadInv
<1>1. CASE FrameAlloc(p)
  BY <1>1, <1>0, <1>h DEF FrameAlloc, Goto, TakeFrame, HeldOf, Entries, frames, locals
<1>2. CASE FrameAllocFails(p)
  BY <1>2, <1>0, <1>h DEF FrameAllocFails, Goto, HeldOf, Entries, frames, locals
<1>3. CASE EvictFrame(p)
  BY <1>3, <1>0, <1>h DEF EvictFrame, Goto, HeldOf, Entries, frames, locals
<1>4. CASE ScanEntry(p)
  BY <1>4, <1>0, <1>h DEF ScanEntry, Goto, HeldOf, Entries, frames, locals
<1>5. CASE TestVictim(p)
  BY <1>5, <1>0, <1>h DEF TestVictim, Goto, HeldOf, Entries, frames, locals
<1>6. CASE WriteBack(p)
  BY <1>6, <1>0, <1>h DEF WriteBack, Goto, HeldOf, Entries, frames, locals
<1>7. CASE SwapOut(p)
  BY <1>7, <1>0, <1>h DEF SwapOut, Goto, HeldOf, Entries, frames, locals
<1>8. CASE Unload(p)
  BY <1>8, <1>0, <1>h DEF Unload, Goto, HeldOf, Entries, frames, locals
<1>9. CASE ClearPage(p)
  BY <1>9, <1>0, <1>h DEF ClearPage, Goto, HeldOf, Entries, frames, locals
<1>10. CASE ReleaseFrame(p)
  BY <1>10, <1>0, <1>h DEF ReleaseFrame, Goto, HeldOf, Entries, frames, locals
<1>11. CASE Repalloc(p)
  BY <1>11, <1>0, <1>h DEF Repalloc, Goto, Retry, TakeFrame, HeldOf, Entries, frames, locals
<1>12. CASE AddFrame(p)
  <2>1. Entries' = Entries \cup {[frame |-> frame[p], spte |-> cur[p]]}
    BY <1>12, EntriesStep DEF AddFrame, EntriesMove
  <2> QED  BY <1>12, <2>1 DEF AddFrame, HeldOf, locals
<1>13. CASE LoadPage(p)
  BY <1>13, <1>0, <1>h DEF LoadPage, Goto, Kill, HeldOf, Entries, frames, locals
<1>14. CASE StackGrowth(p)
  BY <1>14, <1>0, <1>h DEF StackGrowth, Goto, HeldOf, Entries, frames, locals
<1>15. CASE BadAddress(p)
  BY <1>15, <1>0, <1>h DEF BadAddress, Goto, Kill, HeldOf, Entries, frames, locals
<1>16. ASSUME NEW short \in BOOLEAN, ReadFile(p, short) PROVE HeldOf(p)'
  BY <1>16, <1>0, <1>h DEF ReadFile, Goto, AfterRead, HeldOf, Entries, frames, locals
<1>16f. CASE InstallFails(p)
  BY <1>16f, <1>0, <1>h DEF InstallFails, Goto, HeldOf, Entries, frames, locals
<1>17. CASE InstallPage(p)
  BY <1>17, <1>0, <1>h DEF InstallPage, Goto, Resume, HeldOf, Entries, frames, locals
<1>18. CASE SwapIn(p)
  BY <1>18, <1>0, <1>h DEF SwapIn, Goto, HeldOf, Entries, frames, locals
<1>19. CASE Unpin(p)
  BY <1>19, <1>0, <1>h DEF Unpin, Goto, Resume, HeldOf, Entries, frames, locals
<1>20. CASE Undo(p)
  <2>1. pc[p] = "undo" /\ Kill(p)
    BY <1>20 DEF Undo
  <2>2. pc'[p] = "exit" \/ (pc'[p] = "undo" /\ panic' # "none")
    BY <1>0, <2>1 DEF Kill, Goto
  <2> QED  BY <2>2 DEF HeldOf
<1>21. CASE SysLock(p)
  BY <1>21, <1>0, <1>h DEF SysLock, Goto, HeldOf, Entries, frames, locals
<1>22. ASSUME NEW write \in BOOLEAN, SysCopy(p, write) PROVE HeldOf(p)'
  BY <1>22, <1>0, <1>h DEF SysCopy, Goto, HeldOf, Entries, frames, locals
<1>23. CASE KernelFault(p)
  BY <1>23, <1>0, <1>h DEF KernelFault, Goto, HeldOf, Entries, frames, locals
<1>24. CASE ProcessExit(p)
  BY <1>24, <1>0, <1>h DEF ProcessExit, Goto, HeldOf, Entries, frames, locals
<1>25. CASE NextMapping(p)
  BY <1>25, <1>0, <1>h DEF NextMapping, Goto, HeldOf, Entries, frames, locals
<1>26. CASE LastMapping(p)
  BY <1>26, <1>0, <1>h DEF LastMapping, Goto, HeldOf, Entries, frames, locals
<1>27. CASE NextEntry(p)
  BY <1>27, <1>0, <1>h DEF NextEntry, Goto, HeldOf, Entries, frames, locals
<1>28. CASE CheckLoaded(p)
  BY <1>28, <1>0, <1>h DEF CheckLoaded, Goto, HasFrame, HeldOf, Entries, frames, locals
<1>29. CASE MmLock(p)
  BY <1>29, <1>0, <1>h DEF MmLock, Goto, HeldOf, Entries, frames, locals
<1>30. CASE MmWrite(p)
  BY <1>30, <1>0, <1>h DEF MmWrite, Goto, HeldOf, Entries, frames, locals
<1>31. CASE GetPage(p)
  BY <1>31, <1>0, <1>h DEF GetPage, Goto, HeldOf, Entries, frames, locals
<1>32. CASE FreePage(p)
  BY <1>32, <1>0, <1>h DEF FreePage, Goto, HeldOf, Entries, frames, locals
<1>33. CASE UnmapPage(p)
  BY <1>33, <1>0, <1>h DEF UnmapPage, Goto, HeldOf, Entries, frames, locals
<1>34. CASE DropEntry(p)
  BY <1>34, <1>0, <1>h DEF DropEntry, Goto, HeldOf, Entries, frames, locals
<1>35. CASE PagedirDestroy(p)
  BY <1>35, <1>0, <1>h DEF PagedirDestroy, Goto, HeldOf, Entries, frames, locals
<1>36. ASSUME NEW pg \in PagesOf(p), NEW write \in BOOLEAN, UserAccess(p, pg, write)
       PROVE HeldOf(p)'
  BY <1>36, <1>0, <1>h DEF UserAccess, HeldOf, Entries, frames, locals
<1>37. ASSUME NEW pg \in PagesOf(p), UserFault(p, pg), Known(pg) \/ "exit" \in Calls
       PROVE HeldOf(p)'
  BY <1>37, <1>0, <1>h DEF UserFault, Goto, HeldOf, Entries, frames, locals
<1>38. ASSUME NEW pg \in PagesOf(p), SysIO(p, pg) PROVE HeldOf(p)'
  BY <1>38, <1>0, <1>h DEF SysIO, Goto, HeldOf, Entries, frames, locals
<1>39. CASE Mmap(p)
  BY <1>39, <1>0, <1>h DEF Mmap, HeldOf, Entries, frames, locals
<1>40. CASE Munmap(p)
  BY <1>40, <1>0, <1>h DEF Munmap, Goto, HeldOf, Entries, frames, locals
<1>41. CASE Exit(p)
  BY <1>41, <1>0, <1>h DEF Exit, Goto, HeldOf, Entries, frames, locals
<1> QED  BY <1>1, <1>2, <1>3, <1>4, <1>5, <1>6, <1>7, <1>8, <1>9, <1>10, <1>11, <1>12, <1>13,
  <1>14, <1>15,
  <1>16, <1>16f, <1>17, <1>18, <1>19, <1>20, <1>21, <1>22, <1>23, <1>24, <1>25, <1>26, <1>27, <1>28,
  <1>29, <1>30, <1>31, <1>32, <1>33, <1>34, <1>35, <1>36, <1>37, <1>38, <1>39, <1>40, <1>41 DEF
  Program, Kernel, FrameStep, PageStep, TeardownStep

\* What evict_frame knows of its victim.
LEMMA VictimMove ==
  ASSUME VMInv, Apart, Apart', panic = "none", NEW p \in Proc, Program(p) \/ Kernel(p)
  PROVE  VictimOf(p)'
<1>0. /\ pc \in [Proc -> Labels] /\ fte \in [Proc -> Entry \cup {None}]
      /\ pagedir \in [Page -> Pte] /\ spte \in [Page -> Spte] /\ spt \subseteq Page
  BY DEF VMInv, IInv, TypeOK
<1>v. VictimOf(p)
  BY DEF VMInv, TableInv, ThreadInv
<1>1. CASE FrameAlloc(p)
  BY <1>1, <1>0, <1>v DEF FrameAlloc, Goto, TakeFrame, VictimOf, Chosen, Mapped, locals, pages
<1>2. CASE FrameAllocFails(p)
  BY <1>2, <1>0, <1>v DEF FrameAllocFails, Goto, VictimOf, Chosen, Mapped, locals, pages
<1>3. CASE EvictFrame(p)
  BY <1>3, <1>0, <1>v DEF EvictFrame, Goto, VictimOf, Chosen, Mapped, locals, pages
<1>4. CASE ScanEntry(p)
  <2> DEFINE e == frame_tbl_list[hand[p]]
  <2>1. e \in Entry /\ e \in Entries
    BY <1>4, HandEntry DEF ScanEntry
  <2>2. fte'[p] = e /\ spte' = spte /\ spt' = spt /\ pc'[p] \in {"scan", "test"}
    BY <1>4, <1>0 DEF ScanEntry, Goto
  <2>3. pc'[p] = "test" => ~spte[e.spte].pinned
    BY <1>4, <1>0 DEF ScanEntry, Goto, Skipped
  <2>4. \A pg \in Page : pagedir'[pg].frame = pagedir[pg].frame
    BY <1>4, <1>0, <2>1 DEF ScanEntry, ClearAccessed, Entry, Pte
  <2> HIDE DEF e
  <2>5. CASE pc'[p] = "test"
    <3>1. e.spte \in Page /\ e.frame \in Frame /\ None \notin Frame /\ ~spte[e.spte].pinned
      BY <2>1, <2>3, <2>5, VMConstants DEF Entry
    <3>2. Owner[e.spte] \in Proc
      BY <3>1, VMConstants
    <3>3. ~At(e.spte, {"read_file", "install", "undo", "swap_in"})
      BY <3>1, <3>2 DEF VMInv, TableInv, ThreadInv, LoadOf, At, Pinning, Absent
    <3>4. ~Leaving(e.spte)
      BY <1>4 DEF ScanEntry, Leaving, VMInv, IInv, LockInv, Evicting
    <3>5. EntryOf(e)
      BY <2>1 DEF VMInv, TableInv, PageInv
    <3>6. Mapped(e.spte) /\ pagedir[e.spte].frame = e.frame
      BY <3>1, <3>3, <3>5 DEF EntryOf, Mapped, At
    <3>7. e.spte \in spt /\ spte[e.spte].is_loaded
      BY <3>1, <3>3, <3>4, <3>6 DEF VMInv, TableInv, PageInv, MapOf, At
    <3> QED  BY <2>2, <2>4, <2>5, <3>1, <3>6, <3>7 DEF VictimOf, Mapped
  <2>6. CASE pc'[p] = "scan"
    BY <2>6 DEF VictimOf, Chosen
  <2> QED  BY <2>2, <2>5, <2>6
<1>5. CASE TestVictim(p)
  BY <1>5, <1>0, <1>v DEF TestVictim, Goto, VictimOf, Chosen, Mapped, locals, pages
<1>6. CASE WriteBack(p)
  BY <1>6, <1>0, <1>v DEF WriteBack, Goto, VictimOf, Chosen, Mapped, locals, pages
<1>7. CASE SwapOut(p)
  <2> DEFINE v == fte[p].spte
  <2>1. v \in Page
    BY <1>7, VictimApart DEF SwapOut, Chosen
  <2>2. /\ spte'[v].pinned = spte[v].pinned /\ spte'[v].is_loaded = spte[v].is_loaded
        /\ spte'[v].type \in {"SWAP", spte[v].type}
    BY <1>7, SwapOutEffect
  <2>3. /\ pc[p] = "swap_out" /\ pc'[p] \in {"swap_out", "unload"}
        /\ fte' = fte /\ pagedir' = pagedir /\ spt' = spt
    BY <1>7, <1>0 DEF SwapOut, Goto, locals
  <2> QED  BY <1>v, <2>2, <2>3 DEF VictimOf, Chosen, Mapped
<1>8. CASE Unload(p)
  <2> DEFINE v == fte[p].spte
  <2>1. v \in Page
    BY <1>8, VictimApart DEF Unload, Chosen
  <2>2. spte'[v].pinned = spte[v].pinned /\ ~spte'[v].is_loaded
    BY <1>8, <1>0, <2>1 DEF Unload, NotLoaded, Spte
  <2>3. /\ pc[p] = "unload" /\ pc'[p] = "clear"
        /\ fte' = fte /\ pagedir' = pagedir /\ spt' = spt
    BY <1>8, <1>0 DEF Unload, Goto, locals
  <2> QED  BY <1>v, <2>2, <2>3 DEF VictimOf, Chosen, Mapped
<1>9. CASE ClearPage(p)
  BY <1>9, <1>0, <1>v DEF ClearPage, Goto, VictimOf, Chosen, Mapped, locals, pages
<1>10. CASE ReleaseFrame(p)
  BY <1>10, <1>0, <1>v DEF ReleaseFrame, Goto, VictimOf, Chosen, Mapped, locals, pages
<1>11. CASE Repalloc(p)
  BY <1>11, <1>0, <1>v DEF Repalloc, Goto, Retry, TakeFrame, VictimOf, Chosen, Mapped, locals,
    pages
<1>12. CASE AddFrame(p)
  BY <1>12, <1>0, <1>v DEF AddFrame, Goto, VictimOf, Chosen, Mapped, locals, pages
<1>13. CASE LoadPage(p)
  BY <1>13, <1>0, <1>v DEF LoadPage, Goto, Kill, VictimOf, Chosen, Mapped, locals, pages
<1>14. CASE StackGrowth(p)
  BY <1>14, <1>0, <1>v DEF StackGrowth, Goto, VictimOf, Chosen, Mapped, locals, pages
<1>15. CASE BadAddress(p)
  BY <1>15, <1>0, <1>v DEF BadAddress, Goto, Kill, VictimOf, Chosen, Mapped, locals, pages
<1>16. ASSUME NEW short \in BOOLEAN, ReadFile(p, short) PROVE VictimOf(p)'
  BY <1>16, <1>0, <1>v DEF ReadFile, Goto, AfterRead, VictimOf, Chosen, Mapped, locals, pages
<1>16f. CASE InstallFails(p)
  BY <1>16f, <1>0, <1>v DEF InstallFails, Goto, VictimOf, Chosen, Mapped, locals, pages
<1>17. CASE InstallPage(p)
  BY <1>17, <1>0, <1>v DEF InstallPage, Goto, Resume, VictimOf, Chosen, Mapped, locals, pages
<1>18. CASE SwapIn(p)
  BY <1>18, <1>0, <1>v DEF SwapIn, Goto, VictimOf, Chosen, Mapped, locals, pages
<1>19. CASE Unpin(p)
  BY <1>19, <1>0, <1>v DEF Unpin, Goto, Resume, VictimOf, Chosen, Mapped, locals, pages
<1>20. CASE Undo(p)
  BY <1>20, <1>0, <1>v DEF Undo, Goto, Kill, VictimOf, Chosen, Mapped, locals, pages
<1>21. CASE SysLock(p)
  BY <1>21, <1>0, <1>v DEF SysLock, Goto, VictimOf, Chosen, Mapped, locals, pages
<1>22. ASSUME NEW write \in BOOLEAN, SysCopy(p, write) PROVE VictimOf(p)'
  BY <1>22, <1>0, <1>v DEF SysCopy, Goto, VictimOf, Chosen, Mapped, locals, pages
<1>23. CASE KernelFault(p)
  BY <1>23, <1>0, <1>v DEF KernelFault, Goto, VictimOf, Chosen, Mapped, locals, pages
<1>24. CASE ProcessExit(p)
  BY <1>24, <1>0, <1>v DEF ProcessExit, Goto, VictimOf, Chosen, Mapped, locals, pages
<1>25. CASE NextMapping(p)
  BY <1>25, <1>0, <1>v DEF NextMapping, Goto, VictimOf, Chosen, Mapped, locals, pages
<1>26. CASE LastMapping(p)
  BY <1>26, <1>0, <1>v DEF LastMapping, Goto, VictimOf, Chosen, Mapped, locals, pages
<1>27. CASE NextEntry(p)
  BY <1>27, <1>0, <1>v DEF NextEntry, Goto, VictimOf, Chosen, Mapped, locals, pages
<1>28. CASE CheckLoaded(p)
  BY <1>28, <1>0, <1>v DEF CheckLoaded, Goto, HasFrame, VictimOf, Chosen, Mapped, locals, pages
<1>29. CASE MmLock(p)
  BY <1>29, <1>0, <1>v DEF MmLock, Goto, VictimOf, Chosen, Mapped, locals, pages
<1>30. CASE MmWrite(p)
  BY <1>30, <1>0, <1>v DEF MmWrite, Goto, VictimOf, Chosen, Mapped, locals, pages
<1>31. CASE GetPage(p)
  BY <1>31, <1>0, <1>v DEF GetPage, Goto, VictimOf, Chosen, Mapped, locals, pages
<1>32. CASE FreePage(p)
  BY <1>32, <1>0, <1>v DEF FreePage, Goto, VictimOf, Chosen, Mapped, locals, pages
<1>33. CASE UnmapPage(p)
  BY <1>33, <1>0, <1>v DEF UnmapPage, Goto, VictimOf, Chosen, Mapped, locals, pages
<1>34. CASE DropEntry(p)
  BY <1>34, <1>0, <1>v DEF DropEntry, Goto, VictimOf, Chosen, Mapped, locals, pages
<1>35. CASE PagedirDestroy(p)
  BY <1>35, <1>0, <1>v DEF PagedirDestroy, Goto, VictimOf, Chosen, Mapped, locals, pages
<1>36. ASSUME NEW pg \in PagesOf(p), NEW write \in BOOLEAN, UserAccess(p, pg, write)
       PROVE VictimOf(p)'
  BY <1>36, <1>0, <1>v DEF UserAccess, VictimOf, Chosen, Mapped, locals, pages
<1>37. ASSUME NEW pg \in PagesOf(p), UserFault(p, pg), Known(pg) \/ "exit" \in Calls
       PROVE VictimOf(p)'
  BY <1>37, <1>0, <1>v DEF UserFault, Goto, VictimOf, Chosen, Mapped, locals, pages
<1>38. ASSUME NEW pg \in PagesOf(p), SysIO(p, pg) PROVE VictimOf(p)'
  BY <1>38, <1>0, <1>v DEF SysIO, Goto, VictimOf, Chosen, Mapped, locals, pages
<1>39. CASE Mmap(p)
  BY <1>39, <1>0, <1>v DEF Mmap, VictimOf, Chosen, Mapped, locals, pages
<1>40. CASE Munmap(p)
  BY <1>40, <1>0, <1>v DEF Munmap, Goto, VictimOf, Chosen, Mapped, locals, pages
<1>41. CASE Exit(p)
  BY <1>41, <1>0, <1>v DEF Exit, Goto, VictimOf, Chosen, Mapped, locals, pages
<1> QED  BY <1>1, <1>2, <1>3, <1>4, <1>5, <1>6, <1>7, <1>8, <1>9, <1>10, <1>11, <1>12, <1>13,
  <1>14, <1>15,
  <1>16, <1>16f, <1>17, <1>18, <1>19, <1>20, <1>21, <1>22, <1>23, <1>24, <1>25, <1>26, <1>27, <1>28,
  <1>29, <1>30, <1>31, <1>32, <1>33, <1>34, <1>35, <1>36, <1>37, <1>38, <1>39, <1>40, <1>41 DEF
  Program, Kernel, FrameStep, PageStep, TeardownStep


\* The pages a step of p can change: its own, and the victim of its eviction.
Reach(p) ==
  \A pg \in Page : Owner[pg] # p =>
    /\ pg \in spt' <=> pg \in spt
    /\ spte'[pg] = spte[pg] \/ (pc[p] \in {"swap_out", "unload"} /\ pg = fte[p].spte)
    /\ pagedir'[pg].frame = pagedir[pg].frame \/ (pc[p] = "clear" /\ pg = fte[p].spte)

\* What a step leaves alone of the pages of the others.
LEMMA ReachStep ==
  ASSUME VMInv, Apart, Apart', panic = "none", NEW p \in Proc, Program(p) \/ Kernel(p)
  PROVE  Reach(p)
<1>0. /\ pc \in [Proc -> Labels] /\ cur \in [Proc -> Page \cup {None}]
      /\ pagedir \in [Page -> Pte] /\ spte \in [Page -> Spte] /\ spt \subseteq Page
  BY DEF VMInv, IInv, TypeOK
<1>c. pc[p] \notin Idle => cur[p] \in Page /\ Owner[cur[p]] = p
  BY CurPage
<1>1. CASE FrameAlloc(p)
  BY <1>1, <1>0, <1>c DEF FrameAlloc, Goto, TakeFrame, Reach, Idle, pages
<1>2. CASE FrameAllocFails(p)
  BY <1>2, <1>0, <1>c DEF FrameAllocFails, Goto, Reach, Idle, pages
<1>3. CASE EvictFrame(p)
  BY <1>3, <1>0, <1>c DEF EvictFrame, Goto, Reach, Idle, pages
<1>4. CASE ScanEntry(p)
  <2>1. \A pg \in Page : pagedir'[pg].frame = pagedir[pg].frame
    BY <1>4, <1>0, HandEntry DEF ScanEntry, ClearAccessed, Entry, Pte
  <2> QED  BY <1>4, <2>1 DEF ScanEntry, Reach
<1>5. CASE TestVictim(p)
  BY <1>5, <1>0, <1>c DEF TestVictim, Goto, Reach, Idle, pages
<1>6. CASE WriteBack(p)
  BY <1>6, <1>0, <1>c DEF WriteBack, Goto, Reach, Idle, pages
<1>7. CASE SwapOut(p)
  <2>1. \A pg \in Page \ {fte[p].spte} : spte'[pg] = spte[pg]
    BY <1>7, SwapOutEffect
  <2> QED  BY <1>7, <2>1 DEF SwapOut, Reach
<1>8. CASE Unload(p)
  <2>1. fte[p].spte \in Page
    BY <1>8, VictimApart DEF Unload, Chosen
  <2> QED  BY <1>8, <1>0, <2>1 DEF Unload, NotLoaded, Reach
<1>9. CASE ClearPage(p)
  <2>1. fte[p].spte \in Page
    BY <1>9, VictimApart DEF ClearPage
  <2> QED  BY <1>9, <1>0, <2>1 DEF ClearPage, Cleared, Reach, pages
<1>10. CASE ReleaseFrame(p)
  BY <1>10, <1>0, <1>c DEF ReleaseFrame, Goto, Reach, Idle, pages
<1>11. CASE Repalloc(p)
  BY <1>11, <1>0, <1>c DEF Repalloc, Goto, Retry, TakeFrame, Reach, Idle, pages
<1>12. CASE AddFrame(p)
  BY <1>12, <1>0, <1>c DEF AddFrame, Goto, Reach, Idle, pages
<1>13. CASE LoadPage(p)
  BY <1>13, <1>0, <1>c DEF LoadPage, Goto, Kill, Reach, Idle, pages
<1>14. CASE StackGrowth(p)
  BY <1>14, <1>0, <1>c DEF StackGrowth, Goto, Reach, Idle, pages
<1>15. CASE BadAddress(p)
  BY <1>15, <1>0, <1>c DEF BadAddress, Goto, Kill, Reach, Idle, pages
<1>16. ASSUME NEW short \in BOOLEAN, ReadFile(p, short) PROVE Reach(p)
  BY <1>16, <1>0, <1>c DEF ReadFile, Goto, AfterRead, Reach, Idle, pages
<1>16f. CASE InstallFails(p)
  BY <1>16f, <1>0, <1>c DEF InstallFails, Goto, Reach, Idle, pages
<1>17. CASE InstallPage(p)
  BY <1>17, <1>0, <1>c DEF InstallPage, Goto, Resume, Reach, Idle, pages
<1>18. CASE SwapIn(p)
  <2>1. cur[p] \in Page /\ Owner[cur[p]] = p
    BY <1>18, <1>c DEF SwapIn, Idle
  <2>2. /\ spt' = spt
        /\ \A pg \in Page : pg # cur[p] => spte'[pg] = spte[pg] /\ pagedir'[pg] = pagedir[pg]
    <3>1. \/ spte' = spte /\ pagedir' = pagedir
          \/ /\ spte' = [spte EXCEPT ![cur[p]].is_loaded = TRUE]
             /\ pagedir' = [pagedir EXCEPT ![cur[p]].accessed = TRUE, ![cur[p]].dirty = TRUE]
      BY <1>18 DEF SwapIn
    <3> QED  BY <1>18, <1>0, <2>1, <3>1 DEF SwapIn
  <2> QED  BY <2>1, <2>2 DEF Reach
<1>19. CASE Unpin(p)
  BY <1>19, <1>0, <1>c DEF Unpin, Goto, Resume, Reach, Idle, pages
<1>20. CASE Undo(p)
  BY <1>20, <1>0, <1>c DEF Undo, Goto, Kill, Reach, Idle, pages
<1>21. CASE SysLock(p)
  BY <1>21, <1>0, <1>c DEF SysLock, Goto, Reach, Idle, pages
<1>22. ASSUME NEW write \in BOOLEAN, SysCopy(p, write) PROVE Reach(p)
  BY <1>22, <1>0, <1>c DEF SysCopy, Goto, Touch, Reach, Idle, pages
<1>23. CASE KernelFault(p)
  BY <1>23, <1>0, <1>c DEF KernelFault, Goto, Reach, Idle, pages
<1>24. CASE ProcessExit(p)
  BY <1>24, <1>0, <1>c DEF ProcessExit, Goto, Reach, Idle, pages
<1>25. CASE NextMapping(p)
  <2>1. Owner[Head(mmap_list[p])] = p /\ Head(mmap_list[p]) \in Page
    BY <1>25, HeadMapping, <1>0 DEF NextMapping
  <2> QED  BY <1>25, <1>0, <2>1 DEF NextMapping, Reach
<1>26. CASE LastMapping(p)
  BY <1>26, <1>0, <1>c DEF LastMapping, Goto, Reach, Idle, pages
<1>27. CASE NextEntry(p)
  BY <1>27, <1>0, <1>c DEF NextEntry, Goto, Reach, Idle, pages
<1>28. CASE CheckLoaded(p)
  BY <1>28, <1>0, <1>c DEF CheckLoaded, Goto, HasFrame, Reach, Idle, pages
<1>29. CASE MmLock(p)
  BY <1>29, <1>0, <1>c DEF MmLock, Goto, Reach, Idle, pages
<1>30. CASE MmWrite(p)
  BY <1>30, <1>0, <1>c DEF MmWrite, Goto, Reach, Idle, pages
<1>31. CASE GetPage(p)
  BY <1>31, <1>0, <1>c DEF GetPage, Goto, Reach, Idle, pages
<1>32. CASE FreePage(p)
  BY <1>32, <1>0, <1>c DEF FreePage, Goto, Reach, Idle, pages
<1>33. CASE UnmapPage(p)
  BY <1>33, <1>0, <1>c DEF UnmapPage, Goto, Cleared, Reach, Idle, pages
<1>34. CASE DropEntry(p)
  BY <1>34, <1>0, <1>c DEF DropEntry, Goto, Reach, Idle, pages
<1>35. CASE PagedirDestroy(p)
  BY <1>35, <1>0, <1>c DEF PagedirDestroy, Goto, PagesOf, Reach, Idle, pages
<1>36. ASSUME NEW pg \in PagesOf(p), NEW write \in BOOLEAN, UserAccess(p, pg, write)
       PROVE Reach(p)
  BY <1>36, <1>0, <1>c DEF UserAccess, Touch, PagesOf, Reach, Idle, pages
<1>37. ASSUME NEW pg \in PagesOf(p), UserFault(p, pg), Known(pg) \/ "exit" \in Calls
       PROVE Reach(p)
  BY <1>37, <1>0, <1>c DEF UserFault, Goto, Reach, Idle, pages
<1>38. ASSUME NEW pg \in PagesOf(p), SysIO(p, pg) PROVE Reach(p)
  BY <1>38, <1>0, <1>c DEF SysIO, Goto, Reach, Idle, pages
<1>39. CASE Mmap(p)
  <2>1. \A pg \in Page : Owner[pg] # p => pg \notin ToSet(Region[p])
    BY RegionFacts
  <2> QED  BY <1>39, <1>0, <2>1 DEF Mmap, Reach
<1>40. CASE Munmap(p)
  BY <1>40, <1>0, <1>c DEF Munmap, Goto, Reach, Idle, pages
<1>41. CASE Exit(p)
  BY <1>41, <1>0, <1>c DEF Exit, Goto, Reach, Idle, pages
<1> QED  BY <1>1, <1>2, <1>3, <1>4, <1>5, <1>6, <1>7, <1>8, <1>9, <1>10, <1>11, <1>12, <1>13,
  <1>14, <1>15,
  <1>16, <1>16f, <1>17, <1>18, <1>19, <1>20, <1>21, <1>22, <1>23, <1>24, <1>25, <1>26, <1>27, <1>28,
  <1>29, <1>30, <1>31, <1>32, <1>33, <1>34, <1>35, <1>36, <1>37, <1>38, <1>39, <1>40, <1>41 DEF
  Program, Kernel, FrameStep, PageStep, TeardownStep


\* Nobody else touches the mapping of a victim.
VictimSame(v) ==
  /\ v \in spt' /\ spte'[v].pinned = spte[v].pinned
  /\ spte'[v].is_loaded = spte[v].is_loaded /\ pagedir'[v].frame = pagedir[v].frame
  /\ spte'[v].type = spte[v].type

\* What a thread in evict_frame has found of its victim stays true while another
\* thread takes a step.
LEMMA VictimKept ==
  ASSUME VMInv, Apart, Apart', panic = "none", NEW p \in Proc, NEW q \in Proc \ {p},
         Program(p) \/ Kernel(p), pc[q] \in Chosen \cup {"clear"}
  PROVE  VictimSame(fte[q].spte)
<1> DEFINE v == fte[q].spte
<1>0. /\ pc \in [Proc -> Labels] /\ cur \in [Proc -> Page \cup {None}]
      /\ pagedir \in [Page -> Pte] /\ spte \in [Page -> Spte] /\ spt \subseteq Page
  BY DEF VMInv, IInv, TypeOK
<1>1a. v \in Page /\ v \in spt
  BY VictimApart DEF VMInv, TableInv, ThreadInv, VictimOf
<1>a. pc[p] \notin Evicting \cup Taking /\ pc'[p] \notin Taking
  <2>1. pc[q] \in Evicting /\ pc'[q] = pc[q]
    BY OthersKept DEF Evicting, Chosen, SameFor, VMInv, IInv
  <2> QED  BY <2>1 DEF Apart, VMInv, IInv, LockInv
<1>b. pc[p] \in Absent \cup {"swap_in", "unpin"} => cur[p] # v
  BY VictimApart
<1>c. pc[p] \notin Idle => cur[p] \in Page /\ Owner[cur[p]] = p
  BY CurPage
<1> HIDE DEF v
<1>d. SUFFICES VictimSame(v)
  BY DEF v
<1>1. CASE FrameAlloc(p)
  BY <1>1, <1>0, <1>1a, <1>a DEF FrameAlloc, Goto, TakeFrame, VictimSame, pages
<1>2. CASE FrameAllocFails(p)
  BY <1>2, <1>0, <1>1a, <1>a DEF FrameAllocFails, Goto, VictimSame, pages
<1>3. CASE EvictFrame(p)
  BY <1>3, <1>0, <1>1a, <1>a DEF EvictFrame, Goto, Evicting, VictimSame, pages
<1>4. CASE ScanEntry(p)
  BY <1>4, <1>0, <1>1a, <1>a DEF ScanEntry, Goto, Evicting, VictimSame, pages
<1>5. CASE TestVictim(p)
  BY <1>5, <1>0, <1>1a, <1>a DEF TestVictim, Goto, Evicting, VictimSame, pages
<1>6. CASE WriteBack(p)
  BY <1>6, <1>0, <1>1a, <1>a DEF WriteBack, Goto, Evicting, VictimSame, pages
<1>7. CASE SwapOut(p)
  BY <1>7, <1>0, <1>1a, <1>a DEF SwapOut, Goto, Evicting, VictimSame, pages
<1>8. CASE Unload(p)
  BY <1>8, <1>0, <1>1a, <1>a DEF Unload, Goto, Evicting, VictimSame, pages
<1>9. CASE ClearPage(p)
  BY <1>9, <1>0, <1>1a, <1>a DEF ClearPage, Goto, Evicting, VictimSame, pages
<1>10. CASE ReleaseFrame(p)
  BY <1>10, <1>0, <1>1a, <1>a DEF ReleaseFrame, Goto, Evicting, VictimSame, pages
<1>11. CASE Repalloc(p)
  BY <1>11, <1>0, <1>1a, <1>a DEF Repalloc, Goto, Retry, TakeFrame, Evicting, VictimSame, pages
<1>12. CASE AddFrame(p)
  BY <1>12, <1>0, <1>1a, <1>a DEF AddFrame, Goto, VictimSame, pages
<1>13. CASE LoadPage(p)
  <2>1. cur[p] # v /\ cur[p] \in Page
    BY <1>13, <1>b, <1>c DEF LoadPage, Absent, Idle
  <2> QED  BY <1>13, <1>0, <1>1a, <2>1 DEF LoadPage, VictimSame
<1>14. CASE StackGrowth(p)
  <2>1. cur[p] # v /\ cur[p] \in Page
    BY <1>14, <1>b, <1>c DEF StackGrowth, Absent, Idle
  <2> QED  BY <1>14, <1>0, <1>1a, <2>1 DEF StackGrowth, VictimSame
<1>15. CASE BadAddress(p)
  BY <1>15, <1>0, <1>1a, <1>a DEF BadAddress, Goto, Kill, VictimSame, pages
<1>16. ASSUME NEW short \in BOOLEAN, ReadFile(p, short) PROVE VictimSame(v)
  BY <1>16, <1>0, <1>1a, <1>a DEF ReadFile, Goto, AfterRead, VictimSame, pages
<1>16f. CASE InstallFails(p)
  BY <1>16f, <1>0, <1>1a, <1>a DEF InstallFails, Goto, VictimSame, pages
<1>17. CASE InstallPage(p)
  <2>1. cur[p] # v /\ cur[p] \in Page
    BY <1>17, <1>b, <1>c DEF InstallPage, Absent, Idle
  <2> QED  BY <1>17, <1>0, <1>1a, <2>1 DEF InstallPage, VictimSame
<1>18. CASE SwapIn(p)
  <2>1. cur[p] # v /\ cur[p] \in Page
    BY <1>18, <1>b, <1>c DEF SwapIn, Idle
  <2> QED  BY <1>18, <1>0, <1>1a, <2>1 DEF SwapIn, VictimSame
<1>19. CASE Unpin(p)
  <2>1. cur[p] # v /\ cur[p] \in Page
    BY <1>19, <1>b, <1>c DEF Unpin, Idle
  <2> QED  BY <1>19, <1>0, <1>1a, <2>1 DEF Unpin, VictimSame
<1>20. CASE Undo(p)
  <2>1. cur[p] # v /\ cur[p] \in Page
    BY <1>20, <1>b, <1>c DEF Undo, Absent, Idle
  <2> QED  BY <1>20, <1>0, <1>1a, <2>1 DEF Undo, VictimSame
<1>21. CASE SysLock(p)
  BY <1>21, <1>0, <1>1a, <1>a DEF SysLock, Goto, VictimSame, pages
<1>22. ASSUME NEW write \in BOOLEAN, SysCopy(p, write) PROVE VictimSame(v)
  <2>1. cur[p] \in Page /\ spte' = spte /\ spt' = spt
    BY <1>22, <1>c DEF SysCopy, Idle
  <2>2. pagedir'[v].frame = pagedir[v].frame
    BY <1>22, <1>0, <1>1a, <2>1 DEF SysCopy, Touch, Pte
  <2> QED  BY <1>1a, <2>1, <2>2 DEF VictimSame
<1>23. CASE KernelFault(p)
  BY <1>23, <1>0, <1>1a, <1>a DEF KernelFault, Goto, Taking, VictimSame, pages
<1>24. CASE ProcessExit(p)
  BY <1>24, <1>0, <1>1a, <1>a DEF ProcessExit, Goto, VictimSame, pages
<1>25. CASE NextMapping(p)
  BY <1>25, <1>0, <1>1a, <1>a DEF NextMapping, Goto, Taking, VictimSame, pages
<1>26. CASE LastMapping(p)
  BY <1>26, <1>0, <1>1a, <1>a DEF LastMapping, Goto, VictimSame, pages
<1>27. CASE NextEntry(p)
  BY <1>27, <1>0, <1>1a, <1>a DEF NextEntry, Goto, VictimSame, pages
<1>28. CASE CheckLoaded(p)
  BY <1>28, <1>0, <1>1a, <1>a DEF CheckLoaded, Goto, HasFrame, Taking, VictimSame, pages
<1>29. CASE MmLock(p)
  BY <1>29, <1>0, <1>1a, <1>a DEF MmLock, Goto, Taking, VictimSame, pages
<1>30. CASE MmWrite(p)
  BY <1>30, <1>0, <1>1a, <1>a DEF MmWrite, Goto, Taking, VictimSame, pages
<1>31. CASE GetPage(p)
  BY <1>31, <1>0, <1>1a, <1>a DEF GetPage, Goto, Taking, VictimSame, pages
<1>32. CASE FreePage(p)
  BY <1>32, <1>0, <1>1a, <1>a DEF FreePage, Goto, Taking, VictimSame, pages
<1>33. CASE UnmapPage(p)
  BY <1>33, <1>0, <1>1a, <1>a DEF UnmapPage, Goto, Taking, VictimSame, pages
<1>34. CASE DropEntry(p)
  BY <1>34, <1>0, <1>1a, <1>a DEF DropEntry, Goto, Taking, VictimSame, pages
<1>35. CASE PagedirDestroy(p)
  <2>1. v \notin PagesOf(p)
    BY <1>35, <1>1a DEF PagedirDestroy, VMInv, TableInv, ThreadInv, ModeOf
  <2> QED  BY <1>35, <1>0, <1>1a, <2>1 DEF PagedirDestroy, VictimSame
<1>36. ASSUME NEW pg \in PagesOf(p), NEW write \in BOOLEAN, UserAccess(p, pg, write)
       PROVE VictimSame(v)
  <2>1. spte' = spte /\ spt' = spt /\ pg \in Page
    BY <1>36 DEF UserAccess, PagesOf
  <2>2. pagedir'[v].frame = pagedir[v].frame
    BY <1>36, <1>0, <1>1a, <2>1 DEF UserAccess, Touch, Pte
  <2> QED  BY <1>1a, <2>1, <2>2 DEF VictimSame
<1>37. ASSUME NEW pg \in PagesOf(p), UserFault(p, pg), Known(pg) \/ "exit" \in Calls
       PROVE VictimSame(v)
  BY <1>37, <1>0, <1>1a, <1>a DEF UserFault, Goto, VictimSame, pages
<1>38. ASSUME NEW pg \in PagesOf(p), SysIO(p, pg) PROVE VictimSame(v)
  BY <1>38, <1>0, <1>1a, <1>a DEF SysIO, Goto, VictimSame, pages
<1>39. CASE Mmap(p)
  <2>1. v \notin ToSet(Region[p])
    <3>1. mmap_list[p] = <<>> /\ MmapOf(p)
      BY <1>39 DEF Mmap, VMInv, TableInv, ThreadInv
    <3> QED  BY <1>1a, <3>1, RegionFacts DEF MmapOf, PagesOf
  <2> QED  BY <1>39, <1>0, <1>1a, <2>1 DEF Mmap, VictimSame
<1>40. CASE Munmap(p)
  BY <1>40, <1>0, <1>1a, <1>a DEF Munmap, Goto, VictimSame, pages
<1>41. CASE Exit(p)
  BY <1>41, <1>0, <1>1a, <1>a DEF Exit, Goto, VictimSame, pages
<1> QED  BY <1>1, <1>2, <1>3, <1>4, <1>5, <1>6, <1>7, <1>8, <1>9, <1>10, <1>11, <1>12, <1>13,
  <1>14, <1>15,
  <1>16, <1>16f, <1>17, <1>18, <1>19, <1>20, <1>21, <1>22, <1>23, <1>24, <1>25, <1>26, <1>27, <1>28,
  <1>29, <1>30, <1>31, <1>32, <1>33, <1>34, <1>35, <1>36, <1>37, <1>38, <1>39, <1>40, <1>41 DEF
  Program, Kernel, FrameStep, PageStep, TeardownStep

\* A step of p leaves every other thread's page and entry as they were.
LEMMA OtherThreads ==
  ASSUME VMInv, Apart, Apart', panic = "none", NEW p \in Proc, NEW q \in Proc \ {p},
         Program(p) \/ Kernel(p)
  PROVE  /\ CurOf(q)' /\ LoadOf(q)' /\ HeldOf(q)' /\ VictimOf(q)'
         /\ TakeOf(q)' /\ ModeOf(q)' /\ MmapOf(q)'
<1>0. SameFor(q) /\ TypeOK
  BY OthersKept DEF VMInv, IInv
<1>1. CurOf(q) /\ LoadOf(q) /\ HeldOf(q) /\ VictimOf(q) /\ TakeOf(q) /\ ModeOf(q) /\ MmapOf(q)
  BY DEF VMInv, TableInv, ThreadInv
<1>2. Reach(p)
  BY ReachStep
<1>3. pc[q] \notin Idle => cur[q] \in Page /\ Owner[cur[q]] = q
  BY CurPage
<1>4. ASSUME pc[q] \in Absent \cup {"swap_in", "unpin"}
      PROVE  /\ cur[q] \in spt' <=> cur[q] \in spt
             /\ spte'[cur[q]] = spte[cur[q]] /\ pagedir'[cur[q]].frame = pagedir[cur[q]].frame
  <2>1. cur[q] \in Page /\ Owner[cur[q]] = q
    BY <1>3, <1>4 DEF Absent, Idle, LoadOf
  <2>2. pc[p] \in {"swap_out", "unload", "clear"} => cur[q] # fte[p].spte
    BY <1>4, VictimApart DEF Chosen
  <2> QED  BY <1>2, <2>1, <2>2 DEF Reach
<1>5. CurOf(q)'
  BY <1>0, <1>1 DEF CurOf, SameFor
<1>6. LoadOf(q)'
  <2>1. CASE pc[q] \in Absent \cup {"swap_in", "unpin"}
    BY <1>0, <1>1, <1>4, <2>1 DEF LoadOf, SameFor, Mapped, Absent, Pinning
  <2>2. CASE pc[q] \notin Absent \cup {"swap_in", "unpin"}
    BY <1>0, <2>2 DEF LoadOf, SameFor, Absent, Pinning
  <2> QED  BY <2>1, <2>2
<1>7. HeldOf(q)'
  <2> SUFFICES ASSUME pc[q] \in {"read_file", "install", "undo"},
                      pc[q] = "undo" => panic = "none"
               PROVE  [frame |-> frame[q], spte |-> cur[q]] \in Entries'
    BY <1>0 DEF HeldOf, SameFor
  <2> DEFINE e == [frame |-> frame[q], spte |-> cur[q]]
  <2>1. e \in Entries /\ cur[q] \in Page /\ Owner[cur[q]] = q
    BY <1>1, <1>3 DEF HeldOf, Idle
  <2>2. pc[p] = "unload" => fte[p] # e
    BY VictimApart DEF Chosen, Absent
  <2>3. pc[p] = "undo" => frame[q] # frame[p]
    <3> SUFFICES ASSUME pc[p] = "undo", frame[q] = frame[p] PROVE FALSE
      OBVIOUS
    <3>1. [frame |-> frame[p], spte |-> cur[p]] \in Entries /\ Owner[cur[p]] = p
      BY CurPage DEF Idle, VMInv, TableInv, ThreadInv, HeldOf
    <3> QED  BY <2>1, <3>1, EntriesFacts
  <2>4. pc[p] = "free_frame" => frame[q] # frame[p]
    <3> SUFFICES ASSUME pc[p] = "free_frame", frame[q] = frame[p] PROVE FALSE
      OBVIOUS
    <3>1. cur[p] \in Page /\ Owner[cur[p]] = p /\ Mapped(cur[p]) /\ frame[p] = pagedir[cur[p]].frame
      BY CurPage DEF Idle, VMInv, TableInv, ThreadInv, TakeOf, Taking
    <3>2. InUse(cur[p])
      BY <3>1 DEF InUse
    <3>3. \A r \in Proc : pc[r] # "clear"
      BY DEF Apart, Taking, Evicting
    <3>4. EntryFor(cur[p]) \in Entries
      BY <3>1, <3>2, <3>3 DEF VMInv, TableInv, PageInv, TabledOf, OutHand
    <3> QED  BY <2>1, <3>1, <3>4, EntriesFacts DEF EntryFor
  <2> QED  BY <2>1, <2>2, <2>3, <2>4, EntriesStep DEF EntriesMove
<1>8. VictimOf(q)'
  <2>1. CASE pc[q] \in Chosen \cup {"clear"}
    <3>1. VictimSame(fte[q].spte)
      BY <2>1, VictimKept
    <3> QED  BY <1>0, <1>1, <2>1, <3>1 DEF VictimOf, SameFor, VictimSame, Mapped
  <2>2. CASE pc[q] \notin Chosen \cup {"clear"}
    BY <1>0, <2>2 DEF VictimOf, SameFor
  <2> QED  BY <2>1, <2>2
<1>9. TakeOf(q)'
  <2>1. CASE pc[q] \in Taking
    <3>1. cur[q] \in Page /\ Owner[cur[q]] = q
      BY <1>3, <2>1 DEF Taking, Idle
    <3>2. pc[p] \notin Evicting
      BY <2>1 DEF Apart
    <3>3. /\ cur[q] \in spt' <=> cur[q] \in spt
          /\ spte'[cur[q]] = spte[cur[q]] /\ pagedir'[cur[q]].frame = pagedir[cur[q]].frame
      BY <1>2, <3>1, <3>2 DEF Reach, Evicting
    <3> QED  BY <1>0, <1>1, <2>1, <3>3 DEF TakeOf, SameFor, Mapped, Taking
  <2>2. CASE pc[q] \notin Taking
    BY <1>0, <2>2 DEF TakeOf, SameFor, Taking
  <2> QED  BY <2>1, <2>2
<1>10. \A pg \in PagesOf(q) : pg \in spt' <=> pg \in spt
  BY <1>2 DEF Reach, PagesOf
<1>11. PagesOf(q) \cap spt' = PagesOf(q) \cap spt
  BY <1>10
<1>12. ModeOf(q)'
  BY <1>0, <1>1, <1>11 DEF ModeOf, SameFor, PagesOf
<1>13. MmapOf(q)'
  BY <1>0, <1>1, <1>10 DEF MmapOf, SameFor, PagesOf
<1> QED  BY <1>5, <1>6, <1>7, <1>8, <1>9, <1>12, <1>13

\* What the labels say of the pages holds again after every step.
LEMMA ThreadStep ==
  ASSUME VMInv, Apart, Apart', panic = "none", NEW p \in Proc, Program(p) \/ Kernel(p)
  PROVE  ThreadInv'
<1>1. /\ CurOf(p)' /\ LoadOf(p)' /\ HeldOf(p)' /\ VictimOf(p)'
      /\ TakeOf(p)' /\ ModeOf(p)' /\ MmapOf(p)'
  BY CurMove, LoadMove, HeldMove, VictimMove, TakeMove, ModeMove, MmapMove
<1>2. ASSUME NEW q \in Proc \ {p}
      PROVE  /\ CurOf(q)' /\ LoadOf(q)' /\ HeldOf(q)' /\ VictimOf(q)'
             /\ TakeOf(q)' /\ ModeOf(q)' /\ MmapOf(q)'
  BY OtherThreads
<1> QED  BY <1>1, <1>2 DEF ThreadInv


-----------------------------------------------------------------------------
\* Only pagedir_clear_page ends an eviction's hold on its victim.
LEMMA ClearKept ==
  ASSUME VMInv, NEW p \in Proc, Program(p) \/ Kernel(p)
  PROVE  /\ \A r \in Proc : pc[r] = "clear" => (pc'[r] = "clear" /\ fte'[r] = fte[r]) \/ r = p
         /\ pc[p] = "clear" => ClearPage(p)
<1>1. pc[p] = "clear" => ClearPage(p)
  BY DEF Program, Kernel, FrameStep, PageStep, TeardownStep, FrameAlloc, FrameAllocFails,
    EvictFrame, ScanEntry, TestVictim, WriteBack, SwapOut, Unload, ReleaseFrame, Repalloc,
    AddFrame, LoadPage, StackGrowth, BadAddress, ReadFile, InstallPage, InstallFails, SwapIn,
    Unpin, Undo, SysLock, SysCopy, KernelFault, ProcessExit, NextMapping, LastMapping, NextEntry,
    CheckLoaded, MmLock, MmWrite, GetPage, FreePage, UnmapPage, DropEntry, PagedirDestroy,
    UserAccess, UserFault, SysIO, Mmap, Munmap, Exit
<1>2. \A r \in Proc \ {p} : pc'[r] = pc[r] /\ fte'[r] = fte[r]
  BY OthersKept DEF SameFor, VMInv, IInv
<1> QED  BY <1>1, <1>2

\* As long as a page stays mapped, the eviction that holds it does.
LEMMA LeavingKept ==
  ASSUME VMInv, panic = "none", NEW p \in Proc, Program(p) \/ Kernel(p), NEW pg \in Page,
         pagedir'[pg].frame # None
  PROVE  /\ Leaving(pg) => Leaving(pg)'
         /\ \A e \in Entry : e.spte = pg /\ OutHand(e) => OutHand(e)'
<1>1. ASSUME NEW r \in Proc, pc[r] = "clear", fte[r].spte = pg
      PROVE  pc'[r] = "clear" /\ fte'[r] = fte[r]
  <2>1. CASE r = p
    <3>1. pagedir' = [pagedir EXCEPT ![pg].frame = None] /\ pagedir \in [Page -> Pte]
      BY <1>1, <2>1, ClearKept DEF ClearPage, Cleared, VMInv, IInv, TypeOK
    <3> QED  BY <3>1
  <2>2. CASE r # p
    BY <1>1, <2>2, ClearKept
  <2> QED  BY <2>1, <2>2
<1> QED  BY <1>1 DEF Leaving, OutHand

\* A mapped page is in its owner's table.
LEMMA MapStep ==
  ASSUME VMInv, Apart, Apart', panic = "none", NEW p \in Proc, Program(p) \/ Kernel(p),
         NEW x \in Page
  PROVE  MapOf(x)'
<1>0. /\ pc \in [Proc -> Labels] /\ cur \in [Proc -> Page \cup {None}]
      /\ pagedir \in [Page -> Pte] /\ spte \in [Page -> Spte] /\ spt \subseteq Page
  BY DEF VMInv, IInv, TypeOK
<1>o. /\ Owner[x] \in Proc
      /\ Owner[x] # p => pc'[Owner[x]] = pc[Owner[x]] /\ cur'[Owner[x]] = cur[Owner[x]]
  BY OthersKept, VMConstants DEF SameFor, VMInv, IInv
<1>c. pc[p] \notin Idle => cur[p] \in Page /\ Owner[cur[p]] = p
  BY CurPage
<1>v. pagedir'[x].frame # None /\ Leaving(x) => Leaving(x)'
  BY LeavingKept
<1>m. MapOf(x)
  BY DEF VMInv, TableInv, PageInv
<1>1. CASE FrameAlloc(p)
  BY <1>1, <1>0, <1>m, <1>o, <1>v DEF FrameAlloc, Goto, TakeFrame, MapOf, At, Mapped, locals,
    pages
<1>2. CASE FrameAllocFails(p)
  BY <1>2, <1>0, <1>m, <1>o, <1>v DEF FrameAllocFails, Goto, MapOf, At, Mapped, locals, pages
<1>3. CASE EvictFrame(p)
  BY <1>3, <1>0, <1>m, <1>o, <1>v DEF EvictFrame, Goto, MapOf, At, Mapped, locals, pages
<1>4. CASE ScanEntry(p)
  <2>1. pagedir'[x].frame = pagedir[x].frame
    BY <1>4, <1>0, HandEntry DEF ScanEntry, ClearAccessed, Entry, Pte
  <2> QED  BY <1>4, <1>0, <1>m, <1>o, <1>v, <2>1 DEF ScanEntry, MapOf, At, Mapped, Leaving,
    locals,
    pages
<1>5. CASE TestVictim(p)
  BY <1>5, <1>0, <1>m, <1>o, <1>v DEF TestVictim, Goto, MapOf, At, Mapped, locals, pages
<1>6. CASE WriteBack(p)
  BY <1>6, <1>0, <1>m, <1>o, <1>v DEF WriteBack, Goto, MapOf, At, Mapped, locals, pages
<1>7. CASE SwapOut(p)
  <2>1. /\ spte'[x].is_loaded = spte[x].is_loaded /\ spte'[x].pinned = spte[x].pinned
        /\ spt' = spt /\ pagedir' = pagedir /\ cur' = cur /\ pc[p] = "swap_out"
    BY <1>7, SwapOutEffect DEF SwapOut, locals
  <2>2. pc'[p] \in {"swap_out", "unload"}
    BY <1>7, <1>0 DEF SwapOut, Goto
  <2> QED  BY <1>7, <1>0, <1>m, <1>o, <1>v, <2>1, <2>2 DEF SwapOut, MapOf, At, Mapped, Leaving,
    locals, pages
<1>8. CASE Unload(p)
  <2>1. /\ spte'[x].is_loaded = (spte[x].is_loaded /\ x # fte[p].spte)
        /\ spt' = spt /\ pagedir' = pagedir /\ cur' = cur /\ pc[p] = "unload"
        /\ pc'[p] = "clear" /\ fte' = fte
    BY <1>8, <1>0, VictimApart DEF Unload, NotLoaded, Spte, Chosen, locals, Goto
  <2> QED  BY <1>8, <1>0, <1>m, <1>o, <1>v, <2>1 DEF Unload, MapOf, At, Mapped, Leaving, locals,
    pages
<1>9. CASE ClearPage(p)
  <2>1. /\ pagedir'[x].frame = IF x = fte[p].spte THEN None ELSE pagedir[x].frame
        /\ spt' = spt /\ spte' = spte /\ cur' = cur /\ pc[p] = "clear" /\ pc'[p] = "release"
    BY <1>9, <1>0, VictimApart DEF ClearPage, Cleared, Pte, locals, Goto
  <2> QED  BY <1>9, <1>0, <1>m, <1>o, <1>v, <2>1 DEF ClearPage, MapOf, At, Mapped, Leaving,
    locals,
    pages
<1>10. CASE ReleaseFrame(p)
  BY <1>10, <1>0, <1>m, <1>o, <1>v DEF ReleaseFrame, Goto, MapOf, At, Mapped, locals, pages
<1>11. CASE Repalloc(p)
  BY <1>11, <1>0, <1>m, <1>o, <1>v DEF Repalloc, Goto, Retry, TakeFrame, MapOf, At, Mapped,
    locals, pages
<1>12. CASE AddFrame(p)
  BY <1>12, <1>0, <1>m, <1>o, <1>v DEF AddFrame, Goto, MapOf, At, Mapped, locals, pages
<1>13. CASE LoadPage(p)
  <2>1. cur[p] \in Page /\ ~Mapped(cur[p]) /\ cur' = cur
    BY <1>13, CurPage DEF LoadPage, Idle, VMInv, TableInv, ThreadInv, LoadOf, Absent, locals
  <2>2. /\ spt' = spt /\ pagedir' = pagedir /\ spte'[x].is_loaded = spte[x].is_loaded
        /\ spte'[x].type = spte[x].type
    BY <1>13, <1>0, <2>1 DEF LoadPage, Spte
  <2>3. pc[p] = "fault" /\ pc'[p] \in {"palloc", "exit", "fault"}
    BY <1>13, <1>0 DEF LoadPage, Kill, Goto
  <2> QED  BY <1>13, <1>0, <1>m, <1>o, <1>v, <2>1, <2>2, <2>3 DEF LoadPage, MapOf, At, Mapped,
    Leaving, locals, pages
<1>14. CASE StackGrowth(p)
  <2>1. cur[p] \in Page /\ ~Mapped(cur[p]) /\ cur' = cur /\ cur[p] \notin spt
    BY <1>14, CurPage DEF StackGrowth, Idle, VMInv, TableInv, ThreadInv, LoadOf, Absent, locals
  <2>2. spt' = spt /\ pagedir' = pagedir /\ (x # cur[p] => spte'[x] = spte[x])
    BY <1>14, <1>0, <2>1 DEF StackGrowth
  <2>3. pc[p] = "fault" /\ pc'[p] = "palloc"
    BY <1>14, <1>0 DEF StackGrowth, Goto
  <2> QED  BY <1>14, <1>0, <1>m, <1>o, <1>v, <2>1, <2>2, <2>3 DEF StackGrowth, MapOf, At, Mapped,
    Leaving, locals, pages
<1>15. CASE BadAddress(p)
  BY <1>15, <1>0, <1>m, <1>o, <1>v DEF BadAddress, Goto, Kill, MapOf, At, Mapped, locals, pages
<1>16. ASSUME NEW short \in BOOLEAN, ReadFile(p, short) PROVE MapOf(x)'
  BY <1>16, <1>0, <1>m, <1>o, <1>v DEF ReadFile, Goto, AfterRead, MapOf, At, Mapped, locals, pages
<1>16f. CASE InstallFails(p)
  BY <1>16f, <1>0, <1>m, <1>o, <1>v DEF InstallFails, Goto, MapOf, At, Mapped, locals, pages
<1>17. CASE InstallPage(p)
  <2>1. /\ cur[p] \in Page /\ ~Mapped(cur[p]) /\ cur' = cur /\ frame[p] \in Frame
        /\ cur[p] \notin spt => /\ Kind[cur[p]] = "STACK" /\ spte[cur[p]].is_loaded
                              /\ spte[cur[p]].type = "SWAP"
        /\ cur[p] \in spt => ~spte[cur[p]].is_loaded
    BY <1>17, CurPage DEF InstallPage, Idle, VMInv, TableInv, ThreadInv, LoadOf, Absent, Pinning,
      IInv, LocalsInv, LocalsOf
  <2>2. /\ spt' = spt \cup {cur[p]} /\ (x # cur[p] => spte'[x] = spte[x])
        /\ pagedir' = [pagedir EXCEPT ![cur[p]] = [Unmapped EXCEPT !.frame = frame[p]]]
    BY <1>17, <1>0, <2>1 DEF InstallPage
  <2>3. x # cur[p] => pagedir'[x] = pagedir[x]
    BY <1>0, <2>1, <2>2
  <2>4. pagedir'[cur[p]].frame = frame[p]
    BY <1>0, <2>1, <2>2 DEF Unmapped
  <2>5. spte' = IF cur[p] \in spt /\ spte[cur[p]].type # "SWAP"
                THEN [spte EXCEPT ![cur[p]].is_loaded = TRUE] ELSE spte
    BY <1>17, <2>1 DEF InstallPage
  <2>6. /\ spte'[cur[p]].type = spte[cur[p]].type
        /\ spte'[cur[p]].is_loaded <=> cur[p] \notin spt \/ spte[cur[p]].type # "SWAP"
    BY <1>0, <2>1, <2>5 DEF Spte
  <2>7. /\ pc[p] = "install" /\ pc'[p] \in {"swap_in", "unpin", "user", "copy", "mm_write"}
        /\ cur[p] \in spt /\ spte[cur[p]].type = "SWAP" => pc'[p] = "swap_in"
    <3>1. CASE cur[p] \notin spt
      BY <1>17, <1>0, <2>1, <3>1 DEF InstallPage, Resume, Goto
    <3>2. CASE cur[p] \in spt /\ spte[cur[p]].type = "SWAP"
      BY <1>17, <1>0, <2>1, <3>2 DEF InstallPage, Goto
    <3>3. CASE cur[p] \in spt /\ spte[cur[p]].type # "SWAP"
      BY <1>17, <1>0, <2>1, <3>3 DEF InstallPage, Goto
    <3> QED  BY <3>1, <3>2, <3>3
  <2>8. CASE x = cur[p]
    BY <1>c, <1>17, <2>1, <2>2, <2>6, <2>7, <2>8 DEF InstallPage, Idle, MapOf, At
  <2>9. CASE x # cur[p]
    BY <1>m, <1>o, <1>v, <2>1, <2>2, <2>3, <2>9 DEF MapOf, At, Mapped
  <2> QED  BY <2>8, <2>9
<1>18. CASE SwapIn(p)
  <2>1. /\ cur[p] \in Page /\ Mapped(cur[p]) /\ cur' = cur /\ cur[p] \in spt /\ spt' = spt
        /\ pc[p] = "swap_in" /\ spte[cur[p]].type = "SWAP" /\ ~spte[cur[p]].is_loaded
    BY <1>18, CurPage DEF SwapIn, Idle, VMInv, TableInv, ThreadInv, LoadOf, locals
  <2>2. \/ spte' = spte /\ pagedir' = pagedir /\ pc' = pc
        \/ /\ spte' = [spte EXCEPT ![cur[p]].is_loaded = TRUE] /\ pc'[p] = "unpin"
           /\ pagedir' = [pagedir EXCEPT ![cur[p]].accessed = TRUE, ![cur[p]].dirty = TRUE]
    BY <1>18, <1>0 DEF SwapIn, Goto
  <2>3. /\ pagedir'[x].frame = pagedir[x].frame /\ spte'[x].type = spte[x].type
        /\ x # cur[p] => spte'[x] = spte[x]
        /\ \/ pc' = pc /\ spte'[cur[p]].is_loaded = spte[cur[p]].is_loaded
           \/ pc'[p] = "unpin" /\ spte'[cur[p]].is_loaded
    BY <1>0, <2>1, <2>2 DEF Pte, Spte
  <2> QED  BY <1>18, <1>0, <1>m, <1>o, <1>v, <2>1, <2>2, <2>3 DEF SwapIn, MapOf, At, Mapped,
    Leaving,
    locals, pages
<1>19. CASE Unpin(p)
  <2>1. cur[p] \in Page /\ cur' = cur /\ spt' = spt /\ pagedir' = pagedir /\ pc[p] = "unpin"
    BY <1>19, CurPage DEF Unpin, Idle
  <2>2. spte'[x].is_loaded = spte[x].is_loaded /\ spte'[x].type = spte[x].type
    BY <1>19, <1>0, <2>1 DEF Unpin, Spte
  <2>3. pc'[p] \in {"user", "copy", "mm_write"}
    BY <1>19, <1>0 DEF Unpin, Resume, Goto
  <2> QED  BY <1>19, <1>0, <1>m, <1>o, <1>v, <2>1, <2>2, <2>3 DEF Unpin, MapOf, At, Mapped,
    Leaving,
    locals, pages
<1>20. CASE Undo(p)
  <2>1. /\ cur[p] \in Page /\ cur' = cur /\ spt' = spt /\ pagedir' = pagedir /\ pc[p] = "undo"
        /\ ~Mapped(cur[p])
    BY <1>20, CurPage DEF Undo, Idle, VMInv, TableInv, ThreadInv, LoadOf, Absent
  <2>2. spte'[x].is_loaded = spte[x].is_loaded /\ spte'[x].type = spte[x].type
    BY <1>20, <1>0, <2>1 DEF Undo, Spte
  <2>3. pc'[p] \in {"undo", "exit"}
    <3>1. pc[p] = "undo" /\ Kill(p)
      BY <1>20 DEF Undo
    <3> QED  BY <1>0, <3>1 DEF Kill, Goto
  <2> QED  BY <1>20, <1>0, <1>m, <1>o, <1>v, <2>1, <2>2, <2>3 DEF Undo, MapOf, At, Mapped,
    Leaving,
    locals, pages
<1>21. CASE SysLock(p)
  BY <1>21, <1>0, <1>m, <1>o, <1>v DEF SysLock, Goto, MapOf, At, Mapped, locals, pages
<1>22. ASSUME NEW write \in BOOLEAN, SysCopy(p, write) PROVE MapOf(x)'
  <2>1. /\ cur[p] \in Page /\ cur' = cur /\ spt' = spt /\ spte' = spte /\ pc[p] = "copy"
        /\ pc'[p] = "user"
    BY <1>22, <1>0, CurPage DEF SysCopy, Idle, locals, Goto
  <2>2. pagedir'[x].frame = pagedir[x].frame
    BY <1>22, <1>0, <2>1 DEF SysCopy, Touch, Pte
  <2> QED  BY <1>22, <1>0, <1>m, <1>o, <1>v, <2>1, <2>2 DEF SysCopy, MapOf, At, Mapped, Leaving,
    locals, pages
<1>23. CASE KernelFault(p)
  BY <1>23, <1>0, <1>m, <1>o, <1>v DEF KernelFault, Goto, MapOf, At, Mapped, locals, pages
<1>24. CASE ProcessExit(p)
  BY <1>24, <1>0, <1>m, <1>o, <1>v DEF ProcessExit, Goto, MapOf, At, Mapped, locals, pages
<1>25. CASE NextMapping(p)
  <2>1. Head(mmap_list[p]) \in Page /\ spt' = spt /\ pagedir' = pagedir
    BY <1>25, HeadMapping, <1>0 DEF NextMapping
  <2>2. spte'[x].is_loaded = spte[x].is_loaded /\ spte'[x].type = spte[x].type
    BY <1>25, <1>0, <2>1 DEF NextMapping, Spte
  <2>3. pc[p] = "next" /\ pc'[p] = "check"
    BY <1>25, <1>0 DEF NextMapping, Goto
  <2> QED  BY <1>25, <1>0, <1>m, <1>o, <1>v, <2>1, <2>2, <2>3 DEF NextMapping, MapOf, At, Mapped,
    Leaving, locals, pages
<1>26. CASE LastMapping(p)
  BY <1>26, <1>0, <1>m, <1>o, <1>v DEF LastMapping, Goto, MapOf, At, Mapped, locals, pages
<1>27. CASE NextEntry(p)
  BY <1>27, <1>0, <1>m, <1>o, <1>v DEF NextEntry, Goto, MapOf, At, Mapped, locals, pages
<1>28. CASE CheckLoaded(p)
  BY <1>28, <1>0, <1>m, <1>o, <1>v DEF CheckLoaded, Goto, HasFrame, MapOf, At, Mapped, locals,
    pages
<1>29. CASE MmLock(p)
  BY <1>29, <1>0, <1>m, <1>o, <1>v DEF MmLock, Goto, MapOf, At, Mapped, locals, pages
<1>30. CASE MmWrite(p)
  <2>1. /\ cur[p] \in Page /\ cur' = cur /\ spt' = spt /\ spte' = spte /\ pc[p] = "mm_write"
        /\ pc'[p] = "get_page"
    BY <1>30, <1>0, CurPage DEF MmWrite, Idle, locals, Goto
  <2>2. pagedir'[x].frame = pagedir[x].frame
    BY <1>30, <1>0, <2>1 DEF MmWrite, Pte
  <2> QED  BY <1>30, <1>0, <1>m, <1>o, <1>v, <2>1, <2>2 DEF MmWrite, MapOf, At, Mapped, Leaving,
    locals, pages
<1>31. CASE GetPage(p)
  BY <1>31, <1>0, <1>m, <1>o, <1>v DEF GetPage, Goto, MapOf, At, Mapped, locals, pages
<1>32. CASE FreePage(p)
  BY <1>32, <1>0, <1>m, <1>o, <1>v DEF FreePage, Goto, MapOf, At, Mapped, locals, pages
<1>33. CASE UnmapPage(p)
  <2>1. /\ cur[p] \in Page /\ Owner[cur[p]] = p /\ cur' = cur /\ spt' = spt /\ spte' = spte
        /\ pc[p] = "clear_page" /\ pc'[p] = "drop"
    BY <1>33, <1>0, CurPage DEF UnmapPage, Idle, locals, Goto
  <2>2. pagedir'[x].frame = IF x = cur[p] THEN None ELSE pagedir[x].frame
    BY <1>33, <1>0, <2>1 DEF UnmapPage, Cleared, Pte
  <2> QED  BY <1>33, <1>0, <1>m, <1>o, <1>v, <2>1, <2>2 DEF UnmapPage, MapOf, At, Mapped, Leaving,
    locals, pages
<1>34. CASE DropEntry(p)
  <2>1. /\ cur[p] \in Page /\ ~Mapped(cur[p])
        /\ spt' = spt \ {cur[p]} /\ spte' = spte /\ pagedir' = pagedir
        /\ cur' = cur /\ pc[p] = "drop" /\ pc'[p] = "next"
    BY <1>34, <1>0, CurPage DEF DropEntry, Idle, locals, Goto, VMInv, TableInv, ThreadInv, TakeOf
  <2> QED  BY <1>34, <1>0, <1>m, <1>o, <1>v, <2>1 DEF DropEntry, MapOf, At, Mapped, Leaving,
    locals,
    pages
<1>35. CASE PagedirDestroy(p)
  <2>1. PagesOf(p) \cap spt = {} /\ pc[p] = "pagedir" /\ pc'[p] = "dead"
    BY <1>35, <1>0 DEF PagedirDestroy, Goto, VMInv, TableInv, ThreadInv, ModeOf
  <2>2. /\ spt' = spt /\ spte' = spte
        /\ pagedir'[x] = IF x \in PagesOf(p) THEN Unmapped ELSE pagedir[x]
    BY <1>35, <1>0 DEF PagedirDestroy
  <2> QED  BY <1>35, <1>0, <1>m, <1>o, <1>v, <2>1, <2>2 DEF MapOf, At, Mapped, PagesOf, Unmapped
<1>36. ASSUME NEW pg \in PagesOf(p), NEW write \in BOOLEAN, UserAccess(p, pg, write)
       PROVE MapOf(x)'
  <2>1. spt' = spt /\ spte' = spte /\ pc' = pc /\ cur' = cur /\ pg \in Page
    BY <1>36 DEF UserAccess, PagesOf, locals
  <2>2. pagedir'[x].frame = pagedir[x].frame
    BY <1>36, <1>0, <2>1 DEF UserAccess, Touch, Pte
  <2> QED  BY <1>36, <1>0, <1>m, <1>o, <1>v, <2>1, <2>2 DEF UserAccess, MapOf, At, Mapped,
    Leaving,
    locals, pages
<1>37. ASSUME NEW pg \in PagesOf(p), UserFault(p, pg), Known(pg) \/ "exit" \in Calls
       PROVE MapOf(x)'
  BY <1>37, <1>0, <1>m, <1>o, <1>v DEF UserFault, Goto, MapOf, At, Mapped, locals, pages
<1>38. ASSUME NEW pg \in PagesOf(p), SysIO(p, pg) PROVE MapOf(x)'
  BY <1>38, <1>0, <1>m, <1>o, <1>v DEF SysIO, Goto, MapOf, At, Mapped, locals, pages
<1>39. CASE Mmap(p)
  <2>1. \A pg \in ToSet(Region[p]) : pg \notin spt /\ Kind[pg] = "MMAP" /\ Owner[pg] = p
    <3>1. mmap_list[p] = <<>> /\ MmapOf(p)
      BY <1>39 DEF Mmap, VMInv, TableInv, ThreadInv
    <3> QED  BY <1>0, <3>1, RegionFacts DEF MmapOf, PagesOf
  <2>2. /\ spt' = spt \cup ToSet(Region[p]) /\ pagedir' = pagedir /\ pc' = pc /\ cur' = cur
        /\ x \notin ToSet(Region[p]) => spte'[x] = spte[x]
        /\ x \in ToSet(Region[p]) => spte'[x] = NewSpte("MMAP")
    BY <1>39, <1>0 DEF Mmap, locals
  <2> QED  BY <1>39, <1>0, <1>m, <1>o, <1>v, <2>1, <2>2 DEF Mmap, MapOf, At, Mapped, Leaving,
    locals,
    pages
<1>40. CASE Munmap(p)
  BY <1>40, <1>0, <1>m, <1>o, <1>v DEF Munmap, Goto, MapOf, At, Mapped, locals, pages
<1>41. CASE Exit(p)
  BY <1>41, <1>0, <1>m, <1>o, <1>v DEF Exit, Goto, MapOf, At, Mapped, locals, pages
<1> QED  BY <1>1, <1>2, <1>3, <1>4, <1>5, <1>6, <1>7, <1>8, <1>9, <1>10, <1>11, <1>12, <1>13,
  <1>14, <1>15,
  <1>16, <1>16f, <1>17, <1>18, <1>19, <1>20, <1>21, <1>22, <1>23, <1>24, <1>25, <1>26, <1>27, <1>28,
  <1>29, <1>30, <1>31, <1>32, <1>33, <1>34, <1>35, <1>36, <1>37, <1>38, <1>39, <1>40, <1>41 DEF
  Program, Kernel, FrameStep, PageStep, TeardownStep

\* A page marked as loaded is mapped.
LEMMA LoadedStep ==
  ASSUME VMInv, Apart, Apart', panic = "none", NEW p \in Proc, Program(p) \/ Kernel(p),
         NEW x \in Page
  PROVE  LoadedOf(x)'
<1>0. /\ pc \in [Proc -> Labels] /\ cur \in [Proc -> Page \cup {None}]
      /\ pagedir \in [Page -> Pte] /\ spte \in [Page -> Spte] /\ spt \subseteq Page
  BY DEF VMInv, IInv, TypeOK
<1>o. /\ Owner[x] \in Proc
      /\ Owner[x] # p => pc'[Owner[x]] = pc[Owner[x]] /\ cur'[Owner[x]] = cur[Owner[x]]
  BY OthersKept, VMConstants DEF SameFor, VMInv, IInv
<1>c. pc[p] \notin Idle => cur[p] \in Page /\ Owner[cur[p]] = p
  BY CurPage
<1>m. LoadedOf(x)
  BY DEF VMInv, TableInv, PageInv
<1>1. CASE FrameAlloc(p)
  BY <1>1, <1>0, <1>m, <1>o DEF FrameAlloc, Goto, TakeFrame, LoadedOf, At, Mapped, locals, pages
<1>2. CASE FrameAllocFails(p)
  BY <1>2, <1>0, <1>m, <1>o DEF FrameAllocFails, Goto, LoadedOf, At, Mapped, locals, pages
<1>3. CASE EvictFrame(p)
  BY <1>3, <1>0, <1>m, <1>o DEF EvictFrame, Goto, LoadedOf, At, Mapped, locals, pages
<1>4. CASE ScanEntry(p)
  <2>1. pagedir'[x].frame = pagedir[x].frame
    BY <1>4, <1>0, HandEntry DEF ScanEntry, ClearAccessed, Entry, Pte
  <2> QED  BY <1>4, <1>0, <1>m, <1>o, <2>1 DEF ScanEntry, LoadedOf, At, Mapped, locals, pages
<1>5. CASE TestVictim(p)
  BY <1>5, <1>0, <1>m, <1>o DEF TestVictim, Goto, LoadedOf, At, Mapped, locals, pages
<1>6. CASE WriteBack(p)
  BY <1>6, <1>0, <1>m, <1>o DEF WriteBack, Goto, LoadedOf, At, Mapped, locals, pages
<1>7. CASE SwapOut(p)
  <2>1. /\ spte'[x].is_loaded = spte[x].is_loaded /\ spte'[x].pinned = spte[x].pinned
        /\ spt' = spt /\ pagedir' = pagedir /\ cur' = cur /\ pc[p] = "swap_out"
    BY <1>7, SwapOutEffect DEF SwapOut, locals
  <2>2. pc'[p] \in {"swap_out", "unload"}
    BY <1>7, <1>0 DEF SwapOut, Goto
  <2> QED  BY <1>7, <1>0, <1>m, <1>o, <2>1, <2>2 DEF SwapOut, LoadedOf, At, Mapped, locals, pages
<1>8. CASE Unload(p)
  <2>1. /\ spte'[x].is_loaded = (spte[x].is_loaded /\ x # fte[p].spte)
        /\ spt' = spt /\ pagedir' = pagedir /\ cur' = cur /\ pc[p] = "unload"
        /\ pc'[p] = "clear" /\ fte' = fte
    BY <1>8, <1>0, VictimApart DEF Unload, NotLoaded, Spte, Chosen, locals, Goto
  <2> QED  BY <1>8, <1>0, <1>m, <1>o, <2>1 DEF Unload, LoadedOf, At, Mapped, locals, pages
<1>9. CASE ClearPage(p)
  <2>1. /\ pagedir'[x].frame = IF x = fte[p].spte THEN None ELSE pagedir[x].frame
        /\ spt' = spt /\ spte' = spte /\ cur' = cur /\ pc[p] = "clear" /\ pc'[p] = "release"
    BY <1>9, <1>0, VictimApart DEF ClearPage, Cleared, Pte, locals, Goto
  <2>2. ~spte[fte[p].spte].is_loaded
    BY <2>1 DEF VMInv, TableInv, ThreadInv, VictimOf
  <2> QED  BY <1>0, <1>m, <1>o, <2>1, <2>2 DEF LoadedOf, At, Mapped
<1>10. CASE ReleaseFrame(p)
  BY <1>10, <1>0, <1>m, <1>o DEF ReleaseFrame, Goto, LoadedOf, At, Mapped, locals, pages
<1>11. CASE Repalloc(p)
  BY <1>11, <1>0, <1>m, <1>o DEF Repalloc, Goto, Retry, TakeFrame, LoadedOf, At, Mapped, locals,
    pages
<1>12. CASE AddFrame(p)
  BY <1>12, <1>0, <1>m, <1>o DEF AddFrame, Goto, LoadedOf, At, Mapped, locals, pages
<1>13. CASE LoadPage(p)
  <2>1. cur[p] \in Page /\ ~Mapped(cur[p]) /\ cur' = cur
    BY <1>13, CurPage DEF LoadPage, Idle, VMInv, TableInv, ThreadInv, LoadOf, Absent, locals
  <2>2. /\ spt' = spt /\ pagedir' = pagedir /\ spte'[x].is_loaded = spte[x].is_loaded
        /\ spte'[x].type = spte[x].type
    BY <1>13, <1>0, <2>1 DEF LoadPage, Spte
  <2>3. pc[p] = "fault" /\ pc'[p] \in {"palloc", "exit", "fault"}
    BY <1>13, <1>0 DEF LoadPage, Kill, Goto
  <2> QED  BY <1>13, <1>0, <1>m, <1>o, <2>1, <2>2, <2>3 DEF LoadPage, LoadedOf, At, Mapped,
    locals,
    pages
<1>14. CASE StackGrowth(p)
  <2>1. cur[p] \in Page /\ ~Mapped(cur[p]) /\ cur' = cur /\ cur[p] \notin spt
    BY <1>14, CurPage DEF StackGrowth, Idle, VMInv, TableInv, ThreadInv, LoadOf, Absent, locals
  <2>2. spt' = spt /\ pagedir' = pagedir /\ (x # cur[p] => spte'[x] = spte[x])
    BY <1>14, <1>0, <2>1 DEF StackGrowth
  <2>3. pc[p] = "fault" /\ pc'[p] = "palloc"
    BY <1>14, <1>0 DEF StackGrowth, Goto
  <2> QED  BY <1>14, <1>0, <1>m, <1>o, <2>1, <2>2, <2>3 DEF StackGrowth, LoadedOf, At, Mapped,
    locals,
    pages
<1>15. CASE BadAddress(p)
  BY <1>15, <1>0, <1>m, <1>o DEF BadAddress, Goto, Kill, LoadedOf, At, Mapped, locals, pages
<1>16. ASSUME NEW short \in BOOLEAN, ReadFile(p, short) PROVE LoadedOf(x)'
  BY <1>16, <1>0, <1>m, <1>o DEF ReadFile, Goto, AfterRead, LoadedOf, At, Mapped, locals, pages
<1>16f. CASE InstallFails(p)
  BY <1>16f, <1>0, <1>m, <1>o DEF InstallFails, Goto, LoadedOf, At, Mapped, locals, pages
<1>17. CASE InstallPage(p)
  <2>1. /\ cur[p] \in Page /\ ~Mapped(cur[p]) /\ cur' = cur /\ frame[p] \in Frame
        /\ cur[p] \notin spt => /\ Kind[cur[p]] = "STACK" /\ spte[cur[p]].is_loaded
                              /\ spte[cur[p]].type = "SWAP"
        /\ cur[p] \in spt => ~spte[cur[p]].is_loaded
    BY <1>17, CurPage DEF InstallPage, Idle, VMInv, TableInv, ThreadInv, LoadOf, Absent, Pinning,
      IInv, LocalsInv, LocalsOf
  <2>2. /\ spt' = spt \cup {cur[p]} /\ (x # cur[p] => spte'[x] = spte[x])
        /\ pagedir' = [pagedir EXCEPT ![cur[p]] = [Unmapped EXCEPT !.frame = frame[p]]]
    BY <1>17, <1>0, <2>1 DEF InstallPage
  <2>3. x # cur[p] => pagedir'[x] = pagedir[x]
    BY <1>0, <2>1, <2>2
  <2>4. pagedir'[cur[p]].frame = frame[p]
    BY <1>0, <2>1, <2>2 DEF Unmapped
  <2>5. spte' = IF cur[p] \in spt /\ spte[cur[p]].type # "SWAP"
                THEN [spte EXCEPT ![cur[p]].is_loaded = TRUE] ELSE spte
    BY <1>17, <2>1 DEF InstallPage
  <2>6. /\ spte'[cur[p]].type = spte[cur[p]].type
        /\ spte'[cur[p]].is_loaded <=> cur[p] \notin spt \/ spte[cur[p]].type # "SWAP"
    BY <1>0, <2>1, <2>5 DEF Spte
  <2>7. /\ pc[p] = "install" /\ pc'[p] \in {"swap_in", "unpin", "user", "copy", "mm_write"}
        /\ cur[p] \in spt /\ spte[cur[p]].type = "SWAP" => pc'[p] = "swap_in"
    <3>1. CASE cur[p] \notin spt
      BY <1>17, <1>0, <2>1, <3>1 DEF InstallPage, Resume, Goto
    <3>2. CASE cur[p] \in spt /\ spte[cur[p]].type = "SWAP"
      BY <1>17, <1>0, <2>1, <3>2 DEF InstallPage, Goto
    <3>3. CASE cur[p] \in spt /\ spte[cur[p]].type # "SWAP"
      BY <1>17, <1>0, <2>1, <3>3 DEF InstallPage, Goto
    <3> QED  BY <3>1, <3>2, <3>3
  <2>8. None \notin Frame
    BY VMConstants
  <2> QED  BY <1>m, <1>o, <2>1, <2>2, <2>3, <2>4, <2>7, <2>8 DEF LoadedOf, At, Mapped
<1>18. CASE SwapIn(p)
  <2>1. /\ cur[p] \in Page /\ Mapped(cur[p]) /\ cur' = cur /\ cur[p] \in spt /\ spt' = spt
        /\ pc[p] = "swap_in" /\ spte[cur[p]].type = "SWAP" /\ ~spte[cur[p]].is_loaded
    BY <1>18, CurPage DEF SwapIn, Idle, VMInv, TableInv, ThreadInv, LoadOf, locals
  <2>2. \/ spte' = spte /\ pagedir' = pagedir /\ pc' = pc
        \/ /\ spte' = [spte EXCEPT ![cur[p]].is_loaded = TRUE] /\ pc'[p] = "unpin"
           /\ pagedir' = [pagedir EXCEPT ![cur[p]].accessed = TRUE, ![cur[p]].dirty = TRUE]
    BY <1>18, <1>0 DEF SwapIn, Goto
  <2>3. /\ pagedir'[x].frame = pagedir[x].frame /\ spte'[x].type = spte[x].type
        /\ x # cur[p] => spte'[x] = spte[x]
        /\ \/ pc' = pc /\ spte'[cur[p]].is_loaded = spte[cur[p]].is_loaded
           \/ pc'[p] = "unpin" /\ spte'[cur[p]].is_loaded
    BY <1>0, <2>1, <2>2 DEF Pte, Spte
  <2> QED  BY <1>18, <1>0, <1>m, <1>o, <2>1, <2>2, <2>3 DEF SwapIn, LoadedOf, At, Mapped, locals,
    pages
<1>19. CASE Unpin(p)
  <2>1. cur[p] \in Page /\ cur' = cur /\ spt' = spt /\ pagedir' = pagedir /\ pc[p] = "unpin"
    BY <1>19, CurPage DEF Unpin, Idle
  <2>2. spte'[x].is_loaded = spte[x].is_loaded /\ spte'[x].type = spte[x].type
    BY <1>19, <1>0, <2>1 DEF Unpin, Spte
  <2>3. pc'[p] \in {"user", "copy", "mm_write"}
    BY <1>19, <1>0 DEF Unpin, Resume, Goto
  <2> QED  BY <1>19, <1>0, <1>m, <1>o, <2>1, <2>2, <2>3 DEF Unpin, LoadedOf, At, Mapped, locals,
    pages
<1>20. CASE Undo(p)
  <2>1. /\ cur[p] \in Page /\ cur' = cur /\ spt' = spt /\ pagedir' = pagedir /\ pc[p] = "undo"
        /\ ~Mapped(cur[p])
    BY <1>20, CurPage DEF Undo, Idle, VMInv, TableInv, ThreadInv, LoadOf, Absent
  <2>2. spte'[x].is_loaded = spte[x].is_loaded /\ spte'[x].type = spte[x].type
    BY <1>20, <1>0, <2>1 DEF Undo, Spte
  <2>3. pc'[p] \in {"undo", "exit"}
    <3>1. pc[p] = "undo" /\ Kill(p)
      BY <1>20 DEF Undo
    <3> QED  BY <1>0, <3>1 DEF Kill, Goto
  <2> QED  BY <1>20, <1>0, <1>m, <1>o, <2>1, <2>2, <2>3 DEF Undo, LoadedOf, At, Mapped, locals,
    pages
<1>21. CASE SysLock(p)
  BY <1>21, <1>0, <1>m, <1>o DEF SysLock, Goto, LoadedOf, At, Mapped, locals, pages
<1>22. ASSUME NEW write \in BOOLEAN, SysCopy(p, write) PROVE LoadedOf(x)'
  <2>1. /\ cur[p] \in Page /\ cur' = cur /\ spt' = spt /\ spte' = spte /\ pc[p] = "copy"
        /\ pc'[p] = "user"
    BY <1>22, <1>0, CurPage DEF SysCopy, Idle, locals, Goto
  <2>2. pagedir'[x].frame = pagedir[x].frame
    BY <1>22, <1>0, <2>1 DEF SysCopy, Touch, Pte
  <2> QED  BY <1>22, <1>0, <1>m, <1>o, <2>1, <2>2 DEF SysCopy, LoadedOf, At, Mapped, locals, pages
<1>23. CASE KernelFault(p)
  BY <1>23, <1>0, <1>m, <1>o DEF KernelFault, Goto, LoadedOf, At, Mapped, locals, pages
<1>24. CASE ProcessExit(p)
  BY <1>24, <1>0, <1>m, <1>o DEF ProcessExit, Goto, LoadedOf, At, Mapped, locals, pages
<1>25. CASE NextMapping(p)
  <2>1. Head(mmap_list[p]) \in Page /\ spt' = spt /\ pagedir' = pagedir
    BY <1>25, HeadMapping, <1>0 DEF NextMapping
  <2>2. spte'[x].is_loaded = spte[x].is_loaded /\ spte'[x].type = spte[x].type
    BY <1>25, <1>0, <2>1 DEF NextMapping, Spte
  <2>3. pc[p] = "next" /\ pc'[p] = "check"
    BY <1>25, <1>0 DEF NextMapping, Goto
  <2> QED  BY <1>25, <1>0, <1>m, <1>o, <2>1, <2>2, <2>3 DEF NextMapping, LoadedOf, At, Mapped,
    locals,
    pages
<1>26. CASE LastMapping(p)
  BY <1>26, <1>0, <1>m, <1>o DEF LastMapping, Goto, LoadedOf, At, Mapped, locals, pages
<1>27. CASE NextEntry(p)
  BY <1>27, <1>0, <1>m, <1>o DEF NextEntry, Goto, LoadedOf, At, Mapped, locals, pages
<1>28. CASE CheckLoaded(p)
  BY <1>28, <1>0, <1>m, <1>o DEF CheckLoaded, Goto, HasFrame, LoadedOf, At, Mapped, locals, pages
<1>29. CASE MmLock(p)
  BY <1>29, <1>0, <1>m, <1>o DEF MmLock, Goto, LoadedOf, At, Mapped, locals, pages
<1>30. CASE MmWrite(p)
  <2>1. /\ cur[p] \in Page /\ cur' = cur /\ spt' = spt /\ spte' = spte /\ pc[p] = "mm_write"
        /\ pc'[p] = "get_page"
    BY <1>30, <1>0, CurPage DEF MmWrite, Idle, locals, Goto
  <2>2. pagedir'[x].frame = pagedir[x].frame
    BY <1>30, <1>0, <2>1 DEF MmWrite, Pte
  <2> QED  BY <1>30, <1>0, <1>m, <1>o, <2>1, <2>2 DEF MmWrite, LoadedOf, At, Mapped, locals, pages
<1>31. CASE GetPage(p)
  BY <1>31, <1>0, <1>m, <1>o DEF GetPage, Goto, LoadedOf, At, Mapped, locals, pages
<1>32. CASE FreePage(p)
  BY <1>32, <1>0, <1>m, <1>o DEF FreePage, Goto, LoadedOf, At, Mapped, locals, pages
<1>33. CASE UnmapPage(p)
  <2>1. /\ cur[p] \in Page /\ Owner[cur[p]] = p /\ cur' = cur /\ spt' = spt /\ spte' = spte
        /\ pc[p] = "clear_page" /\ pc'[p] = "drop"
    BY <1>33, <1>0, CurPage DEF UnmapPage, Idle, locals, Goto
  <2>2. pagedir'[x].frame = IF x = cur[p] THEN None ELSE pagedir[x].frame
    BY <1>33, <1>0, <2>1 DEF UnmapPage, Cleared, Pte
  <2> QED  BY <1>33, <1>0, <1>m, <1>o, <2>1, <2>2 DEF UnmapPage, LoadedOf, At, Mapped, locals,
    pages
<1>34. CASE DropEntry(p)
  <2>1. /\ cur[p] \in Page /\ ~Mapped(cur[p])
        /\ spt' = spt \ {cur[p]} /\ spte' = spte /\ pagedir' = pagedir
        /\ cur' = cur /\ pc[p] = "drop" /\ pc'[p] = "next"
    BY <1>34, <1>0, CurPage DEF DropEntry, Idle, locals, Goto, VMInv, TableInv, ThreadInv, TakeOf
  <2> QED  BY <1>34, <1>0, <1>m, <1>o, <2>1 DEF DropEntry, LoadedOf, At, Mapped, locals, pages
<1>35. CASE PagedirDestroy(p)
  <2>1. PagesOf(p) \cap spt = {} /\ pc[p] = "pagedir" /\ pc'[p] = "dead"
    BY <1>35, <1>0 DEF PagedirDestroy, Goto, VMInv, TableInv, ThreadInv, ModeOf
  <2>2. /\ spt' = spt /\ spte' = spte
        /\ pagedir'[x] = IF x \in PagesOf(p) THEN Unmapped ELSE pagedir[x]
    BY <1>35, <1>0 DEF PagedirDestroy
  <2> QED  BY <1>35, <1>0, <1>m, <1>o, <2>1, <2>2 DEF LoadedOf, At, Mapped, PagesOf
<1>36. ASSUME NEW pg \in PagesOf(p), NEW write \in BOOLEAN, UserAccess(p, pg, write)
       PROVE LoadedOf(x)'
  <2>1. spt' = spt /\ spte' = spte /\ pc' = pc /\ cur' = cur /\ pg \in Page
    BY <1>36 DEF UserAccess, PagesOf, locals
  <2>2. pagedir'[x].frame = pagedir[x].frame
    BY <1>36, <1>0, <2>1 DEF UserAccess, Touch, Pte
  <2> QED  BY <1>36, <1>0, <1>m, <1>o, <2>1, <2>2 DEF UserAccess, LoadedOf, At, Mapped, locals,
    pages
<1>37. ASSUME NEW pg \in PagesOf(p), UserFault(p, pg), Known(pg) \/ "exit" \in Calls
       PROVE LoadedOf(x)'
  BY <1>37, <1>0, <1>m, <1>o DEF UserFault, Goto, LoadedOf, At, Mapped, locals, pages
<1>38. ASSUME NEW pg \in PagesOf(p), SysIO(p, pg) PROVE LoadedOf(x)'
  BY <1>38, <1>0, <1>m, <1>o DEF SysIO, Goto, LoadedOf, At, Mapped, locals, pages
<1>39. CASE Mmap(p)
  <2>1. \A pg \in ToSet(Region[p]) : pg \notin spt /\ Kind[pg] = "MMAP" /\ Owner[pg] = p
    <3>1. mmap_list[p] = <<>> /\ MmapOf(p)
      BY <1>39 DEF Mmap, VMInv, TableInv, ThreadInv
    <3> QED  BY <1>0, <3>1, RegionFacts DEF MmapOf, PagesOf
  <2>2. /\ spt' = spt \cup ToSet(Region[p]) /\ pagedir' = pagedir /\ pc' = pc /\ cur' = cur
        /\ x \notin ToSet(Region[p]) => spte'[x] = spte[x]
        /\ x \in ToSet(Region[p]) => spte'[x] = NewSpte("MMAP")
    BY <1>39, <1>0 DEF Mmap, locals
  <2> QED  BY <1>39, <1>0, <1>m, <1>o, <2>1, <2>2 DEF LoadedOf, At, Mapped, NewSpte
<1>40. CASE Munmap(p)
  BY <1>40, <1>0, <1>m, <1>o DEF Munmap, Goto, LoadedOf, At, Mapped, locals, pages
<1>41. CASE Exit(p)
  BY <1>41, <1>0, <1>m, <1>o DEF Exit, Goto, LoadedOf, At, Mapped, locals, pages
<1> QED  BY <1>1, <1>2, <1>3, <1>4, <1>5, <1>6, <1>7, <1>8, <1>9, <1>10, <1>11, <1>12, <1>13,
  <1>14, <1>15,
  <1>16, <1>16f, <1>17, <1>18, <1>19, <1>20, <1>21, <1>22, <1>23, <1>24, <1>25, <1>26, <1>27, <1>28,
  <1>29, <1>30, <1>31, <1>32, <1>33, <1>34, <1>35, <1>36, <1>37, <1>38, <1>39, <1>40, <1>41 DEF
  Program, Kernel, FrameStep, PageStep, TeardownStep

\* The type of an entry goes with the kind of its page.
LEMMA KindStep ==
  ASSUME VMInv, Apart, Apart', panic = "none", NEW p \in Proc, Program(p) \/ Kernel(p),
         NEW x \in Page
  PROVE  TypeOf(x)'
<1>0. /\ pc \in [Proc -> Labels] /\ cur \in [Proc -> Page \cup {None}]
      /\ pagedir \in [Page -> Pte] /\ spte \in [Page -> Spte] /\ spt \subseteq Page
  BY DEF VMInv, IInv, TypeOK
<1>c. pc[p] \notin Idle => cur[p] \in Page /\ Owner[cur[p]] = p
  BY CurPage
<1>m. TypeOf(x)
  BY DEF VMInv, TableInv, PageInv
<1>1. CASE FrameAlloc(p)
  BY <1>1, <1>0, <1>m DEF FrameAlloc, Goto, TakeFrame, TypeOf, locals, pages
<1>2. CASE FrameAllocFails(p)
  BY <1>2, <1>0, <1>m DEF FrameAllocFails, Goto, TypeOf, locals, pages
<1>3. CASE EvictFrame(p)
  BY <1>3, <1>0, <1>m DEF EvictFrame, Goto, TypeOf, locals, pages
<1>4. CASE ScanEntry(p)
  <2>1. pagedir'[x].frame = pagedir[x].frame
    BY <1>4, <1>0, HandEntry DEF ScanEntry, ClearAccessed, Entry, Pte
  <2> QED  BY <1>4, <1>0, <1>m, <2>1 DEF ScanEntry, TypeOf, locals, pages
<1>5. CASE TestVictim(p)
  BY <1>5, <1>0, <1>m DEF TestVictim, Goto, TypeOf, locals, pages
<1>6. CASE WriteBack(p)
  BY <1>6, <1>0, <1>m DEF WriteBack, Goto, TypeOf, locals, pages
<1>7. CASE SwapOut(p)
  <2>1. /\ x # fte[p].spte => spte'[x] = spte[x]
        /\ spte'[fte[p].spte].type \in {"SWAP", spte[fte[p].spte].type}
    BY <1>7, SwapOutEffect
  <2>2. fte[p].spte \in spt /\ spte[fte[p].spte].type # "MMAP" /\ spt' = spt
    BY <1>7 DEF SwapOut, VMInv, TableInv, ThreadInv, VictimOf, Chosen
  <2> QED  BY <1>m, <2>1, <2>2 DEF TypeOf
<1>8. CASE Unload(p)
  <2>1. fte[p].spte \in Page
    BY <1>8, VictimApart DEF Unload, Chosen
  <2>2. spte'[x].type = spte[x].type /\ spt' = spt
    BY <1>8, <1>0, <2>1 DEF Unload, NotLoaded, Spte
  <2> QED  BY <1>m, <2>2 DEF TypeOf
<1>9. CASE ClearPage(p)
  <2>1. /\ pagedir'[x].frame = IF x = fte[p].spte THEN None ELSE pagedir[x].frame
        /\ spt' = spt /\ spte' = spte /\ cur' = cur /\ pc[p] = "clear" /\ pc'[p] = "release"
    BY <1>9, <1>0, VictimApart DEF ClearPage, Cleared, Pte, locals, Goto
  <2> QED  BY <1>9, <1>0, <1>m, <2>1 DEF ClearPage, TypeOf, locals, pages
<1>10. CASE ReleaseFrame(p)
  BY <1>10, <1>0, <1>m DEF ReleaseFrame, Goto, TypeOf, locals, pages
<1>11. CASE Repalloc(p)
  BY <1>11, <1>0, <1>m DEF Repalloc, Goto, Retry, TakeFrame, TypeOf, locals, pages
<1>12. CASE AddFrame(p)
  BY <1>12, <1>0, <1>m DEF AddFrame, Goto, TypeOf, locals, pages
<1>13. CASE LoadPage(p)
  <2>1. cur[p] \in Page /\ ~Mapped(cur[p]) /\ cur' = cur
    BY <1>13, CurPage DEF LoadPage, Idle, VMInv, TableInv, ThreadInv, LoadOf, Absent, locals
  <2>2. /\ spt' = spt /\ pagedir' = pagedir /\ spte'[x].is_loaded = spte[x].is_loaded
        /\ spte'[x].type = spte[x].type
    BY <1>13, <1>0, <2>1 DEF LoadPage, Spte
  <2>3. pc[p] = "fault" /\ pc'[p] \in {"palloc", "exit", "fault"}
    BY <1>13, <1>0 DEF LoadPage, Kill, Goto
  <2> QED  BY <1>13, <1>0, <1>m, <2>1, <2>2, <2>3 DEF LoadPage, TypeOf, locals, pages
<1>14. CASE StackGrowth(p)
  <2>1. cur[p] \in Page /\ ~Mapped(cur[p]) /\ cur' = cur /\ cur[p] \notin spt
    BY <1>14, CurPage DEF StackGrowth, Idle, VMInv, TableInv, ThreadInv, LoadOf, Absent, locals
  <2>2. spt' = spt /\ pagedir' = pagedir /\ (x # cur[p] => spte'[x] = spte[x])
    BY <1>14, <1>0, <2>1 DEF StackGrowth
  <2>3. pc[p] = "fault" /\ pc'[p] = "palloc"
    BY <1>14, <1>0 DEF StackGrowth, Goto
  <2> QED  BY <1>14, <1>0, <1>m, <2>1, <2>2, <2>3 DEF StackGrowth, TypeOf, locals, pages
<1>15. CASE BadAddress(p)
  BY <1>15, <1>0, <1>m DEF BadAddress, Goto, Kill, TypeOf, locals, pages
<1>16. ASSUME NEW short \in BOOLEAN, ReadFile(p, short) PROVE TypeOf(x)'
  BY <1>16, <1>0, <1>m DEF ReadFile, Goto, AfterRead, TypeOf, locals, pages
<1>16f. CASE InstallFails(p)
  BY <1>16f, <1>0, <1>m DEF InstallFails, Goto, TypeOf, locals, pages
<1>17. CASE InstallPage(p)
  <2>1. /\ cur[p] \in Page /\ ~Mapped(cur[p]) /\ cur' = cur /\ frame[p] \in Frame
        /\ cur[p] \notin spt => /\ Kind[cur[p]] = "STACK" /\ spte[cur[p]].is_loaded
                              /\ spte[cur[p]].type = "SWAP"
        /\ cur[p] \in spt => ~spte[cur[p]].is_loaded
    BY <1>17, CurPage DEF InstallPage, Idle, VMInv, TableInv, ThreadInv, LoadOf, Absent, Pinning,
      IInv, LocalsInv, LocalsOf
  <2>2. /\ spt' = spt \cup {cur[p]} /\ (x # cur[p] => spte'[x] = spte[x])
        /\ pagedir' = [pagedir EXCEPT ![cur[p]] = [Unmapped EXCEPT !.frame = frame[p]]]
    BY <1>17, <1>0, <2>1 DEF InstallPage
  <2>3. x # cur[p] => pagedir'[x] = pagedir[x]
    BY <1>0, <2>1, <2>2
  <2>4. pagedir'[cur[p]].frame = frame[p]
    BY <1>0, <2>1, <2>2 DEF Unmapped
  <2>5. spte' = IF cur[p] \in spt /\ spte[cur[p]].type # "SWAP"
                THEN [spte EXCEPT ![cur[p]].is_loaded = TRUE] ELSE spte
    BY <1>17, <2>1 DEF InstallPage
  <2>6. /\ spte'[cur[p]].type = spte[cur[p]].type
        /\ spte'[cur[p]].is_loaded <=> cur[p] \notin spt \/ spte[cur[p]].type # "SWAP"
    BY <1>0, <2>1, <2>5 DEF Spte
  <2>7. /\ pc[p] = "install" /\ pc'[p] \in {"swap_in", "unpin", "user", "copy", "mm_write"}
        /\ cur[p] \in spt /\ spte[cur[p]].type = "SWAP" => pc'[p] = "swap_in"
    <3>1. CASE cur[p] \notin spt
      BY <1>17, <1>0, <2>1, <3>1 DEF InstallPage, Resume, Goto
    <3>2. CASE cur[p] \in spt /\ spte[cur[p]].type = "SWAP"
      BY <1>17, <1>0, <2>1, <3>2 DEF InstallPage, Goto
    <3>3. CASE cur[p] \in spt /\ spte[cur[p]].type # "SWAP"
      BY <1>17, <1>0, <2>1, <3>3 DEF InstallPage, Goto
    <3> QED  BY <3>1, <3>2, <3>3
  <2> QED  BY <1>17, <1>0, <1>m, <2>1, <2>2, <2>3, <2>4, <2>5, <2>6, <2>7 DEF InstallPage, TypeOf,
    locals, pages
<1>18. CASE SwapIn(p)
  <2>1. /\ cur[p] \in Page /\ Mapped(cur[p]) /\ cur' = cur /\ cur[p] \in spt /\ spt' = spt
        /\ pc[p] = "swap_in" /\ spte[cur[p]].type = "SWAP" /\ ~spte[cur[p]].is_loaded
    BY <1>18, CurPage DEF SwapIn, Idle, VMInv, TableInv, ThreadInv, LoadOf, locals
  <2>2. \/ spte' = spte /\ pagedir' = pagedir /\ pc' = pc
        \/ /\ spte' = [spte EXCEPT ![cur[p]].is_loaded = TRUE] /\ pc'[p] = "unpin"
           /\ pagedir' = [pagedir EXCEPT ![cur[p]].accessed = TRUE, ![cur[p]].dirty = TRUE]
    BY <1>18, <1>0 DEF SwapIn, Goto
  <2>3. /\ pagedir'[x].frame = pagedir[x].frame /\ spte'[x].type = spte[x].type
        /\ x # cur[p] => spte'[x] = spte[x]
        /\ \/ pc' = pc /\ spte'[cur[p]].is_loaded = spte[cur[p]].is_loaded
           \/ pc'[p] = "unpin" /\ spte'[cur[p]].is_loaded
    BY <1>0, <2>1, <2>2 DEF Pte, Spte
  <2> QED  BY <1>18, <1>0, <1>m, <2>1, <2>2, <2>3 DEF SwapIn, TypeOf, locals, pages
<1>19. CASE Unpin(p)
  <2>1. cur[p] \in Page /\ cur' = cur /\ spt' = spt /\ pagedir' = pagedir /\ pc[p] = "unpin"
    BY <1>19, CurPage DEF Unpin, Idle
  <2>2. spte'[x].is_loaded = spte[x].is_loaded /\ spte'[x].type = spte[x].type
    BY <1>19, <1>0, <2>1 DEF Unpin, Spte
  <2>3. pc'[p] \in {"user", "copy", "mm_write"}
    BY <1>19, <1>0 DEF Unpin, Resume, Goto
  <2> QED  BY <1>19, <1>0, <1>m, <2>1, <2>2, <2>3 DEF Unpin, TypeOf, locals, pages
<1>20. CASE Undo(p)
  <2>1. /\ cur[p] \in Page /\ cur' = cur /\ spt' = spt /\ pagedir' = pagedir /\ pc[p] = "undo"
        /\ ~Mapped(cur[p])
    BY <1>20, CurPage DEF Undo, Idle, VMInv, TableInv, ThreadInv, LoadOf, Absent
  <2>2. spte'[x].is_loaded = spte[x].is_loaded /\ spte'[x].type = spte[x].type
    BY <1>20, <1>0, <2>1 DEF Undo, Spte
  <2>3. pc'[p] \in {"undo", "exit"}
    <3>1. pc[p] = "undo" /\ Kill(p)
      BY <1>20 DEF Undo
    <3> QED  BY <1>0, <3>1 DEF Kill, Goto
  <2> QED  BY <1>20, <1>0, <1>m, <2>1, <2>2, <2>3 DEF Undo, TypeOf, locals, pages
<1>21. CASE SysLock(p)
  BY <1>21, <1>0, <1>m DEF SysLock, Goto, TypeOf, locals, pages
<1>22. ASSUME NEW write \in BOOLEAN, SysCopy(p, write) PROVE TypeOf(x)'
  <2>1. /\ cur[p] \in Page /\ cur' = cur /\ spt' = spt /\ spte' = spte /\ pc[p] = "copy"
        /\ pc'[p] = "user"
    BY <1>22, <1>0, CurPage DEF SysCopy, Idle, locals, Goto
  <2>2. pagedir'[x].frame = pagedir[x].frame
    BY <1>22, <1>0, <2>1 DEF SysCopy, Touch, Pte
  <2> QED  BY <1>22, <1>0, <1>m, <2>1, <2>2 DEF SysCopy, TypeOf, locals, pages
<1>23. CASE KernelFault(p)
  BY <1>23, <1>0, <1>m DEF KernelFault, Goto, TypeOf, locals, pages
<1>24. CASE ProcessExit(p)
  BY <1>24, <1>0, <1>m DEF ProcessExit, Goto, TypeOf, locals, pages
<1>25. CASE NextMapping(p)
  <2>1. Head(mmap_list[p]) \in Page /\ spt' = spt /\ pagedir' = pagedir
    BY <1>25, HeadMapping, <1>0 DEF NextMapping
  <2>2. spte'[x].is_loaded = spte[x].is_loaded /\ spte'[x].type = spte[x].type
    BY <1>25, <1>0, <2>1 DEF NextMapping, Spte
  <2>3. pc[p] = "next" /\ pc'[p] = "check"
    BY <1>25, <1>0 DEF NextMapping, Goto
  <2> QED  BY <1>25, <1>0, <1>m, <2>1, <2>2, <2>3 DEF NextMapping, TypeOf, locals, pages
<1>26. CASE LastMapping(p)
  BY <1>26, <1>0, <1>m DEF LastMapping, Goto, TypeOf, locals, pages
<1>27. CASE NextEntry(p)
  BY <1>27, <1>0, <1>m DEF NextEntry, Goto, TypeOf, locals, pages
<1>28. CASE CheckLoaded(p)
  BY <1>28, <1>0, <1>m DEF CheckLoaded, Goto, HasFrame, TypeOf, locals, pages
<1>29. CASE MmLock(p)
  BY <1>29, <1>0, <1>m DEF MmLock, Goto, TypeOf, locals, pages
<1>30. CASE MmWrite(p)
  <2>1. /\ cur[p] \in Page /\ cur' = cur /\ spt' = spt /\ spte' = spte /\ pc[p] = "mm_write"
        /\ pc'[p] = "get_page"
    BY <1>30, <1>0, CurPage DEF MmWrite, Idle, locals, Goto
  <2>2. pagedir'[x].frame = pagedir[x].frame
    BY <1>30, <1>0, <2>1 DEF MmWrite, Pte
  <2> QED  BY <1>30, <1>0, <1>m, <2>1, <2>2 DEF MmWrite, TypeOf, locals, pages
<1>31. CASE GetPage(p)
  BY <1>31, <1>0, <1>m DEF GetPage, Goto, TypeOf, locals, pages
<1>32. CASE FreePage(p)
  BY <1>32, <1>0, <1>m DEF FreePage, Goto, TypeOf, locals, pages
<1>33. CASE UnmapPage(p)
  <2>1. /\ cur[p] \in Page /\ Owner[cur[p]] = p /\ cur' = cur /\ spt' = spt /\ spte' = spte
        /\ pc[p] = "clear_page" /\ pc'[p] = "drop"
    BY <1>33, <1>0, CurPage DEF UnmapPage, Idle, locals, Goto
  <2>2. pagedir'[x].frame = IF x = cur[p] THEN None ELSE pagedir[x].frame
    BY <1>33, <1>0, <2>1 DEF UnmapPage, Cleared, Pte
  <2> QED  BY <1>33, <1>0, <1>m, <2>1, <2>2 DEF UnmapPage, TypeOf, locals, pages
<1>34. CASE DropEntry(p)
  <2>1. /\ cur[p] \in Page /\ ~Mapped(cur[p])
        /\ spt' = spt \ {cur[p]} /\ spte' = spte /\ pagedir' = pagedir
        /\ cur' = cur /\ pc[p] = "drop" /\ pc'[p] = "next"
    BY <1>34, <1>0, CurPage DEF DropEntry, Idle, locals, Goto, VMInv, TableInv, ThreadInv, TakeOf
  <2> QED  BY <1>34, <1>0, <1>m, <2>1 DEF DropEntry, TypeOf, locals, pages
<1>35. CASE PagedirDestroy(p)
  <2>1. PagesOf(p) \cap spt = {} /\ pc[p] = "pagedir" /\ pc'[p] = "dead"
    BY <1>35, <1>0 DEF PagedirDestroy, Goto, VMInv, TableInv, ThreadInv, ModeOf
  <2>2. /\ spt' = spt /\ spte' = spte
        /\ pagedir'[x] = IF x \in PagesOf(p) THEN Unmapped ELSE pagedir[x]
    BY <1>35, <1>0 DEF PagedirDestroy
  <2> QED  BY <1>35, <1>0, <1>m, <2>1, <2>2 DEF PagedirDestroy, TypeOf, locals, pages
<1>36. ASSUME NEW pg \in PagesOf(p), NEW write \in BOOLEAN, UserAccess(p, pg, write)
       PROVE TypeOf(x)'
  <2>1. spt' = spt /\ spte' = spte /\ pc' = pc /\ cur' = cur /\ pg \in Page
    BY <1>36 DEF UserAccess, PagesOf, locals
  <2>2. pagedir'[x].frame = pagedir[x].frame
    BY <1>36, <1>0, <2>1 DEF UserAccess, Touch, Pte
  <2> QED  BY <1>36, <1>0, <1>m, <2>1, <2>2 DEF UserAccess, TypeOf, locals, pages
<1>37. ASSUME NEW pg \in PagesOf(p), UserFault(p, pg), Known(pg) \/ "exit" \in Calls
       PROVE TypeOf(x)'
  BY <1>37, <1>0, <1>m DEF UserFault, Goto, TypeOf, locals, pages
<1>38. ASSUME NEW pg \in PagesOf(p), SysIO(p, pg) PROVE TypeOf(x)'
  BY <1>38, <1>0, <1>m DEF SysIO, Goto, TypeOf, locals, pages
<1>39. CASE Mmap(p)
  <2>1. \A pg \in ToSet(Region[p]) : pg \notin spt /\ Kind[pg] = "MMAP" /\ Owner[pg] = p
    <3>1. mmap_list[p] = <<>> /\ MmapOf(p)
      BY <1>39 DEF Mmap, VMInv, TableInv, ThreadInv
    <3> QED  BY <1>0, <3>1, RegionFacts DEF MmapOf, PagesOf
  <2>2. /\ spt' = spt \cup ToSet(Region[p]) /\ pagedir' = pagedir /\ pc' = pc /\ cur' = cur
        /\ x \notin ToSet(Region[p]) => spte'[x] = spte[x]
        /\ x \in ToSet(Region[p]) => spte'[x] = NewSpte("MMAP")
    BY <1>39, <1>0 DEF Mmap, locals
  <2> QED  BY <1>39, <1>0, <1>m, <2>1, <2>2 DEF TypeOf, NewSpte
<1>40. CASE Munmap(p)
  BY <1>40, <1>0, <1>m DEF Munmap, Goto, TypeOf, locals, pages
<1>41. CASE Exit(p)
  BY <1>41, <1>0, <1>m DEF Exit, Goto, TypeOf, locals, pages
<1> QED  BY <1>1, <1>2, <1>3, <1>4, <1>5, <1>6, <1>7, <1>8, <1>9, <1>10, <1>11, <1>12, <1>13,
  <1>14, <1>15,
  <1>16, <1>16f, <1>17, <1>18, <1>19, <1>20, <1>21, <1>22, <1>23, <1>24, <1>25, <1>26, <1>27, <1>28,
  <1>29, <1>30, <1>31, <1>32, <1>33, <1>34, <1>35, <1>36, <1>37, <1>38, <1>39, <1>40, <1>41 DEF
  Program, Kernel, FrameStep, PageStep, TeardownStep


\* The label of a thread determines the action it takes next.
LEMMA LabelActs ==
  ASSUME VMInv, NEW p \in Proc, Program(p) \/ Kernel(p)
  PROVE  /\ pc[p] = "add" => AddFrame(p)
         /\ pc[p] = "unload" => Unload(p)
         /\ pc[p] = "read_file" => \E short \in BOOLEAN : ReadFile(p, short)
         /\ pc[p] = "install" => InstallPage(p) \/ InstallFails(p)
         /\ pc[p] = "undo" => Undo(p)
         /\ pc[p] = "free_frame" => FreePage(p)
         /\ pc[p] = "clear_page" => UnmapPage(p)
         /\ pc[p] = "pagedir" => PagedirDestroy(p)
<1>1. pc[p] = "add" => AddFrame(p)
  BY DEF Program, Kernel, FrameStep, PageStep, TeardownStep, FrameAlloc, FrameAllocFails,
    EvictFrame, ScanEntry, TestVictim, WriteBack, SwapOut, Unload, ClearPage, ReleaseFrame,
    Repalloc, LoadPage, StackGrowth, BadAddress, ReadFile, InstallPage, InstallFails, SwapIn,
    Unpin, Undo, SysLock, SysCopy, KernelFault, ProcessExit, NextMapping, LastMapping, NextEntry,
    CheckLoaded, MmLock, MmWrite, GetPage, FreePage, UnmapPage, DropEntry, PagedirDestroy,
    UserAccess, UserFault, SysIO, Mmap, Munmap, Exit
<1>2. pc[p] = "unload" => Unload(p)
  BY DEF Program, Kernel, FrameStep, PageStep, TeardownStep, FrameAlloc, FrameAllocFails,
    EvictFrame, ScanEntry, TestVictim, WriteBack, SwapOut, ClearPage, ReleaseFrame, Repalloc,
    AddFrame, LoadPage, StackGrowth, BadAddress, ReadFile, InstallPage, InstallFails, SwapIn,
    Unpin, Undo, SysLock, SysCopy, KernelFault, ProcessExit, NextMapping, LastMapping, NextEntry,
    CheckLoaded, MmLock, MmWrite, GetPage, FreePage, UnmapPage, DropEntry, PagedirDestroy,
    UserAccess, UserFault, SysIO, Mmap, Munmap, Exit
<1>3. pc[p] = "read_file" => \E short \in BOOLEAN : ReadFile(p, short)
  BY DEF Program, Kernel, FrameStep, PageStep, TeardownStep, FrameAlloc, FrameAllocFails,
    EvictFrame, ScanEntry, TestVictim, WriteBack, SwapOut, Unload, ClearPage, ReleaseFrame,
    Repalloc, AddFrame, LoadPage, StackGrowth, BadAddress, InstallPage, InstallFails, SwapIn,
    Unpin, Undo, SysLock, SysCopy, KernelFault, ProcessExit, NextMapping, LastMapping, NextEntry,
    CheckLoaded, MmLock, MmWrite, GetPage, FreePage, UnmapPage, DropEntry, PagedirDestroy,
    UserAccess, UserFault, SysIO, Mmap, Munmap, Exit
<1>4. pc[p] = "install" => InstallPage(p) \/ InstallFails(p)
  BY DEF Program, Kernel, FrameStep, PageStep, TeardownStep, FrameAlloc, FrameAllocFails,
    EvictFrame, ScanEntry, TestVictim, WriteBack, SwapOut, Unload, ClearPage, ReleaseFrame,
    Repalloc, AddFrame, LoadPage, StackGrowth, BadAddress, ReadFile, SwapIn, Unpin, Undo, SysLock,
    SysCopy, KernelFault, ProcessExit, NextMapping, LastMapping, NextEntry, CheckLoaded, MmLock,
    MmWrite, GetPage, FreePage, UnmapPage, DropEntry, PagedirDestroy, UserAccess, UserFault,
    SysIO, Mmap, Munmap, Exit
<1>5. pc[p] = "undo" => Undo(p)
  BY DEF Program, Kernel, FrameStep, PageStep, TeardownStep, FrameAlloc, FrameAllocFails,
    EvictFrame, ScanEntry, TestVictim, WriteBack, SwapOut, Unload, ClearPage, ReleaseFrame,
    Repalloc, AddFrame, LoadPage, StackGrowth, BadAddress, ReadFile, InstallPage, InstallFails,
    SwapIn, Unpin, SysLock, SysCopy, KernelFault, ProcessExit, NextMapping, LastMapping,
    NextEntry, CheckLoaded, MmLock, MmWrite, GetPage, FreePage, UnmapPage, DropEntry,
    PagedirDestroy, UserAccess, UserFault, SysIO, Mmap, Munmap, Exit
<1>6. pc[p] = "free_frame" => FreePage(p)
  BY DEF Program, Kernel, FrameStep, PageStep, TeardownStep, FrameAlloc, FrameAllocFails,
    EvictFrame, ScanEntry, TestVictim, WriteBack, SwapOut, Unload, ClearPage, ReleaseFrame,
    Repalloc, AddFrame, LoadPage, StackGrowth, BadAddress, ReadFile, InstallPage, InstallFails,
    SwapIn, Unpin, Undo, SysLock, SysCopy, KernelFault, ProcessExit, NextMapping, LastMapping,
    NextEntry, CheckLoaded, MmLock, MmWrite, GetPage, UnmapPage, DropEntry, PagedirDestroy,
    UserAccess, UserFault, SysIO, Mmap, Munmap, Exit
<1>7. pc[p] = "clear_page" => UnmapPage(p)
  BY DEF Program, Kernel, FrameStep, PageStep, TeardownStep, FrameAlloc, FrameAllocFails,
    EvictFrame, ScanEntry, TestVictim, WriteBack, SwapOut, Unload, ClearPage, ReleaseFrame,
    Repalloc, AddFrame, LoadPage, StackGrowth, BadAddress, ReadFile, InstallPage, InstallFails,
    SwapIn, Unpin, Undo, SysLock, SysCopy, KernelFault, ProcessExit, NextMapping, LastMapping,
    NextEntry, CheckLoaded, MmLock, MmWrite, GetPage, FreePage, DropEntry, PagedirDestroy,
    UserAccess, UserFault, SysIO, Mmap, Munmap, Exit
<1>8. pc[p] = "pagedir" => PagedirDestroy(p)
  BY DEF Program, Kernel, FrameStep, PageStep, TeardownStep, FrameAlloc, FrameAllocFails,
    EvictFrame, ScanEntry, TestVictim, WriteBack, SwapOut, Unload, ClearPage, ReleaseFrame,
    Repalloc, AddFrame, LoadPage, StackGrowth, BadAddress, ReadFile, InstallPage, InstallFails,
    SwapIn, Unpin, Undo, SysLock, SysCopy, KernelFault, ProcessExit, NextMapping, LastMapping,
    NextEntry, CheckLoaded, MmLock, MmWrite, GetPage, FreePage, UnmapPage, DropEntry, UserAccess,
    UserFault, SysIO, Mmap, Munmap, Exit
<1> QED  BY <1>1, <1>2, <1>3, <1>4, <1>5, <1>6, <1>7, <1>8

\* What a step can do to the mapping of a page.
MapMove(p, x) ==
  \/ pagedir'[x].frame = pagedir[x].frame
  \/ /\ pagedir'[x].frame = None
     /\ \/ pc[p] = "clear" /\ x = fte[p].spte
        \/ pc[p] = "clear_page" /\ x = cur[p]
        \/ pc[p] = "pagedir" /\ Owner[x] = p
  \/ pc[p] = "install" /\ x = cur[p] /\ pagedir'[x].frame = frame[p] /\ ~Mapped(x)

\* Three places unmap a page and one maps it.
LEMMA MapMoves ==
  ASSUME VMInv, Apart, Apart', panic = "none", NEW p \in Proc, Program(p) \/ Kernel(p),
         NEW x \in Page
  PROVE  MapMove(p, x)
<1>0. /\ pc \in [Proc -> Labels] /\ cur \in [Proc -> Page \cup {None}]
      /\ frame \in [Proc -> Frame \cup {None}] /\ pagedir \in [Page -> Pte]
      /\ spte \in [Page -> Spte] /\ spt \subseteq Page
  BY DEF VMInv, IInv, TypeOK
<1>c. pc[p] \notin Idle => cur[p] \in Page /\ Owner[cur[p]] = p
  BY CurPage
<1>1. CASE FrameAlloc(p)
  BY <1>1, <1>0 DEF FrameAlloc, Goto, TakeFrame, MapMove, pages
<1>2. CASE FrameAllocFails(p)
  BY <1>2, <1>0 DEF FrameAllocFails, Goto, MapMove, pages
<1>3. CASE EvictFrame(p)
  BY <1>3, <1>0 DEF EvictFrame, Goto, MapMove, pages
<1>4. CASE ScanEntry(p)
  <2>1. pagedir'[x].frame = pagedir[x].frame
    BY <1>4, <1>0, HandEntry DEF ScanEntry, ClearAccessed, Entry, Pte
  <2> QED  BY <1>4, <1>0, <2>1 DEF ScanEntry, MapMove, pages
<1>5. CASE TestVictim(p)
  BY <1>5, <1>0 DEF TestVictim, Goto, MapMove, pages
<1>6. CASE WriteBack(p)
  BY <1>6, <1>0 DEF WriteBack, Goto, MapMove, pages
<1>7. CASE SwapOut(p)
  <2>1. /\ spte'[x].is_loaded = spte[x].is_loaded /\ spte'[x].pinned = spte[x].pinned
        /\ spt' = spt /\ pagedir' = pagedir /\ cur' = cur /\ pc[p] = "swap_out"
    BY <1>7, SwapOutEffect DEF SwapOut, locals
  <2>2. pc'[p] \in {"swap_out", "unload"}
    BY <1>7, <1>0 DEF SwapOut, Goto
  <2> QED  BY <1>7, <1>0, <2>1, <2>2 DEF SwapOut, MapMove, pages
<1>8. CASE Unload(p)
  <2>1. /\ spte'[x].is_loaded = (spte[x].is_loaded /\ x # fte[p].spte)
        /\ spt' = spt /\ pagedir' = pagedir /\ cur' = cur /\ pc[p] = "unload"
        /\ pc'[p] = "clear" /\ fte' = fte
    BY <1>8, <1>0, VictimApart DEF Unload, NotLoaded, Spte, Chosen, locals, Goto
  <2> QED  BY <1>8 DEF Unload, MapMove, pages
<1>9. CASE ClearPage(p)
  <2>1. /\ pagedir'[x].frame = IF x = fte[p].spte THEN None ELSE pagedir[x].frame
        /\ spt' = spt /\ spte' = spte /\ cur' = cur /\ pc[p] = "clear" /\ pc'[p] = "release"
    BY <1>9, <1>0, VictimApart DEF ClearPage, Cleared, Pte, locals, Goto
  <2> QED  BY <1>9, <1>0, <2>1 DEF ClearPage, MapMove, pages
<1>10. CASE ReleaseFrame(p)
  BY <1>10, <1>0 DEF ReleaseFrame, Goto, MapMove, pages
<1>11. CASE Repalloc(p)
  BY <1>11, <1>0 DEF Repalloc, Goto, Retry, TakeFrame, MapMove, pages
<1>12. CASE AddFrame(p)
  BY <1>12, <1>0 DEF AddFrame, Goto, MapMove, pages
<1>13. CASE LoadPage(p)
  <2>1. cur[p] \in Page /\ ~Mapped(cur[p]) /\ cur' = cur
    BY <1>13, CurPage DEF LoadPage, Idle, VMInv, TableInv, ThreadInv, LoadOf, Absent, locals
  <2>2. /\ spt' = spt /\ pagedir' = pagedir /\ spte'[x].is_loaded = spte[x].is_loaded
        /\ spte'[x].type = spte[x].type
    BY <1>13, <1>0, <2>1 DEF LoadPage, Spte
  <2>3. pc[p] = "fault" /\ pc'[p] \in {"palloc", "exit", "fault"}
    BY <1>13, <1>0 DEF LoadPage, Kill, Goto
  <2> QED  BY <1>13 DEF LoadPage, MapMove, pages
<1>14. CASE StackGrowth(p)
  <2>1. cur[p] \in Page /\ ~Mapped(cur[p]) /\ cur' = cur /\ cur[p] \notin spt
    BY <1>14, CurPage DEF StackGrowth, Idle, VMInv, TableInv, ThreadInv, LoadOf, Absent, locals
  <2>2. spt' = spt /\ pagedir' = pagedir /\ (x # cur[p] => spte'[x] = spte[x])
    BY <1>14, <1>0, <2>1 DEF StackGrowth
  <2>3. pc[p] = "fault" /\ pc'[p] = "palloc"
    BY <1>14, <1>0 DEF StackGrowth, Goto
  <2> QED  BY <1>14 DEF StackGrowth, MapMove, pages
<1>15. CASE BadAddress(p)
  BY <1>15, <1>0 DEF BadAddress, Goto, Kill, MapMove, pages
<1>16. ASSUME NEW short \in BOOLEAN, ReadFile(p, short) PROVE MapMove(p, x)
  BY <1>16, <1>0 DEF ReadFile, Goto, AfterRead, MapMove, pages
<1>16f. CASE InstallFails(p)
  BY <1>16f, <1>0 DEF InstallFails, Goto, MapMove, pages
<1>17. CASE InstallPage(p)
  <2>1. /\ cur[p] \in Page /\ ~Mapped(cur[p]) /\ cur' = cur /\ frame[p] \in Frame
        /\ cur[p] \notin spt => /\ Kind[cur[p]] = "STACK" /\ spte[cur[p]].is_loaded
                              /\ spte[cur[p]].type = "SWAP"
        /\ cur[p] \in spt => ~spte[cur[p]].is_loaded
    BY <1>17, CurPage DEF InstallPage, Idle, VMInv, TableInv, ThreadInv, LoadOf, Absent, Pinning,
      IInv, LocalsInv, LocalsOf
  <2>2. /\ spt' = spt \cup {cur[p]} /\ (x # cur[p] => spte'[x] = spte[x])
        /\ pagedir' = [pagedir EXCEPT ![cur[p]] = [Unmapped EXCEPT !.frame = frame[p]]]
    BY <1>17, <1>0, <2>1 DEF InstallPage
  <2>3. x # cur[p] => pagedir'[x] = pagedir[x]
    BY <1>0, <2>1, <2>2
  <2>4. pagedir'[cur[p]].frame = frame[p]
    BY <1>0, <2>1, <2>2 DEF Unmapped
  <2>5. spte' = IF cur[p] \in spt /\ spte[cur[p]].type # "SWAP"
                THEN [spte EXCEPT ![cur[p]].is_loaded = TRUE] ELSE spte
    BY <1>17, <2>1 DEF InstallPage
  <2>6. /\ spte'[cur[p]].type = spte[cur[p]].type
        /\ spte'[cur[p]].is_loaded <=> cur[p] \notin spt \/ spte[cur[p]].type # "SWAP"
    BY <1>0, <2>1, <2>5 DEF Spte
  <2>7. /\ pc[p] = "install" /\ pc'[p] \in {"swap_in", "unpin", "user", "copy", "mm_write"}
        /\ cur[p] \in spt /\ spte[cur[p]].type = "SWAP" => pc'[p] = "swap_in"
    <3>1. CASE cur[p] \notin spt
      BY <1>17, <1>0, <2>1, <3>1 DEF InstallPage, Resume, Goto
    <3>2. CASE cur[p] \in spt /\ spte[cur[p]].type = "SWAP"
      BY <1>17, <1>0, <2>1, <3>2 DEF InstallPage, Goto
    <3>3. CASE cur[p] \in spt /\ spte[cur[p]].type # "SWAP"
      BY <1>17, <1>0, <2>1, <3>3 DEF InstallPage, Goto
    <3> QED  BY <3>1, <3>2, <3>3
  <2> QED  BY <2>1, <2>3, <2>4, <2>7 DEF MapMove
<1>18. CASE SwapIn(p)
  <2>1. /\ cur[p] \in Page /\ Mapped(cur[p]) /\ cur' = cur /\ cur[p] \in spt /\ spt' = spt
        /\ pc[p] = "swap_in" /\ spte[cur[p]].type = "SWAP" /\ ~spte[cur[p]].is_loaded
    BY <1>18, CurPage DEF SwapIn, Idle, VMInv, TableInv, ThreadInv, LoadOf, locals
  <2>2. \/ spte' = spte /\ pagedir' = pagedir /\ pc' = pc
        \/ /\ spte' = [spte EXCEPT ![cur[p]].is_loaded = TRUE] /\ pc'[p] = "unpin"
           /\ pagedir' = [pagedir EXCEPT ![cur[p]].accessed = TRUE, ![cur[p]].dirty = TRUE]
    BY <1>18, <1>0 DEF SwapIn, Goto
  <2>3. /\ pagedir'[x].frame = pagedir[x].frame /\ spte'[x].type = spte[x].type
        /\ x # cur[p] => spte'[x] = spte[x]
        /\ \/ pc' = pc /\ spte'[cur[p]].is_loaded = spte[cur[p]].is_loaded
           \/ pc'[p] = "unpin" /\ spte'[cur[p]].is_loaded
    BY <1>0, <2>1, <2>2 DEF Pte, Spte
  <2> QED  BY <1>18, <1>0, <2>1, <2>2, <2>3 DEF SwapIn, MapMove, pages
<1>19. CASE Unpin(p)
  <2>1. cur[p] \in Page /\ cur' = cur /\ spt' = spt /\ pagedir' = pagedir /\ pc[p] = "unpin"
    BY <1>19, CurPage DEF Unpin, Idle
  <2>2. spte'[x].is_loaded = spte[x].is_loaded /\ spte'[x].type = spte[x].type
    BY <1>19, <1>0, <2>1 DEF Unpin, Spte
  <2>3. pc'[p] \in {"user", "copy", "mm_write"}
    BY <1>19, <1>0 DEF Unpin, Resume, Goto
  <2> QED  BY <1>19 DEF Unpin, MapMove, pages
<1>20. CASE Undo(p)
  <2>1. /\ cur[p] \in Page /\ cur' = cur /\ spt' = spt /\ pagedir' = pagedir /\ pc[p] = "undo"
        /\ ~Mapped(cur[p])
    BY <1>20, CurPage DEF Undo, Idle, VMInv, TableInv, ThreadInv, LoadOf, Absent
  <2>2. spte'[x].is_loaded = spte[x].is_loaded /\ spte'[x].type = spte[x].type
    BY <1>20, <1>0, <2>1 DEF Undo, Spte
  <2>3. pc'[p] \in {"undo", "exit"}
    <3>1. pc[p] = "undo" /\ Kill(p)
      BY <1>20 DEF Undo
    <3> QED  BY <1>0, <3>1 DEF Kill, Goto
  <2> QED  BY <1>20 DEF Undo, MapMove, pages
<1>21. CASE SysLock(p)
  BY <1>21, <1>0 DEF SysLock, Goto, MapMove, pages
<1>22. ASSUME NEW write \in BOOLEAN, SysCopy(p, write) PROVE MapMove(p, x)
  <2>1. /\ cur[p] \in Page /\ cur' = cur /\ spt' = spt /\ spte' = spte /\ pc[p] = "copy"
        /\ pc'[p] = "user"
    BY <1>22, <1>0, CurPage DEF SysCopy, Idle, locals, Goto
  <2>2. pagedir'[x].frame = pagedir[x].frame
    BY <1>22, <1>0, <2>1 DEF SysCopy, Touch, Pte
  <2> QED  BY <1>22, <1>0, <2>1, <2>2 DEF SysCopy, MapMove, pages
<1>23. CASE KernelFault(p)
  BY <1>23, <1>0 DEF KernelFault, Goto, MapMove, pages
<1>24. CASE ProcessExit(p)
  BY <1>24, <1>0 DEF ProcessExit, Goto, MapMove, pages
<1>25. CASE NextMapping(p)
  <2>1. Head(mmap_list[p]) \in Page /\ spt' = spt /\ pagedir' = pagedir
    BY <1>25, HeadMapping, <1>0 DEF NextMapping
  <2>2. spte'[x].is_loaded = spte[x].is_loaded /\ spte'[x].type = spte[x].type
    BY <1>25, <1>0, <2>1 DEF NextMapping, Spte
  <2>3. pc[p] = "next" /\ pc'[p] = "check"
    BY <1>25, <1>0 DEF NextMapping, Goto
  <2> QED  BY <1>25, <1>0, <2>1, <2>2, <2>3 DEF NextMapping, MapMove, pages
<1>26. CASE LastMapping(p)
  BY <1>26, <1>0 DEF LastMapping, Goto, MapMove, pages
<1>27. CASE NextEntry(p)
  BY <1>27, <1>0 DEF NextEntry, Goto, MapMove, pages
<1>28. CASE CheckLoaded(p)
  BY <1>28, <1>0 DEF CheckLoaded, Goto, HasFrame, MapMove, pages
<1>29. CASE MmLock(p)
  BY <1>29, <1>0 DEF MmLock, Goto, MapMove, pages
<1>30. CASE MmWrite(p)
  <2>1. /\ cur[p] \in Page /\ cur' = cur /\ spt' = spt /\ spte' = spte /\ pc[p] = "mm_write"
        /\ pc'[p] = "get_page"
    BY <1>30, <1>0, CurPage DEF MmWrite, Idle, locals, Goto
  <2>2. pagedir'[x].frame = pagedir[x].frame
    BY <1>30, <1>0, <2>1 DEF MmWrite, Pte
  <2> QED  BY <1>30, <1>0, <2>1, <2>2 DEF MmWrite, MapMove, pages
<1>31. CASE GetPage(p)
  BY <1>31, <1>0 DEF GetPage, Goto, MapMove, pages
<1>32. CASE FreePage(p)
  BY <1>32, <1>0 DEF FreePage, Goto, MapMove, pages
<1>33. CASE UnmapPage(p)
  <2>1. /\ cur[p] \in Page /\ Owner[cur[p]] = p /\ cur' = cur /\ spt' = spt /\ spte' = spte
        /\ pc[p] = "clear_page" /\ pc'[p] = "drop"
    BY <1>33, <1>0, CurPage DEF UnmapPage, Idle, locals, Goto
  <2>2. pagedir'[x].frame = IF x = cur[p] THEN None ELSE pagedir[x].frame
    BY <1>33, <1>0, <2>1 DEF UnmapPage, Cleared, Pte
  <2> QED  BY <1>33, <1>0, <2>1, <2>2 DEF UnmapPage, MapMove, pages
<1>34. CASE DropEntry(p)
  <2>1. /\ cur[p] \in Page /\ ~Mapped(cur[p])
        /\ spt' = spt \ {cur[p]} /\ spte' = spte /\ pagedir' = pagedir
        /\ cur' = cur /\ pc[p] = "drop" /\ pc'[p] = "next"
    BY <1>34, <1>0, CurPage DEF DropEntry, Idle, locals, Goto, VMInv, TableInv, ThreadInv, TakeOf
  <2> QED  BY <1>34, <1>0, <2>1 DEF DropEntry, MapMove, pages
<1>35. CASE PagedirDestroy(p)
  <2>1. PagesOf(p) \cap spt = {} /\ pc[p] = "pagedir" /\ pc'[p] = "dead"
    BY <1>35, <1>0 DEF PagedirDestroy, Goto, VMInv, TableInv, ThreadInv, ModeOf
  <2>2. /\ spt' = spt /\ spte' = spte
        /\ pagedir'[x] = IF x \in PagesOf(p) THEN Unmapped ELSE pagedir[x]
    BY <1>35, <1>0 DEF PagedirDestroy
  <2> QED  BY <1>0, <2>1, <2>2 DEF MapMove, PagesOf, Unmapped
<1>36. ASSUME NEW pg \in PagesOf(p), NEW write \in BOOLEAN, UserAccess(p, pg, write)
       PROVE MapMove(p, x)
  <2>1. spt' = spt /\ spte' = spte /\ pc' = pc /\ cur' = cur /\ pg \in Page
    BY <1>36 DEF UserAccess, PagesOf, locals
  <2>2. pagedir'[x].frame = pagedir[x].frame
    BY <1>36, <1>0, <2>1 DEF UserAccess, Touch, Pte
  <2> QED  BY <1>36, <1>0, <2>1, <2>2 DEF UserAccess, MapMove, pages
<1>37. ASSUME NEW pg \in PagesOf(p), UserFault(p, pg), Known(pg) \/ "exit" \in Calls
       PROVE MapMove(p, x)
  BY <1>37, <1>0 DEF UserFault, Goto, MapMove, pages
<1>38. ASSUME NEW pg \in PagesOf(p), SysIO(p, pg) PROVE MapMove(p, x)
  BY <1>38, <1>0 DEF SysIO, Goto, MapMove, pages
<1>39. CASE Mmap(p)
  <2>1. \A pg \in ToSet(Region[p]) : pg \notin spt /\ Kind[pg] = "MMAP" /\ Owner[pg] = p
    <3>1. mmap_list[p] = <<>> /\ MmapOf(p)
      BY <1>39 DEF Mmap, VMInv, TableInv, ThreadInv
    <3> QED  BY <1>0, <3>1, RegionFacts DEF MmapOf, PagesOf
  <2>2. /\ spt' = spt \cup ToSet(Region[p]) /\ pagedir' = pagedir /\ pc' = pc /\ cur' = cur
        /\ x \notin ToSet(Region[p]) => spte'[x] = spte[x]
        /\ x \in ToSet(Region[p]) => spte'[x] = NewSpte("MMAP")
    BY <1>39, <1>0 DEF Mmap, locals
  <2> QED  BY <1>39, <1>0, <2>1, <2>2 DEF Mmap, MapMove, pages
<1>40. CASE Munmap(p)
  BY <1>40, <1>0 DEF Munmap, Goto, MapMove, pages
<1>41. CASE Exit(p)
  BY <1>41, <1>0 DEF Exit, Goto, MapMove, pages
<1> QED  BY <1>1, <1>2, <1>3, <1>4, <1>5, <1>6, <1>7, <1>8, <1>9, <1>10, <1>11, <1>12, <1>13,
  <1>14, <1>15,
  <1>16, <1>16f, <1>17, <1>18, <1>19, <1>20, <1>21, <1>22, <1>23, <1>24, <1>25, <1>26, <1>27, <1>28,
  <1>29, <1>30, <1>31, <1>32, <1>33, <1>34, <1>35, <1>36, <1>37, <1>38, <1>39, <1>40, <1>41 DEF
  Program, Kernel, FrameStep, PageStep, TeardownStep


\* Only free_frame leads to pagedir_clear_page in the teardown.
LEMMA ClearPageFrom ==
  ASSUME VMInv, NEW p \in Proc, Program(p) \/ Kernel(p), pc'[p] = "clear_page", pc[p] # "clear_page"
  PROVE  FreePage(p)
<1>0. /\ pc \in [Proc -> Labels]
  BY DEF VMInv, IInv, TypeOK
<1> QED  BY <1>0 DEF Program, Kernel, FrameStep, PageStep, TeardownStep, Goto, Kill, Resume,
  Retry, AfterRead, FrameAlloc, FrameAllocFails, EvictFrame, ScanEntry, TestVictim, WriteBack,
  SwapOut, Unload, ClearPage, ReleaseFrame, Repalloc, AddFrame, LoadPage, StackGrowth, BadAddress,
  ReadFile, InstallPage, InstallFails, SwapIn, Unpin, Undo, SysLock, SysCopy, KernelFault,
  ProcessExit, NextMapping, LastMapping, NextEntry, CheckLoaded, MmLock, MmWrite, GetPage,
  UnmapPage, DropEntry, PagedirDestroy, UserAccess, UserFault, SysIO, Mmap, Munmap, Exit


\* The frames of the table are not in anyone's hands.
LEMMA EntryNotInHand ==
  ASSUME VMInv, NEW e \in Entries, NEW p \in Proc, pc[p] = "clear"
  PROVE  e.frame # fte[p].frame
<1>1. fte[p].frame \in HeldFrames
  <2>1. fte[p].frame \in Frame /\ None \notin Frame
    BY VMConstants DEF VMInv, IInv, LocalsInv, LocalsOf, Entry
  <2> QED  BY <2>1 DEF HeldFrames, InHand
<1>2. e.frame \in TabledFrames
  BY DEF Entries, TabledFrames
<1> QED  BY <1>1, <1>2 DEF VMInv, FramePartition

\* free_frame of the teardown frees the frame of the page that is taken down.
LEMMA FreedEntry ==
  ASSUME VMInv, Apart, NEW p \in Proc, pc[p] = "free_frame"
  PROVE  EntryFor(cur[p]) \in Entries /\ EntryFor(cur[p]).frame = frame[p]
<1>1. cur[p] \in Page /\ Owner[cur[p]] = p
  BY CurPage DEF Idle
<1>2. Mapped(cur[p]) /\ frame[p] = pagedir[cur[p]].frame
  BY DEF VMInv, TableInv, ThreadInv, TakeOf, Taking
<1>3. InUse(cur[p]) /\ TabledOf(cur[p])
  BY <1>1, <1>2 DEF InUse, VMInv, TableInv, PageInv
<1>4. ~OutHand(EntryFor(cur[p]))
  BY DEF OutHand, Apart, Evicting, Taking
<1> QED  BY <1>2, <1>3, <1>4 DEF TabledOf, EntryFor

\* A page in use stays in the frame table, or on its way out.
LEMMA TabledStep ==
  ASSUME VMInv, Apart, Apart', panic = "none", NEW p \in Proc, Program(p) \/ Kernel(p),
         NEW x \in Page
  PROVE  TabledOf(x)'
<1>0. /\ pc \in [Proc -> Labels] /\ cur \in [Proc -> Page \cup {None}]
      /\ frame \in [Proc -> Frame \cup {None}] /\ fte \in [Proc -> Entry \cup {None}]
      /\ pagedir \in [Page -> Pte] /\ spte \in [Page -> Spte] /\ spt \subseteq Page
  BY DEF VMInv, IInv, TypeOK
<1>o. /\ Owner[x] \in Proc
      /\ Owner[x] # p => pc'[Owner[x]] = pc[Owner[x]] /\ cur'[Owner[x]] = cur[Owner[x]]
  BY OthersKept, VMConstants DEF SameFor, VMInv, IInv
<1>1. MapMove(p, x) /\ EntriesMove(p) /\ TabledOf(x)
  BY MapMoves, EntriesStep DEF VMInv, TableInv, PageInv
<1> SUFFICES ASSUME InUse(x)' PROVE (EntryFor(x) \in Entries)' \/ OutHand(EntryFor(x))'
  BY DEF TabledOf
<1>2. pagedir'[x].frame # None
  BY DEF InUse, Mapped
<1>3. CASE pagedir'[x].frame = pagedir[x].frame
  <2>1. InUse(x)
    <3>1. Mapped(x)
      BY <1>2, <1>3 DEF Mapped
    <3>2. ASSUME cur[Owner[x]] = x, pc[Owner[x]] = "clear_page" PROVE FALSE
      <4>1. CASE Owner[x] = p
        <5>1. UnmapPage(p) /\ cur[p] = x
          BY <3>2, <4>1, LabelActs
        <5> QED  BY <1>0, <1>2, <5>1 DEF UnmapPage, Cleared, Pte
      <4>2. CASE Owner[x] # p
        BY <1>o, <3>2, <4>2 DEF InUse
      <4> QED  BY <4>1, <4>2
    <3> QED  BY <3>1, <3>2 DEF InUse
  <2>2. EntryFor(x)' = EntryFor(x) /\ EntryFor(x).spte = x /\ EntryFor(x) \in Entry
    BY <1>0, <1>2, <1>3 DEF EntryFor, Entry, Pte
  <2> DEFINE e == EntryFor(x)
  <2>3. CASE OutHand(e)
    BY <1>2, <2>2, <2>3, LeavingKept
  <2>4. CASE e \in Entries
    <3>0. e.frame = pagedir[x].frame
      BY DEF EntryFor
    <3> HIDE DEF e
    <3>1. CASE pc[p] = "unload" /\ Entries' = Entries \ {fte[p]} /\ pc'[p] = "clear"
      <4>1. fte' = fte
        BY <3>1, LabelActs DEF Unload, locals
      <4>2. e = fte[p] => OutHand(e)'
        BY <2>2, <3>1, <4>1 DEF OutHand, e
      <4>3. e \in Entries' \/ OutHand(e)'
        BY <2>4, <3>1, <4>2
      <4> QED  BY <2>2, <4>3 DEF e
    <3>2. CASE pc[p] = "undo" /\ Entries' = {g \in Entries : g.frame # frame[p]}
      <4>1. [frame |-> frame[p], spte |-> cur[p]] \in Entries /\ ~Mapped(cur[p])
        BY <3>2 DEF VMInv, TableInv, ThreadInv, HeldOf, LoadOf, Absent
      <4>2. ASSUME e.frame = frame[p] PROVE FALSE
        <5>1. e = [frame |-> frame[p], spte |-> cur[p]]
          BY <2>4, <4>1, <4>2, EntriesFacts
        <5> QED  BY <1>2, <1>3, <2>2, <4>1, <5>1 DEF e, Mapped
      <4> QED  BY <2>2, <2>4, <3>2, <4>2 DEF e
    <3>3. CASE pc[p] = "free_frame" /\ Entries' = {g \in Entries : g.frame # frame[p]}
      <4>1. ASSUME e.frame = frame[p] PROVE FALSE
        <5>1. e = EntryFor(cur[p])
          BY <2>4, <3>3, <4>1, FreedEntry, EntriesFacts
        <5>2. x = cur[p] /\ Owner[x] = p
          BY <2>2, <3>3, <5>1, CurPage DEF e, EntryFor, Idle
        <5>3. pc'[p] = "clear_page" /\ cur'[p] = cur[p]
          BY <1>0, <3>3, LabelActs DEF FreePage, Goto
        <5> QED  BY <5>2, <5>3 DEF InUse
      <4> QED  BY <2>2, <2>4, <3>3, <4>1 DEF e
    <3>4. CASE Entries \subseteq Entries'
      BY <2>2, <2>4, <3>4 DEF e
    <3> QED  BY <1>1, <3>1, <3>2, <3>3, <3>4 DEF EntriesMove
  <2> QED  BY <1>1, <2>1, <2>3, <2>4 DEF TabledOf
<1>4. CASE pc[p] = "install" /\ x = cur[p] /\ pagedir'[x].frame = frame[p]
  <2>1. [frame |-> frame[p], spte |-> x] \in Entries
    BY <1>4 DEF VMInv, TableInv, ThreadInv, HeldOf
  <2>2. Entries' = Entries
    BY <1>1, <1>4 DEF EntriesMove
  <2> QED  BY <1>4, <2>1, <2>2 DEF EntryFor
<1> QED  BY <1>1, <1>2, <1>3, <1>4 DEF MapMove

\* Every entry of the table is for a mapped page or for a load in progress.
LEMMA EntryStep ==
  ASSUME VMInv, Apart, Apart', panic = "none", NEW p \in Proc, Program(p) \/ Kernel(p),
         NEW e \in Entries'
  PROVE  EntryOf(e)'
<1>0. /\ pc \in [Proc -> Labels] /\ cur \in [Proc -> Page \cup {None}]
      /\ frame \in [Proc -> Frame \cup {None}] /\ fte \in [Proc -> Entry \cup {None}]
      /\ pagedir \in [Page -> Pte] /\ spte \in [Page -> Spte] /\ spt \subseteq Page
  BY DEF VMInv, IInv, TypeOK
<1> DEFINE x == e.spte
<1>1. EntriesMove(p)
  BY EntriesStep
<1>2. CASE e \notin Entries
  <2>1. pc[p] = "add" /\ e = [frame |-> frame[p], spte |-> cur[p]]
    BY <1>1, <1>2 DEF EntriesMove
  <2>2. AddFrame(p) /\ cur[p] \in Page /\ Owner[cur[p]] = p /\ ~Mapped(cur[p])
    BY <2>1, LabelActs, CurPage DEF Idle, VMInv, TableInv, ThreadInv, LoadOf, Absent
  <2>3. pc'[p] \in {"read_file", "install"} /\ frame' = frame /\ cur' = cur /\ pagedir' = pagedir
    BY <1>0, <2>2 DEF AddFrame, Goto, locals, pages
  <2> QED  BY <2>1, <2>2, <2>3 DEF EntryOf, At, Mapped
<1>3. CASE e \in Entries
  <2>1. e \in Entry /\ x \in Page /\ e.frame \in Frame /\ e.frame # None
    BY <1>3, EntriesFacts, VMConstants DEF Entry
  <2>2. MapMove(p, x) /\ EntryOf(e) /\ Owner[x] \in Proc
    BY <1>3, <2>1, MapMoves, VMConstants DEF VMInv, TableInv, PageInv
  <2>3. Owner[x] # p => SameFor(Owner[x])
    BY <2>2, OthersKept DEF VMInv, IInv
  <2>4. CASE pagedir[x].frame = e.frame /\ ~At(x, {"clear_page"})
    <3>1. pagedir'[x].frame = e.frame
      <4>1. ~(pc[p] = "clear" /\ x = fte[p].spte)
        <5> SUFFICES ASSUME pc[p] = "clear", x = fte[p].spte PROVE FALSE
          OBVIOUS
        <5>1. pagedir[x].frame = fte[p].frame
          BY DEF VMInv, TableInv, ThreadInv, VictimOf
        <5> QED  BY <1>3, <2>4, <5>1, EntryNotInHand
      <4>2. ~(pc[p] = "clear_page" /\ x = cur[p])
        BY <2>4, CurPage DEF At, Idle
      <4>3. ~(pc[p] = "pagedir" /\ Owner[x] = p)
        BY <2>1, <2>4 DEF VMInv, TableInv, ThreadInv, ModeOf, PageInv, MapOf, Mapped, PagesOf
      <4> QED  BY <2>1, <2>2, <2>4, <4>1, <4>2, <4>3 DEF MapMove, Mapped
    <3>2. ~At(x, {"clear_page"})'
      <4> SUFFICES ASSUME cur'[Owner[x]] = x, pc'[Owner[x]] = "clear_page" PROVE FALSE
        BY DEF At
      <4>1. Owner[x] = p
        BY <2>3, <2>4 DEF At, SameFor
      <4>2. FreePage(p)
        <5>1. pc[p] # "clear_page"
          BY <1>0, <4>1, LabelActs DEF UnmapPage, Goto
        <5> QED  BY <4>1, <5>1, ClearPageFrom
      <4>3. cur[p] = x /\ frame[p] = pagedir[x].frame /\ Entries' = {g \in Entries : g.frame # frame[p]}
        BY <4>1, <4>2, EntriesFreed DEF FreePage, VMInv, TableInv, ThreadInv, TakeOf
      <4> QED  BY <2>4, <4>3
    <3> QED  BY <3>1, <3>2 DEF EntryOf
  <2>5. CASE /\ At(x, {"read_file", "install", "undo"})
             /\ frame[Owner[x]] = e.frame /\ ~Mapped(x)
    <3>1. CASE Owner[x] # p
      <4>1. pagedir'[x].frame = None
        BY <2>2, <2>5, <3>1, CurPage DEF MapMove, Mapped, Idle
      <4> QED  BY <2>3, <2>5, <3>1, <4>1 DEF EntryOf, At, SameFor, Mapped
    <3>2. CASE Owner[x] = p
      <4>0. cur[p] = x /\ frame[p] = e.frame
        BY <2>5, <3>2 DEF At
      <4>1. CASE pc[p] = "read_file"
        <5>1. PICK short \in BOOLEAN : ReadFile(p, short)
          BY <4>1, LabelActs
        <5>2. pc'[p] \in {"install", "undo"} /\ cur' = cur /\ frame' = frame /\ pagedir' = pagedir
          BY <1>0, <5>1 DEF ReadFile, AfterRead, Goto, locals, pages
        <5> QED  BY <2>5, <3>2, <4>0, <5>2 DEF EntryOf, At, Mapped
      <4>2. CASE pc[p] = "install"
        <5>1. CASE InstallPage(p)
          <6>1. pagedir'[x].frame = frame[p]
            BY <1>0, <2>1, <2>5, <4>0, <5>1 DEF InstallPage, Unmapped
          <6>2. pc'[p] # "clear_page"
            BY <1>0, <5>1 DEF InstallPage, Resume, Goto
          <6> QED  BY <3>2, <4>0, <6>1, <6>2 DEF EntryOf, At
        <5>2. CASE InstallFails(p)
          <6>1. pc'[p] = "undo" /\ cur' = cur /\ frame' = frame /\ pagedir' = pagedir
            BY <1>0, <5>2 DEF InstallFails, Goto, locals, pages
          <6> QED  BY <2>5, <3>2, <4>0, <6>1 DEF EntryOf, At, Mapped
        <5> QED  BY <4>2, <5>1, <5>2, LabelActs
      <4>3. CASE pc[p] = "undo"
        <5>1. Entries' = {g \in Entries : g.frame # frame[p]}
          BY <4>3, LabelActs, EntriesFreed DEF Undo
        <5> QED  BY <4>0, <5>1
      <4> QED  BY <2>5, <3>2, <4>1, <4>2, <4>3 DEF At
    <3> QED  BY <3>1, <3>2
  <2> QED  BY <2>2, <2>4, <2>5 DEF EntryOf
<1> QED  BY <1>2, <1>3

\* What the tables say of each page holds again after every step.
LEMMA PageStepInv ==
  ASSUME VMInv, Apart, Apart', panic = "none", NEW p \in Proc, Program(p) \/ Kernel(p)
  PROVE  PageInv'
<1>1. \A x \in Page : MapOf(x)' /\ TypeOf(x)' /\ LoadedOf(x)' /\ TabledOf(x)'
  BY MapStep, KindStep, LoadedStep, TabledStep
<1>2. \A e \in Entries' : EntryOf(e)'
  BY EntryStep
<1> QED  BY <1>1, <1>2 DEF PageInv


-----------------------------------------------------------------------------
\* pagedir_destroy finds no page left: the teardown has unmapped them all.
LEMMA NothingLeft ==
  ASSUME VMInv, panic = "none", NEW p \in Proc, PagedirDestroy(p)
  PROVE  FrameMoves(p)
<1>1. \A pg \in PagesOf(p) : ~Mapped(pg)
  BY DEF PagedirDestroy, VMInv, TableInv, ThreadInv, ModeOf, PageInv, MapOf, PagesOf
<1>2. user_pool' = user_pool /\ frame_tbl_list' = frame_tbl_list
  BY <1>1 DEF PagedirDestroy
<1>3. pc[p] = "pagedir" /\ pc'[p] = "dead" /\ frame' = frame /\ fte' = fte
  BY DEF PagedirDestroy, VMInv, IInv, TypeOK, Goto, locals
<1> QED  BY <1>2, <1>3 DEF FrameMoves, Nothing, InHand, frames

\* No step loses a frame or puts one in two places, to the end of a process.
LEMMA PartitionStays ==
  ASSUME VMInv, panic = "none", NEW p \in Proc, Program(p) \/ Kernel(p)
  PROVE  FramePartition'
<1>1. CASE PagedirDestroy(p)
  BY <1>1, NothingLeft, PartitionKept DEF VMInv
<1>2. CASE ~PagedirDestroy(p)
  <2>1. pc'[p] # "dead"
<3>0. /\ pc \in [Proc -> Labels]
    BY DEF VMInv, IInv, TypeOK
    <3> QED  BY <1>2, <3>0 DEF Program, Kernel, FrameStep, PageStep, TeardownStep, Goto, Kill,
      Resume, Retry, AfterRead, FrameAlloc, FrameAllocFails, EvictFrame, ScanEntry, TestVictim,
      WriteBack, SwapOut, Unload, ClearPage, ReleaseFrame, Repalloc, AddFrame, LoadPage,
      StackGrowth, BadAddress, ReadFile, InstallPage, InstallFails, SwapIn, Unpin, Undo, SysLock,
      SysCopy, KernelFault, ProcessExit, NextMapping, LastMapping, NextEntry, CheckLoaded,
      MmLock, MmWrite, GetPage, FreePage, UnmapPage, DropEntry, UserAccess, UserFault, SysIO,
      Mmap, Munmap, Exit
  <2> QED  BY <2>1, FrameMove, PartitionKept DEF VMInv, Moves
<1> QED  BY <1>1, <1>2

\* No page is mapped and every thread is in its program at first.
LEMMA InitVMInv ==
  ASSUME Init
  PROVE  VMInv
<1>1. IInv
  BY InitInv
<1>2. FramePartition
  <2>1. NobodyDead
    BY DEF Init, NobodyDead
  <2> QED  BY <1>1, <2>1 DEF IInv
<1>3. Entries = {} /\ \A pg \in Page : ~Mapped(pg)
  BY DEF Init, Entries, Mapped, Unmapped
<1>4. ThreadInv
  <2> SUFFICES ASSUME NEW p \in Proc
               PROVE  /\ CurOf(p) /\ LoadOf(p) /\ HeldOf(p) /\ VictimOf(p)
                      /\ TakeOf(p) /\ ModeOf(p) /\ MmapOf(p)
    BY DEF ThreadInv
  <2>1. pc[p] = "user" /\ mode[p] = "user" /\ mmap_list[p] = <<>>
    BY DEF Init
  <2>2. CurOf(p) /\ LoadOf(p) /\ HeldOf(p) /\ VictimOf(p) /\ TakeOf(p) /\ ModeOf(p)
    BY <2>1 DEF CurOf, LoadOf, HeldOf, VictimOf, TakeOf, ModeOf, Idle, Absent, Pinning, Chosen,
      Taking
  <2>3. MmapOf(p)
    BY <2>1 DEF MmapOf, Init
  <2> QED  BY <2>2, <2>3
<1>5. PageInv
  <2>1. ASSUME NEW pg \in Page PROVE MapOf(pg) /\ TypeOf(pg) /\ LoadedOf(pg) /\ TabledOf(pg)
    BY <1>3, <2>1 DEF MapOf, TypeOf, LoadedOf, TabledOf, InUse, Init, NewSpte
  <2> QED  BY <1>3, <2>1 DEF PageInv
<1> QED  BY <1>1, <1>2, <1>4, <1>5 DEF VMInv, TableInv

\* A step that changes nothing keeps the invariant.
LEMMA StutterVMInv ==
  ASSUME VMInv, UNCHANGED vars
  PROVE  VMInv'
<1> USE DEF vars, locals, locks, frames, pages, contents
<1>1. IInv'
  BY StutterInv DEF VMInv
<1>2. FramePartition'
  BY DEF VMInv, FramePartition, TabledFrames, HeldFrames, InHand
<1>3. ThreadInv'
  BY DEF VMInv, TableInv, ThreadInv, CurOf, LoadOf, HeldOf, VictimOf, TakeOf, ModeOf, MmapOf,
    Mapped, Entries
<1>4. PageInv'
  BY DEF VMInv, TableInv, PageInv, MapOf, TypeOf, LoadedOf, TabledOf, EntryOf, Entries, EntryFor,
    InUse, OutHand, Leaving, At, Mapped
<1> QED  BY <1>1, <1>2, <1>3, <1>4 DEF VMInv, TableInv

\* Every step that begins and ends with the two apart keeps the invariant.
LEMMA StepVMInv ==
  ASSUME VMInv, Apart, Apart', [Next]_vars
  PROVE  VMInv'
<1>1. ASSUME panic = "none", NEW p \in Proc, Program(p) \/ Kernel(p)
      PROVE  VMInv'
  <2>1. IInv'
    BY <1>1, StepInv DEF VMInv, Next
  <2> QED  BY <1>1, <2>1, PartitionStays, ThreadStep, PageStepInv DEF VMInv, TableInv
<1>2. CASE UNCHANGED vars
  BY <1>2, StutterVMInv
<1> QED  BY <1>1, <1>2 DEF Next, Terminated

\* VMInv is an invariant of every behaviour in which no process takes a page
\* down (process_remove_mmap, page_function) while another is in evict_frame.
THEOREM TablesInductive == Spec /\ []Apart => []VMInv
<1>1. Init => VMInv
  BY InitVMInv
<1>2. VMInv /\ Apart /\ Apart' /\ [Next]_vars => VMInv'
  BY StepVMInv
<1> QED  BY <1>1, <1>2, PTL DEF Spec

\* At every label, what a thread is about to do to a page agrees with the page
\* directory, the supplemental page table, mmap_list and the frame table, where
\* no teardown overlaps an eviction.
THEOREM TablesHold == Spec /\ []Apart => []TableInv
<1>1. VMInv => TableInv
  BY DEF VMInv
<1> QED  BY <1>1, TablesInductive, PTL

\* A page its owner uses is the one the frame table records for its frame, or is
\* on its way out: no frame is in use for two pages, whatever faults, evictions
\* and system calls run at once, as long as no teardown overlaps an eviction.
THEOREM MappingsTabled == Spec /\ []Apart => []MappingsAreTabled
<1>1. VMInv => MappingsAreTabled
  BY DEF VMInv, TableInv, PageInv, TabledOf, MappingsAreTabled, EntryFor, OutHand, Entries, ToSet
<1> QED  BY <1>1, TablesInductive, PTL

\* is_loaded means mapped, so page_fault never finds it set and kills a process
\* for a legal access, where no teardown overlaps an eviction.
THEOREM LoadedMapped == Spec /\ []Apart => []LoadedIsMapped
<1>1. VMInv => LoadedIsMapped
  BY DEF VMInv, TableInv, PageInv, LoadedOf, LoadedIsMapped, At, IInv, TypeOK
<1> QED  BY <1>1, TablesInductive, PTL

\* Where no teardown overlaps an eviction, every frame is free, in one entry of the
\* frame table or in one thread's hands, to the end of every process:
\* pagedir_destroy finds no page left to free.
THEOREM AllFramesAccounted == Spec /\ []Apart => []FramePartition
<1>1. VMInv => FramePartition
  BY DEF VMInv
<1> QED  BY <1>1, TablesInductive, PTL

\* A process that has exited has no frame, no mapping and no entry left (its swap
\* slots stay in use), where no teardown overlaps an eviction.
THEOREM ExitFreesAll == Spec /\ []Apart => []DeadOwnNothing
<1>1. ASSUME VMInv PROVE DeadOwnNothing
  <2> SUFFICES ASSUME NEW pg \in Page, pc[Owner[pg]] = "dead"
               PROVE  /\ ~Mapped(pg) /\ pg \notin spt
                      /\ \A i \in DOMAIN frame_tbl_list : frame_tbl_list[i].spte # pg
    BY DEF DeadOwnNothing
  <2>1. pg \notin spt /\ Owner[pg] \in Proc
    BY <1>1, VMConstants DEF VMInv, TableInv, ThreadInv, ModeOf, PagesOf
  <2>2. ~Mapped(pg)
    BY <1>1, <2>1 DEF VMInv, TableInv, PageInv, MapOf
  <2>3. ASSUME NEW e \in Entries, e.spte = pg PROVE FALSE
    <3>1. EntryOf(e) /\ e \in Entry /\ None \notin Frame
      BY <1>1, <2>3, EntriesFacts, VMConstants DEF VMInv, TableInv, PageInv
    <3> QED  BY <2>2, <2>3, <3>1 DEF EntryOf, At, Mapped, Entry
  <2> QED  BY <2>1, <2>2, <2>3 DEF Entries
<1> QED  BY <1>1, TablesInductive, PTL

\* One step of PinnedStaysMapped.
LEMMA PinnedStep ==
  ASSUME VMInv, Apart, Apart', [Next]_vars
  PROVE  [\A pg \in Page : spte[pg].pinned /\ Mapped(pg) /\ pagedir'[pg].frame = None
            => pc[Owner[pg]] \in {"clear_page", "pagedir"}]_vars
<1> SUFFICES ASSUME panic = "none", NEW p \in Proc, Program(p) \/ Kernel(p), NEW pg \in Page,
                    spte[pg].pinned, Mapped(pg), pagedir'[pg].frame = None
             PROVE  pc[Owner[pg]] \in {"clear_page", "pagedir"}
  BY DEF Next, Terminated
<1>1. MapMove(p, pg)
  BY MapMoves
<1>2. ~(pc[p] = "clear" /\ pg = fte[p].spte)
  BY DEF VMInv, TableInv, ThreadInv, VictimOf
<1>3. pc[p] = "clear_page" /\ pg = cur[p] => Owner[pg] = p
  BY CurPage DEF Idle
<1>4. pc[p] = "install" => frame[p] \in Frame /\ None \notin Frame
  BY VMConstants DEF VMInv, IInv, LocalsInv, LocalsOf
<1> QED  BY <1>1, <1>2, <1>3, <1>4 DEF MapMove, Mapped

-----------------------------------------------------------------------------
(***************************************************************************)
(* The regimes under which no teardown overlaps an eviction.               *)
(***************************************************************************)

\* Programs that neither unmap nor exit, and touch only what is theirs, are never
\* killed: no teardown begins.
LEMMA CalmStep ==
  ASSUME VMInv, Calm, NoTeardown, panic = "none", NEW p \in Proc, Program(p) \/ Kernel(p)
  PROVE  NoTeardown'
<1> USE DEF Calm
<1>a. Apart
  BY DEF NoTeardown, CalmOf, Apart
<1>0. /\ pc \in [Proc -> Labels] /\ mode \in [Proc -> Modes]
      /\ cur \in [Proc -> Page \cup {None}] /\ spte \in [Page -> Spte] /\ spt \subseteq Page
  BY DEF VMInv, IInv, TypeOK
<1>d. LoadOf(p)
  BY DEF VMInv, TableInv, ThreadInv
<1>m. ModeOf(p)
  BY DEF VMInv, TableInv, ThreadInv
<1>e. CalmOf(p)
  BY DEF NoTeardown
<1>c. pc[p] \notin Idle => cur[p] \in Page /\ Owner[cur[p]] = p
  BY CurPage
<1>f. Calls \cap {"munmap", "exit", "short_read", "no_memory"} = {}
  BY DEF Calm
<1>g. spt \subseteq spt'
  BY <1>0, <1>e DEF CalmOf, Taking, Program, Kernel, FrameStep, PageStep, TeardownStep, pages,
    FrameAlloc, FrameAllocFails, EvictFrame, ScanEntry, TestVictim, WriteBack, SwapOut, Unload,
    ClearPage, ReleaseFrame, Repalloc, AddFrame, LoadPage, StackGrowth, BadAddress, ReadFile,
    InstallPage, InstallFails, SwapIn, Unpin, Undo, SysLock, SysCopy, KernelFault, ProcessExit,
    NextMapping, LastMapping, NextEntry, CheckLoaded, MmLock, MmWrite, GetPage, FreePage,
    UnmapPage, DropEntry, PagedirDestroy, UserAccess, UserFault, SysIO, Mmap, Munmap, Exit
<1>1. ASSUME NEW q \in Proc \ {p} PROVE CalmOf(q)'
  <2>1. SameFor(q) /\ CalmOf(q)
    BY OthersKept DEF VMInv, IInv, NoTeardown
  <2> QED  BY <1>g, <2>1 DEF CalmOf, SameFor, Known
<1>2. CalmOf(p)'
<2>1. CASE FrameAlloc(p)
  BY <2>1, <1>0, <1>e, <1>f DEF FrameAlloc, Goto, TakeFrame, CalmOf, Taking, Known, locals, pages
<2>2. CASE FrameAllocFails(p)
  BY <2>2, <1>0, <1>e, <1>f DEF FrameAllocFails, Goto, CalmOf, Taking, Known, locals, pages
<2>3. CASE EvictFrame(p)
  BY <2>3, <1>0, <1>e, <1>f DEF EvictFrame, Goto, CalmOf, Taking, Known, locals, pages
<2>4. CASE ScanEntry(p)
  BY <2>4, <1>0, <1>e, <1>f DEF ScanEntry, Goto, CalmOf, Taking, Known, locals, pages
<2>5. CASE TestVictim(p)
  BY <2>5, <1>0, <1>e, <1>f DEF TestVictim, Goto, CalmOf, Taking, Known, locals, pages
<2>6. CASE WriteBack(p)
  BY <2>6, <1>0, <1>e, <1>f DEF WriteBack, Goto, CalmOf, Taking, Known, locals, pages
<2>7. CASE SwapOut(p)
  BY <2>7, <1>0, <1>e, <1>f DEF SwapOut, Goto, CalmOf, Taking, Known, locals, pages
<2>8. CASE Unload(p)
  BY <2>8, <1>0, <1>e, <1>f DEF Unload, Goto, CalmOf, Taking, Known, locals, pages
<2>9. CASE ClearPage(p)
  BY <2>9, <1>0, <1>e, <1>f DEF ClearPage, Goto, CalmOf, Taking, Known, locals, pages
<2>10. CASE ReleaseFrame(p)
  BY <2>10, <1>0, <1>e, <1>f DEF ReleaseFrame, Goto, CalmOf, Taking, Known, locals, pages
<2>11. CASE Repalloc(p)
  BY <2>11, <1>0, <1>e, <1>f DEF Repalloc, Goto, Retry, TakeFrame, CalmOf, Taking, Known, locals,
    pages
<2>12. CASE AddFrame(p)
  BY <2>12, <1>0, <1>e, <1>f DEF AddFrame, Goto, CalmOf, Taking, Known, locals, pages
<2>13. CASE LoadPage(p)
  <3>1. ~Mapped(cur[p]) /\ cur[p] \in Page /\ cur[p] \in spt /\ Owner[cur[p]] = p /\ pc[p] = "fault"
    BY <2>13, <1>d, <1>c DEF LoadPage, LoadOf, Absent, Idle
  <3>2. ~spte[cur[p]].is_loaded
    BY <3>1 DEF VMInv, TableInv, PageInv, LoadedOf, At
  <3>3. pc'[p] = "palloc"
    BY <2>13, <1>0, <3>2 DEF LoadPage, Goto
  <3> QED  BY <3>3 DEF CalmOf, Taking
<2>14. CASE StackGrowth(p)
  <3>1. pc'[p] = "palloc"
    BY <2>14, <1>0 DEF StackGrowth, Goto
  <3> QED  BY <3>1 DEF CalmOf, Taking
<2>15. CASE BadAddress(p)
  BY <2>15, <1>0, <1>e, <1>f DEF BadAddress, Goto, Kill, CalmOf, Taking, Known, locals, pages
<2>16. ASSUME NEW short \in BOOLEAN, ReadFile(p, short), short => "short_read" \in Calls
       PROVE CalmOf(p)'
  BY <2>16, <1>0, <1>e, <1>f DEF ReadFile, Goto, AfterRead, CalmOf, Taking, Known, locals, pages
<2>16f. ASSUME "no_memory" \in Calls, InstallFails(p) PROVE CalmOf(p)'
  BY <2>16f, <1>0, <1>e, <1>f DEF InstallFails, Goto, CalmOf, Taking, Known, locals, pages
<2>17. CASE InstallPage(p)
  <3>1. ~Mapped(cur[p]) /\ mode[p] \in {"user", "io"}
    BY <2>17, <1>0, <1>d, <1>m DEF InstallPage, LoadOf, Absent, ModeOf, Taking, Modes
  <3>2. /\ cur' = cur /\ spt' = spt \cup {cur[p]}
        /\ pc'[p] \in {"user", "copy", "swap_in", "unpin"}
    BY <2>17, <1>0, <3>1 DEF InstallPage, Resume, Goto
  <3> QED  BY <3>2 DEF CalmOf, Taking
<2>18. CASE SwapIn(p)
  <3>1. pc[p] = "swap_in" /\ pc'[p] \in {"swap_in", "unpin"}
    BY <2>18, <1>0 DEF SwapIn, Goto
  <3> QED  BY <3>1 DEF CalmOf, Taking
<2>19. CASE Unpin(p)
  <3>1. mode[p] \in {"user", "io"} /\ cur[p] \in spt
    BY <2>19, <1>0, <1>d, <1>m DEF Unpin, LoadOf, ModeOf, Taking, Modes
  <3>2. /\ cur' = cur /\ spt' = spt /\ pc'[p] \in {"user", "copy"}
    BY <2>19, <1>0, <3>1 DEF Unpin, Resume, Goto
  <3> QED  BY <3>1, <3>2 DEF CalmOf, Taking
<2>20. CASE Undo(p)
  BY <2>20, <1>0, <1>e, <1>f DEF Undo, Goto, Kill, CalmOf, Taking, Known, locals, pages
<2>21. CASE SysLock(p)
  BY <2>21, <1>0, <1>e, <1>f DEF SysLock, Goto, CalmOf, Taking, Known, locals, pages
<2>22. ASSUME NEW write \in BOOLEAN, SysCopy(p, write) PROVE CalmOf(p)'
  BY <2>22, <1>0, <1>e, <1>f DEF SysCopy, Goto, CalmOf, Taking, Known, locals, pages
<2>23. CASE KernelFault(p)
  BY <2>23, <1>0, <1>e, <1>f DEF KernelFault, Goto, CalmOf, Taking, Known, locals, pages
<2>24. CASE ProcessExit(p)
  BY <2>24, <1>0, <1>e, <1>f DEF ProcessExit, Goto, CalmOf, Taking, Known, locals, pages
<2>25. CASE NextMapping(p)
  BY <2>25, <1>0, <1>e, <1>f DEF NextMapping, Goto, CalmOf, Taking, Known, locals, pages
<2>26. CASE LastMapping(p)
  BY <2>26, <1>0, <1>e, <1>f DEF LastMapping, Goto, CalmOf, Taking, Known, locals, pages
<2>27. CASE NextEntry(p)
  BY <2>27, <1>0, <1>e, <1>f DEF NextEntry, Goto, CalmOf, Taking, Known, locals, pages
<2>28. CASE CheckLoaded(p)
  BY <2>28, <1>0, <1>e, <1>f DEF CheckLoaded, Goto, HasFrame, CalmOf, Taking, Known, locals, pages
<2>29. CASE MmLock(p)
  BY <2>29, <1>0, <1>e, <1>f DEF MmLock, Goto, CalmOf, Taking, Known, locals, pages
<2>30. CASE MmWrite(p)
  BY <2>30, <1>0, <1>e, <1>f DEF MmWrite, Goto, CalmOf, Taking, Known, locals, pages
<2>31. CASE GetPage(p)
  BY <2>31, <1>0, <1>e, <1>f DEF GetPage, Goto, CalmOf, Taking, Known, locals, pages
<2>32. CASE FreePage(p)
  BY <2>32, <1>0, <1>e, <1>f DEF FreePage, Goto, CalmOf, Taking, Known, locals, pages
<2>33. CASE UnmapPage(p)
  BY <2>33, <1>0, <1>e, <1>f DEF UnmapPage, Goto, CalmOf, Taking, Known, locals, pages
<2>34. CASE DropEntry(p)
  BY <2>34, <1>0, <1>e, <1>f DEF DropEntry, Goto, CalmOf, Taking, Known, locals, pages
<2>35. CASE PagedirDestroy(p)
  BY <2>35, <1>0, <1>e, <1>f DEF PagedirDestroy, Goto, CalmOf, Taking, Known, locals, pages
<2>36. ASSUME NEW pg \in PagesOf(p), NEW write \in BOOLEAN, UserAccess(p, pg, write)
       PROVE CalmOf(p)'
  BY <2>36, <1>0, <1>e, <1>f DEF UserAccess, CalmOf, Taking, Known, locals, pages
<2>37. ASSUME NEW pg \in PagesOf(p), UserFault(p, pg), Known(pg) \/ "exit" \in Calls
       PROVE CalmOf(p)'
  <3>1. Known(pg)
    BY <2>37, <1>f
  <3>2. cur'[p] = pg /\ spt' = spt /\ pc'[p] = "fault"
    BY <2>37, <1>0, <3>1 DEF UserFault, Goto, pages
  <3> QED  BY <3>1, <3>2 DEF CalmOf, Taking, Known
<2>38. ASSUME NEW pg \in PagesOf(p), SysIO(p, pg), Mapped(pg) \/ "exit" \in Calls PROVE CalmOf(p)'
  <3>1. Mapped(pg) /\ pg \in Page /\ Owner[pg] = p
    BY <2>38, <1>f DEF PagesOf
  <3>2. pg \in spt
    BY <3>1 DEF VMInv, TableInv, PageInv, MapOf
  <3>3. cur'[p] = pg /\ spt' = spt /\ pc'[p] = "sys_lock"
    BY <2>38, <1>0, <3>1 DEF SysIO, Goto, pages
  <3> QED  BY <3>2, <3>3 DEF CalmOf, Taking
<2>39. CASE Mmap(p)
  BY <2>39, <1>0, <1>e, <1>f DEF Mmap, CalmOf, Taking, Known, locals, pages
<2>40. CASE "munmap" \in Calls /\ Munmap(p)
  BY <2>40, <1>0, <1>e, <1>f DEF Munmap, Goto, CalmOf, Taking, Known, locals, pages
<2>41. CASE "exit" \in Calls /\ Exit(p)
  BY <2>41, <1>0, <1>e, <1>f DEF Exit, Goto, CalmOf, Taking, Known, locals, pages
<2> QED  BY <2>1, <2>2, <2>3, <2>4, <2>5, <2>6, <2>7, <2>8, <2>9, <2>10, <2>11, <2>12, <2>13,
  <2>14, <2>15,
  <2>16, <2>16f, <2>17, <2>18, <2>19, <2>20, <2>21, <2>22, <2>23, <2>24, <2>25, <2>26, <2>27, <2>28,
  <2>29, <2>30, <2>31, <2>32, <2>33, <2>34, <2>35, <2>36, <2>37, <2>38, <2>39, <2>40, <2>41 DEF
  Program, Kernel, FrameStep, PageStep, TeardownStep
<1> QED  BY <1>1, <1>2 DEF NoTeardown


\* Every page can have a frame of its own, so palloc never comes back empty.
LEMMA FrameLeft ==
  ASSUME VMInv, NoEvict, Roomy, panic = "none", NEW p \in Proc, pc[p] = "palloc"
  PROVE  user_pool # {}
<1> SUFFICES ASSUME user_pool = {} PROVE FALSE
  OBVIOUS
<1>0. cur[p] \in Page /\ Owner[cur[p]] = p /\ ~Mapped(cur[p])
  BY CurPage DEF Idle, VMInv, TableInv, ThreadInv, LoadOf, Absent
<1> DEFINE Loading(q, x) == pc[q] = "add" /\ x = cur[q]
           Has(f, x) == \/ [frame |-> f, spte |-> x] \in Entries
                        \/ \E q \in Proc : Loading(q, x) /\ frame[q] = f
<1>1. ASSUME NEW f \in Frame PROVE \E x \in Page \ {cur[p]} : Has(f, x)
  <2>1. CASE f \in TabledFrames
    <3>1. PICK e \in Entries : e.frame = f
      BY <2>1 DEF TabledFrames, Entries
    <3>2. e \in Entry /\ EntryOf(e) /\ e.frame # None
      BY <3>1, EntriesFacts, VMConstants DEF VMInv, TableInv, PageInv
    <3>3. e.spte # cur[p]
      BY <1>0, <3>1, <3>2, VMConstants DEF EntryOf, At, Mapped
    <3>4. e = [frame |-> f, spte |-> e.spte] /\ e.spte \in Page
      BY <3>1, <3>2 DEF Entry
    <3> QED  BY <3>1, <3>3, <3>4
  <2>2. CASE f \notin TabledFrames
    <3>1. PICK q \in Proc : InHand(q) = f
      BY <2>2 DEF VMInv, FramePartition, HeldFrames
    <3>2. pc[q] = "add" /\ frame[q] = f
      BY <3>1, VMConstants DEF InHand, NoEvict, Evicting
    <3>3. cur[q] \in Page /\ Owner[cur[q]] = q /\ q # p
      BY <3>2, CurPage DEF Idle
    <3> QED  BY <1>0, <3>2, <3>3
  <2> QED  BY <2>1, <2>2
<1>2. ASSUME NEW f \in Frame, NEW g \in Frame, NEW x \in Page, Has(f, x), Has(g, x)
      PROVE  f = g
  <2>1. ASSUME NEW k \in Frame, [frame |-> k, spte |-> x] \in Entries
        PROVE  EntryOf([frame |-> k, spte |-> x]) /\ k # None
    BY <2>1, VMConstants DEF VMInv, TableInv, PageInv
  <2>2. ASSUME NEW q \in Proc, Loading(q, x) PROVE Owner[x] = q /\ ~Mapped(x)
    BY <2>2, CurPage DEF Idle, VMInv, TableInv, ThreadInv, LoadOf, Absent
  <2>3. ASSUME NEW k \in Frame, [frame |-> k, spte |-> x] \in Entries, NEW q \in Proc, Loading(q, x)
        PROVE  FALSE
    BY <2>1, <2>2, <2>3 DEF EntryOf, At, Mapped
  <2>4. CASE [frame |-> f, spte |-> x] \in Entries /\ [frame |-> g, spte |-> x] \in Entries
    BY <2>1, <2>4 DEF EntryOf, At, Mapped
  <2>5. CASE /\ \E q \in Proc : Loading(q, x) /\ frame[q] = f
             /\ \E q \in Proc : Loading(q, x) /\ frame[q] = g
    BY <2>2, <2>5
  <2> HIDE DEF Loading
  <2> QED  BY <1>2, <2>3, <2>4, <2>5
<1> HIDE DEF Has
<1> DEFINE h == [f \in Frame |-> CHOOSE x \in Page \ {cur[p]} : Has(f, x)]
<1>3. /\ h \in [Frame -> Page \ {cur[p]}] /\ \A f \in Frame : Has(f, h[f])
  BY <1>1
<1> HIDE DEF h
<1>4. /\ IsFiniteSet(Page \ {cur[p]}) /\ Cardinality(Page \ {cur[p]}) = Cardinality(Page) - 1
      /\ Cardinality(Page) \in Nat /\ Cardinality(Frame) \in Nat
      /\ IsFiniteSet(Frame) /\ Cardinality(Page) <= Cardinality(Frame)
  BY <1>0, FS_RemoveElement, FS_CardinalityType DEF Roomy
<1>5. PICK f, g \in Frame : f # g /\ h[f] = h[g]
  BY <1>3, <1>4, FS_PigeonHole
<1> QED  BY <1>2, <1>3, <1>5

\* With room for every page nothing is ever evicted.
LEMMA RoomyStep ==
  ASSUME VMInv, Roomy, NoEvict, panic = "none", NEW p \in Proc, Program(p) \/ Kernel(p)
  PROVE  NoEvict'
<1>0. /\ pc \in [Proc -> Labels]
  BY DEF VMInv, IInv, TypeOK
<1>1. \A q \in Proc \ {p} : pc'[q] = pc[q]
  BY OthersKept DEF SameFor, VMInv, IInv
<1>2. pc[p] \notin Evicting \cup {"evict"}
  BY DEF NoEvict
<1>3. ~FrameAllocFails(p)
  BY FrameLeft DEF FrameAllocFails
<1>4. pc'[p] \notin Evicting \cup {"evict"}
  BY <1>0, <1>2, <1>3 DEF Evicting, Program, Kernel, FrameStep, PageStep, TeardownStep, Goto,
    Kill, Resume, AfterRead, FrameAlloc, EvictFrame, ScanEntry, TestVictim, WriteBack, SwapOut,
    Unload, ClearPage, ReleaseFrame, Repalloc, AddFrame, LoadPage, StackGrowth, BadAddress,
    ReadFile, InstallPage, InstallFails, SwapIn, Unpin, Undo, SysLock, SysCopy, KernelFault,
    ProcessExit, NextMapping, LastMapping, NextEntry, CheckLoaded, MmLock, MmWrite, GetPage,
    FreePage, UnmapPage, DropEntry, PagedirDestroy, UserAccess, UserFault, SysIO, Mmap, Munmap,
    Exit
<1> QED  BY <1>1, <1>4 DEF NoEvict

\* What keeps the two apart is kept, together with the invariant.
LEMMA RegimeStep ==
  ASSUME VMInv, Regime, Calm \/ Roomy \/ Alone, [Next]_vars
  PROVE  (VMInv /\ Regime)'
<1>1. Apart
  BY DEF Regime, NoTeardown, NoEvict, CalmOf, Alone, Apart, Evicting, Taking
<1>2. Regime'
  <2>1. CASE UNCHANGED vars
    BY <2>1 DEF Regime, NoTeardown, CalmOf, NoEvict, Known, vars, locals, pages
  <2>2. CASE panic = "none" /\ \E p \in Proc : Program(p) \/ Kernel(p)
    BY <2>2, CalmStep, RoomyStep DEF Regime
  <2> QED  BY <2>1, <2>2 DEF Next, Terminated
<1>3. Apart'
  BY <1>2 DEF Regime, NoTeardown, NoEvict, CalmOf, Alone, Apart, Evicting, Taking
<1> QED  BY <1>1, <1>2, <1>3, StepVMInv

\* No teardown overlaps an eviction when no program unmaps or exits, when there
\* is a frame for every page, or when there is one process.
THEOREM ApartRegimes ==
  ASSUME Calm \/ Roomy \/ Alone
  PROVE  Spec => []Apart
<1>1. Init => VMInv /\ Regime
  BY InitVMInv DEF Init, Regime, NoTeardown, CalmOf, NoEvict, Evicting, Taking
<1>2. VMInv /\ Regime /\ [Next]_vars => (VMInv /\ Regime)'
  BY RegimeStep
<1>3. VMInv /\ Regime => Apart
  BY DEF Regime, NoTeardown, NoEvict, CalmOf, Alone, Apart, Evicting, Taking
<1> QED  BY <1>1, <1>2, <1>3, PTL DEF Spec

\* In each of these regimes, and without any other hypothesis, the tables agree.
THEOREM TablesAgree ==
  ASSUME Calm \/ Roomy \/ Alone
  PROVE  Spec => [](/\ TableInv /\ MappingsAreTabled /\ LoadedIsMapped
                    /\ FramePartition /\ DeadOwnNothing)
<1> QED  BY ApartRegimes, TablesHold, MappingsTabled, LoadedMapped, AllFramesAccounted, ExitFreesAll, PTL

\* Programs that neither unmap nor exit, any number of them and with any shortage
\* of frames, never lose a page that load_page or stack_growth has pinned to
\* an eviction that another process runs.
THEOREM PinnedPagesStay ==
  ASSUME Calm
  PROVE  Spec => PinnedStaysMapped
<1>1. VMInv /\ Apart /\ Apart' /\ [Next]_vars
        => [\A pg \in Page : spte[pg].pinned /\ Mapped(pg) /\ pagedir'[pg].frame = None
              => pc[Owner[pg]] \in {"clear_page", "pagedir"}]_vars
  BY PinnedStep
<1>2. Spec => []Apart
  BY ApartRegimes
<1> QED  BY <1>1, <1>2, TablesInductive, PTL DEF Spec, PinnedStaysMapped
=============================================================================
