---------------------------- MODULE VMInvariants ----------------------------
(***************************************************************************)
(* The inductive invariant of the virtual memory system: what every label  *)
(* of a thread says about the page it works on, and what a page's two      *)
(* tables and the frame table say of each other.                           *)
(*                                                                         *)
(* The teardown of a process (process_remove_mmap, page_function) tests    *)
(* is_loaded and the page directory without frame_tbl_lock, and an         *)
(* eviction of the same page may run in between: see vm_unmap_race.cfg.    *)
(* The invariant therefore holds as long as the two never overlap, which   *)
(* is what Apart says.                                                     *)
(***************************************************************************)
EXTENDS VirtualMemory

\* Taking a page down, from NextMapping or NextEntry to DropEntry.
Taking == {"check", "mm_lock", "mm_write", "get_page", "free_frame", "clear_page", "drop"}
\* From the fault to the mapping: the page has no frame of its own yet.
Absent == {"fault", "palloc", "evict", "scan", "test", "write_back", "swap_out", "unload",
           "clear", "release", "repalloc", "add", "read_file", "install", "undo"}
\* load_page or stack_growth has pinned the page.
Pinning == (Absent \ {"fault"}) \cup {"swap_in", "unpin"}

\* No process takes a page down while another one evicts.
Apart == \A p, q \in Proc : pc[p] \in Evicting => pc[q] \notin Taking

\* What the regimes of the theorems are made of: the user pool can hold every
\* page, or there is one process only, or no program unmaps or exits.
Roomy == IsFiniteSet(Page) /\ IsFiniteSet(Frame) /\ Cardinality(Page) <= Cardinality(Frame)
Alone == \A p, q \in Proc : p = q
Calm  == Calls \subseteq {"store"}

At(pg, labels) == cur[Owner[pg]] = pg /\ pc[Owner[pg]] \in labels

Entries == {frame_tbl_list[i] : i \in DOMAIN frame_tbl_list}
EntryFor(pg) == [frame |-> pagedir[pg].frame, spte |-> pg]

\* An eviction has taken the entry out of the table and not yet unmapped it.
OutHand(e) == \E p \in Proc : pc[p] = "clear" /\ fte[p] = e

\* The page is the victim an eviction has marked as not loaded.
Leaving(pg) == \E p \in Proc : pc[p] = "clear" /\ fte[p].spte = pg

-----------------------------------------------------------------------------
\* A thread works on a page of its own.
CurOf(p) == pc[p] \notin Idle => Owner[cur[p]] = p

\* Until install_page the page is not mapped; it is pinned from load_page or
\* stack_growth on, and still is in a load that has just failed.
LoadOf(p) ==
  /\ pc[p] \in Absent => ~Mapped(cur[p])
  /\ pc[p] \in Pinning /\ (pc[p] = "undo" => panic = "none") => spte[cur[p]].pinned
  /\ pc[p] \in Absent \ {"fault"} /\ cur[p] \in spt => ~spte[cur[p]].is_loaded
  /\ pc[p] \in Pinning /\ cur[p] \notin spt =>
       Kind[cur[p]] = "STACK" /\ spte[cur[p]].is_loaded /\ spte[cur[p]].type = "SWAP"
  /\ pc[p] \in {"swap_in", "unpin"} => cur[p] \in spt /\ Mapped(cur[p])
  /\ pc[p] = "swap_in" => spte[cur[p]].type = "SWAP" /\ ~spte[cur[p]].is_loaded
  /\ pc[p] = "unpin" => spte[cur[p]].is_loaded
  /\ pc[p] = "read_file" => cur[p] \in spt

\* The frame a load has entered in the table stays there for it.
HeldOf(p) ==
  pc[p] \in {"read_file", "install"} \/ (pc[p] = "undo" /\ panic = "none") =>
    [frame |-> frame[p], spte |-> cur[p]] \in Entries

\* evict_frame's victim keeps its mapping and its frame until it is cleared.
VictimOf(p) ==
  pc[p] \in Chosen \cup {"clear"} =>
    LET v == fte[p].spte
    IN /\ v \in spt /\ Mapped(v) /\ ~spte[v].pinned
       /\ pagedir[v].frame = fte[p].frame
       /\ spte[v].is_loaded <=> pc[p] # "clear"
       /\ pc[p] = "write_back" => spte[v].type = "MMAP"
       /\ pc[p] = "swap_out" => spte[v].type # "MMAP"

\* The teardown takes down pages that are in the table; a page marked as loaded
\* is mapped until its frame has been freed.
TakeOf(p) ==
  /\ pc[p] \in Taking => cur[p] \in spt
  /\ pc[p] \in Taking /\ mode[p] # "destroy" => cur[p] = Head(mmap_list[p])
  /\ pc[p] \in Taking \ {"check", "drop"} => Mapped(cur[p]) /\ spte[cur[p]].is_loaded
  /\ pc[p] = "free_frame" => frame[p] = pagedir[cur[p]].frame
  /\ pc[p] = "drop" => ~Mapped(cur[p])

\* Which paths of the kernel a mode stands for, and what is left at their end.
ModeOf(p) ==
  /\ mode[p] \in {"munmap", "exit", "destroy"} => pc[p] \in Taking \cup {"next", "pagedir", "dead"}
  /\ pc[p] \in {"pagedir", "dead"} => mode[p] = "destroy" /\ PagesOf(p) \cap spt = {}
  /\ pc[p] \in {"user", "exit"} => mode[p] = "user"
  /\ pc[p] \in {"sys_lock", "copy"} => mode[p] = "io"
  /\ mode[p] = "destroy" => mmap_list[p] = <<>>

\* thread.mmap_list lists the mapped pages, each once.
MmapOf(p) ==
  /\ \A i, j \in DOMAIN mmap_list[p] : mmap_list[p][i] = mmap_list[p][j] => i = j
  /\ \A pg \in PagesOf(p) : pg \in spt /\ Kind[pg] = "MMAP"
                            <=> \E i \in DOMAIN mmap_list[p] : mmap_list[p][i] = pg
  /\ \A i \in DOMAIN mmap_list[p] : Owner[mmap_list[p][i]] = p

ThreadInv ==
  \A p \in Proc : /\ CurOf(p) /\ LoadOf(p) /\ HeldOf(p) /\ VictimOf(p)
                  /\ TakeOf(p) /\ ModeOf(p) /\ MmapOf(p)

\* A mapped page is in its owner's table, as loaded, on its way in or out.
MapOf(pg) ==
  Mapped(pg) => /\ pg \in spt
                /\ spte[pg].is_loaded \/ At(pg, {"swap_in"}) \/ Leaving(pg)

\* The frame table lists the frames of mapped pages and of loads in progress.
EntryOf(e) ==
  \/ pagedir[e.spte].frame = e.frame /\ ~At(e.spte, {"clear_page"})
  \/ /\ At(e.spte, {"read_file", "install", "undo"})
     /\ frame[Owner[e.spte]] = e.frame /\ ~Mapped(e.spte)

\* One entry, one type: mapped files never go to swap.
TypeOf(pg) ==
  pg \in spt => /\ Kind[pg] = "MMAP" <=> spte[pg].type = "MMAP"
                /\ Kind[pg] = "STACK" => spte[pg].type = "SWAP"

\* The parts of LoadedIsMapped and MappingsAreTabled that are about one page.
LoadedOf(pg) == pg \in spt /\ spte[pg].is_loaded => Mapped(pg) \/ At(pg, {"drop"})
TabledOf(pg) == InUse(pg) => EntryFor(pg) \in Entries \/ OutHand(EntryFor(pg))

PageInv ==
  /\ \A pg \in Page : MapOf(pg) /\ TypeOf(pg) /\ LoadedOf(pg) /\ TabledOf(pg)
  /\ \A e \in Entries : EntryOf(e)

\* What NoEvict and Calm exclude.
NoEvict == \A p \in Proc : pc[p] \notin Evicting \cup {"evict"}
CalmOf(p) ==
  /\ pc[p] \notin Taking \cup {"exit", "next", "pagedir", "dead", "undo"}
  /\ pc[p] = "fault" => Known(cur[p])
  /\ pc[p] \in {"sys_lock", "copy"} => cur[p] \in spt
NoTeardown == \A p \in Proc : CalmOf(p)

\* What a thread is about to do to a page agrees with the page directory, the
\* supplemental page table, mmap_list and the frame table, at every label: the
\* invariant by which the tables agree, see VMTables.
TableInv == ThreadInv /\ PageInv
Regime == (Calm => NoTeardown) /\ (Roomy => NoEvict)
-----------------------------------------------------------------------------
(***************************************************************************)
(* What frames, slots and files hold.                                      *)
(***************************************************************************)
\* Where no other thread evicts, a copy of a page is also up to date.
Faithful == Roomy \/ Alone

\* Contents that a page may show: its own, and not of an earlier time.
Right(pg, data) ==
  /\ Kind[pg] # "STACK" => data \in {IF Kind[pg] = "ZERO" THEN Zeros ELSE Text(pg), Stored(pg)}
  /\ Faithful => data = want[pg]

\* The frame of a page in use, and the slot of one swapped out.
MemOf(pg) ==
  pg \in spt /\ spte[pg].is_loaded /\ InUse(pg) => Right(pg, mem[pagedir[pg].frame])
SlotOf(pg) ==
  SwappedOut(pg) => /\ spte[pg].swap_index \in swap_map
                    /\ Right(pg, disk[spte[pg].swap_index])

\* A file page is only written with contents of its own page, and an executable
\* is not written at all.
FileOf(pg) ==
  /\ Kind[pg] \in {"FILE", "MMAP"} => file[pg] \in {Text(pg), Stored(pg)}
  /\ Kind[pg] = "ZERO" => file[pg] = Zeros

\* The file has what evict_frame or load_file will rely on: the page is not in
\* memory, or not dirty, or evict_frame has just saved it.
Saved(pg) ==
  ~spte[pg].is_loaded \/ ~pagedir[pg].dirty \/ \E p \in Proc : pc[p] = "unload" /\ fte[p].spte = pg
CleanOf(pg) ==
  Faithful /\ pg \in spt /\ spte[pg].type # "SWAP" /\ Saved(pg) => file[pg] = want[pg]

\* What a load has in its frame before the page is installed; and that only
\* mapped pages are written back in the teardown.
FilledOf(p) ==
  /\ pc[p] = "add" /\ Zeroed(p) => mem[frame[p]] = Zeros
  /\ pc[p] = "read_file" => spte[cur[p]].type # "SWAP"
  /\ pc[p] = "install" /\ cur[p] \in spt /\ spte[cur[p]].type # "SWAP" =>
       Right(cur[p], mem[frame[p]])
  /\ pc[p] \in {"mm_lock", "mm_write"} => Kind[cur[p]] = "MMAP"

\* A file page has what was stored in it once the mapping has been saved or has
\* gone, so that the next mapping shows it.
Saving == {"get_page", "free_frame", "clear_page", "drop"}
KeptOf(pg) ==
  Faithful /\ Kind[pg] = "MMAP" /\ (pg \notin spt \/ At(pg, Saving)) => file[pg] = want[pg]

\* No two pages have one slot, and a slot is marked in use for a page; only
\* the end of a process under memory pressure leaves slots marked.
NobodyEnds == \A p \in Proc : mode[p] # "destroy"

SlotsInv ==
  /\ \A pg, q \in Page : SwappedOut(pg) /\ SwappedOut(q)
                         /\ spte[pg].swap_index = spte[q].swap_index => pg = q
  /\ (Calm \/ Alone) /\ NobodyEnds =>
       \A s \in swap_map : \E pg \in Page : SwappedOut(pg) /\ spte[pg].swap_index = s
  /\ Roomy => swap_map = {}

\* The data of every page is where its tables say.
ContentInv ==
  /\ \A pg \in Page : MemOf(pg) /\ SlotOf(pg) /\ FileOf(pg) /\ CleanOf(pg) /\ KeptOf(pg)
  /\ \A p \in Proc : FilledOf(p)
  /\ SlotsInv

-----------------------------------------------------------------------------
\* No buffer of a system call can be evicted while file_lock is held.
Quiet == Roomy \/ Alone \/ (Calm /\ Buffers = {})

\* Enough frames for a load of every process at once, and slots for all pages.
Ample ==
  /\ IsFiniteSet(Proc) /\ IsFiniteSet(Frame) /\ Cardinality(Proc) <= Cardinality(Frame)
  /\ IsFiniteSet(Page) /\ IsFiniteSet(Slot)
  /\ Cardinality({pg \in Page : Kind[pg] # "MMAP"}) <= Cardinality(Slot)

\* A thread in the kernel under file_lock has its page in memory.
LockedOf(p) ==
  /\ mode[p] = "io" => /\ Buffers # {} /\ pc[p] \in {"sys_lock", "copy"}
                       /\ Mapped(cur[p])
  /\ file_lock = p => pc[p] \in {"copy", "mm_write"}

\* While threads evict or are about to, a frame comes into the pool only from
\* the eviction that then asks for it.
PoolInv ==
  (\E p \in Proc : pc[p] \in Evicting \cup {"evict"}) =>
    user_pool \subseteq {fte[q].frame : q \in {r \in Proc : pc[r] = "repalloc"}}

CauseInv ==
  /\ Quiet => \A p \in Proc : LockedOf(p)
  /\ Calm \/ Alone => PoolInv

\* Where the kernel never panics: there is a frame for every page; or there are
\* frames and slots enough to serve one fault of each process, and no buffer of a
\* system call can be evicted under file_lock.
Provided == Roomy \/ (Ample /\ (Alone \/ (Calm /\ Buffers = {})))
-----------------------------------------------------------------------------
(***************************************************************************)
(* The address spaces that programs see: which pages are in them, and      *)
(* where the kernel has what a page holds.                                 *)
(***************************************************************************)
\* A page goes when its owner starts to take it down.
KnownPages == {pg \in spt : ~At(pg, Taking)}

InMemory(pg) == pg \in spt /\ spte[pg].is_loaded /\ ~At(pg, Saving)
InSwap(pg)   == pg \in spt /\ ~spte[pg].is_loaded /\ spte[pg].type = "SWAP"

Image(pg) ==
  CASE pg \notin KnownPages /\ Kind[pg] # "MMAP" -> None
    [] OTHER -> IF InMemory(pg) THEN mem[pagedir[pg].frame]
                ELSE IF InSwap(pg) THEN disk[spte[pg].swap_index] ELSE file[pg]

Space == INSTANCE AddressSpace WITH
  Pages    <- Page,
  Files    <- {pg \in Page : Kind[pg] = "MMAP"},
  Stacks   <- {pg \in Page : Kind[pg] = "STACK"},
  Texts    <- [pg \in Page |-> IF Kind[pg] = "ZERO" THEN Zeros ELSE Text(pg)],
  Written  <- [pg \in Page |-> Stored(pg)],
  Contents <- Data,
  Lost     <- None,
  known    <- KnownPages,
  data     <- [pg \in Page |-> Image(pg)]

\* Paging is not seen by the programs, where no other process evicts: whatever the
\* kernel moves between frames, swap and files, a page holds what was last stored
\* in it, and a mapped file what was stored before munmap, exit or a killing.
PagingTransparent == Space!Spec
=============================================================================
