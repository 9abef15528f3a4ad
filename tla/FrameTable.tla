----------------------------- MODULE FrameTable -----------------------------
(***************************************************************************)
(* vm/frame.c and the swap_out half of vm/swap.c: frame_alloc, its         *)
(* eviction loop, add_frame_to_tbl and the search in free_frame.  palloc's *)
(* user pool and the page-directory functions are external.                *)
(*                                                                         *)
(* evict_frame returns with frame_tbl_lock held and frame_alloc releases   *)
(* it, so the labels "scan" .. "repalloc" all run under the lock.  The     *)
(* lock orders only threads that take it: the owner of the victim keeps    *)
(* running in user mode until its page is unmapped.                        *)
(***************************************************************************)
EXTENDS VMState

\* load_file passes PAL_ZERO when read_bytes == 0; the other callers of
\* frame_alloc do not ask for a zeroed page.
Zeroed(p) == cur[p] \in spt /\ Kind[cur[p]] = "ZERO" /\ spte[cur[p]].type = "FILE"

\* palloc_get_page(flags): some free page, zeroed on request.
TakeFrame(p, f) ==
  /\ user_pool' = user_pool \ {f}
  /\ frame' = [frame EXCEPT ![p] = f]
  /\ mem' = IF Zeroed(p) THEN [mem EXCEPT ![f] = Zeros] ELSE mem

\* while (!frame): evict_frame may return NULL.
AcceptNull == "add"  \* bug: a NULL frame is accepted
Retry == "evict"

\* frame_alloc: the first palloc_get_page succeeds.
FrameAlloc(p) ==
  /\ pc[p] = "palloc"
  /\ \E f \in user_pool : TakeFrame(p, f)
  /\ Goto(p, "add")
  /\ UNCHANGED <<mode, cur, hand, fte, locks, frame_tbl_list, pages, swap_map,
                 disk, file, want, panic>>

\* frame_alloc: the pool is empty, so enter the eviction loop.
FrameAllocFails(p) ==
  /\ pc[p] = "palloc"
  /\ user_pool = {}
  /\ Goto(p, "evict")
  /\ UNCHANGED <<mode, locals, locks, frames, pages, swap_map, contents, panic>>

\* lock_acquire(&frame_tbl_lock)
IgnoreTableLock == TRUE  \* bug: the lock is not taken
TableUnlocked == frame_tbl_lock = None

\* evict_frame: take frame_tbl_lock and start at the head of the list.  With
\* an empty list the head is the list's own tail sentinel and fte is wild.
EvictFrame(p) ==
  /\ pc[p] = "evict"
  /\ TableUnlocked
  /\ frame_tbl_lock' = p
  /\ hand' = [hand EXCEPT ![p] = 1]
  /\ panic' = IF frame_tbl_list = <<>> THEN "wild frame table entry" ELSE panic
  /\ Goto(p, "scan")
  /\ UNCHANGED <<mode, cur, frame, fte, file_lock, frames, pages, swap_map, contents>>

\* pagedir_set_accessed(.., false)
KeepAccessed(pg) == pagedir  \* bug: no second chance
ClearAccessed(pg) == [pagedir EXCEPT ![pg].accessed = FALSE]

\* e = list_next(e), back to list_begin at the end.
NextHand(i) == IF i = Len(frame_tbl_list) THEN 1 ELSE i + 1

\* fte->spte->pinned, or pagedir_is_accessed.
IgnorePinned(e) == pagedir[e.spte].accessed  \* bug: pinned is not looked at
Skipped(e) == spte[e.spte].pinned \/ pagedir[e.spte].accessed

\* evict_frame, one element: skip a pinned page, give an accessed page a second
\* chance, otherwise choose the entry as the victim.
ScanEntry(p) ==
  /\ pc[p] = "scan"
  /\ LET e == frame_tbl_list[hand[p]]
     IN /\ fte' = [fte EXCEPT ![p] = e]
        /\ hand' = IF Skipped(e) THEN [hand EXCEPT ![p] = NextHand(@)] ELSE hand
        /\ pagedir' = IF spte[e.spte].pinned THEN pagedir ELSE ClearAccessed(e.spte)
        /\ Goto(p, IF Skipped(e) THEN "scan" ELSE "test")
  /\ UNCHANGED <<mode, cur, frame, locks, frames, spte, spt, mmap_list, swap_map,
                 contents, panic>>

\* pagedir_is_dirty, or a page that lives in swap.
SaveSwapOnly(v) == spte[v].type = "SWAP"  \* bug: a dirty page is dropped
MustSave(v) == pagedir[v].dirty \/ spte[v].type = "SWAP"

\* evict_frame: the victim is saved first, where its type says.
TestVictim(p) ==
  /\ pc[p] = "test"
  /\ LET v == fte[p].spte
     IN Goto(p, IF ~MustSave(v) THEN "unload"
                ELSE IF spte[v].type = "MMAP" THEN "write_back" ELSE "swap_out")
  /\ UNCHANGED <<mode, locals, locks, frames, pages, swap_map, contents, panic>>

\* evict_frame: file_write_at under file_lock.  lock_acquire asserts that the
\* caller does not already hold the lock.
WriteBack(p) ==
  /\ pc[p] = "write_back"
  /\ file_lock \in {None, p}
  /\ file' = [file EXCEPT ![fte[p].spte] = mem[fte[p].frame]]
  /\ panic' = IF file_lock = p THEN "lock already held" ELSE panic
  /\ Goto(p, "unload")
  /\ UNCHANGED <<mode, locals, locks, frames, pages, swap_map, mem, disk, want>>

\* fte->spte->type = SWAP and swap_index = s
SwappedToUnknown(v, s) == [spte EXCEPT ![v].type = "SWAP"]  \* bug: the slot is forgotten
SwappedTo(v, s) == [spte EXCEPT ![v].type = "SWAP", ![v].swap_index = s]

\* evict_frame: type = SWAP and swap_index = swap_out(frame), which panics when
\* bitmap_scan_and_flip finds no free slot.
SwapOut(p) ==
  /\ pc[p] = "swap_out"
  /\ LET v == fte[p].spte
     IN IF swap_map = Slot
        THEN panic' = "swap full" /\ UNCHANGED <<pc, spte, swap_map, disk>>
        ELSE \E s \in Slot \ swap_map :
               /\ swap_map' = swap_map \cup {s}
               /\ disk' = [disk EXCEPT ![s] = mem[fte[p].frame]]
               /\ spte' = SwappedTo(v, s)
               /\ Goto(p, "unload")
               /\ UNCHANGED panic
  /\ UNCHANGED <<mode, locals, locks, frames, pagedir, spt, mmap_list, mem, file, want>>

\* fte->spte->is_loaded = false
StillLoaded(v) == spte  \* bug: is_loaded stays set
NotLoaded(v) == [spte EXCEPT ![v].is_loaded = FALSE]

\* list_remove of the i-th entry
KeepListed(i) == frame_tbl_list  \* bug: the entry stays listed
Unlisted(i) == RemoveAt(frame_tbl_list, i)

\* evict_frame: is_loaded = false, then list_remove.
Unload(p) ==
  /\ pc[p] = "unload"
  /\ spte' = NotLoaded(fte[p].spte)
  /\ frame_tbl_list' = Unlisted(hand[p])
  /\ Goto(p, "clear")
  /\ UNCHANGED <<mode, locals, locks, user_pool, pagedir, spt, mmap_list, swap_map,
                 contents, panic>>

\* The supplemental page table entry of pg has not been freed: it is in its
\* owner's table or stack_growth is still working on it.
LiveSpte(pg) ==
  \/ pg \in spt
  \/ cur[Owner[pg]] = pg /\ pc[Owner[pg]] \notin {"user", "undo", "exit", "next", "pagedir", "dead"}

\* pagedir_clear_page
KeepMapped(pg) == pagedir  \* bug: the page stays mapped
Cleared(pg) == [pagedir EXCEPT ![pg].frame = None]

\* evict_frame: pagedir_clear_page on the victim's owner.  The address comes
\* from the victim's entry; malloc's free() has overwritten a freed one, which
\* pagedir_clear_page's assertion on user addresses rejects.
ClearPage(p) ==
  /\ pc[p] = "clear"
  /\ pagedir' = Cleared(fte[p].spte)
  /\ panic' = IF LiveSpte(fte[p].spte) THEN panic ELSE "freed spte"
  /\ Goto(p, "release")
  /\ UNCHANGED <<mode, locals, locks, frames, spte, spt, mmap_list, swap_map, contents>>

\* evict_frame: palloc_free_page(fte->frame) and free(fte).
ReleaseFrame(p) ==
  /\ pc[p] = "release"
  /\ user_pool' = user_pool \cup {fte[p].frame}
  /\ Goto(p, "repalloc")
  /\ UNCHANGED <<mode, locals, locks, frame_tbl_list, pages, swap_map, contents, panic>>

\* evict_frame's return palloc_get_page(flags) and frame_alloc's lock_release.
\* Another thread may have taken the page meanwhile: then evict again.
Repalloc(p) ==
  /\ pc[p] = "repalloc"
  /\ IF user_pool = {}
     THEN Goto(p, Retry) /\ UNCHANGED <<frame, user_pool, mem>>
     ELSE Goto(p, "add") /\ \E f \in user_pool : TakeFrame(p, f)
  /\ frame_tbl_lock' = None
  /\ hand' = [hand EXCEPT ![p] = 0]
  /\ fte' = [fte EXCEPT ![p] = None]
  /\ UNCHANGED <<mode, cur, file_lock, frame_tbl_list, pages, swap_map,
                 disk, file, want, panic>>

\* load_page's switch on spte->type, and load_file's test of read_bytes
FileOnly(pg) == pg \in spt /\ Kind[pg] # "ZERO" /\ spte[pg].type = "FILE"  \* bug: a mapped page is not read
HasFileData(pg) == pg \in spt /\ Kind[pg] # "ZERO" /\ spte[pg].type # "SWAP"

\* add_frame_to_tbl, then back to the caller of frame_alloc: only load_file
\* with read_bytes > 0 reads the page before installing it.
AddFrame(p) ==
  /\ pc[p] = "add"
  /\ TableUnlocked
  /\ frame_tbl_list' = Append(frame_tbl_list, [frame |-> frame[p], spte |-> cur[p]])
  /\ Goto(p, IF HasFileData(cur[p]) THEN "read_file" ELSE "install")
  /\ UNCHANGED <<mode, locals, locks, user_pool, pages, swap_map, contents, panic>>

\* free_frame(f): remove and free the first entry for f, if there is one.
EntriesFor(f) == {i \in DOMAIN frame_tbl_list : frame_tbl_list[i].frame = f}

FreeFrame(f) ==
  /\ TableUnlocked
  /\ IF EntriesFor(f) = {} THEN UNCHANGED frames
     ELSE \E i \in EntriesFor(f) :
            /\ \A k \in EntriesFor(f) : i <= k
            /\ frame_tbl_list' = Unlisted(i)
            /\ user_pool' = user_pool \cup {f}

FrameStep(p) ==
  \/ FrameAlloc(p)   \/ FrameAllocFails(p) \/ EvictFrame(p) \/ ScanEntry(p)
  \/ TestVictim(p)   \/ WriteBack(p)       \/ SwapOut(p)    \/ Unload(p)
  \/ ClearPage(p)    \/ ReleaseFrame(p)    \/ Repalloc(p)   \/ AddFrame(p)
=============================================================================
