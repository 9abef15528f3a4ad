----------------------------- MODULE PageTable ------------------------------
(***************************************************************************)
(* vm/page.c, the swap_in half of vm/swap.c, install_page of               *)
(* userprog/process.c and page_fault of userprog/exception.c: from the     *)
(* faulting access to the page that is installed, or to the process that   *)
(* is killed.                                                              *)
(***************************************************************************)
EXTENDS FrameTable

\* A user access to a mapped page.  The MMU sets the accessed and dirty bits;
\* no lock is involved and the page may be under eviction.
Store(pg) ==
  /\ mem' = [mem EXCEPT ![pagedir[pg].frame] = Stored(pg)]
  /\ want' = [want EXCEPT ![pg] = Stored(pg)]

Touch(pg, write) ==
  /\ pagedir' = [pagedir EXCEPT ![pg].accessed = TRUE, ![pg].dirty = @ \/ write]
  /\ IF write THEN Store(pg) ELSE UNCHANGED <<mem, want>>

UserAccess(p, pg, write) ==
  /\ pc[p] = "user"
  /\ Mapped(pg)
  /\ Touch(pg, write)
  /\ UNCHANGED <<pc, mode, locals, locks, frames, spte, spt, mmap_list, swap_map,
                 disk, file, panic>>

\* A user access to a page that is not present.
UserFault(p, pg) ==
  /\ pc[p] = "user"
  /\ ~Mapped(pg)
  /\ cur' = [cur EXCEPT ![p] = pg]
  /\ Goto(p, "fault")
  /\ UNCHANGED <<mode, frame, hand, fte, locks, frames, pages, swap_map, contents, panic>>

\* page_fault with an entry for the page: load_page pins it and gives up if it
\* is marked as loaded; page_fault then unpins it and kills the process.
LoadPage(p) ==
  /\ pc[p] = "fault"
  /\ cur[p] \in spt
  /\ spte' = [spte EXCEPT ![cur[p]].pinned = ~spte[cur[p]].is_loaded]
  /\ IF spte[cur[p]].is_loaded THEN Kill(p) ELSE Goto(p, "palloc") /\ UNCHANGED panic
  /\ UNCHANGED <<mode, locals, locks, frames, pagedir, spt, mmap_list, swap_map, contents>>

\* page_fault without an entry, near the stack pointer: stack_growth allocates
\* one, marked loaded and pinned from the start.
StackGrowth(p) ==
  /\ pc[p] = "fault"
  /\ cur[p] \notin spt
  /\ Kind[cur[p]] = "STACK"
  /\ spte' = [spte EXCEPT ![cur[p]] =
                [NewSpte("SWAP") EXCEPT !.is_loaded = TRUE, !.pinned = TRUE]]
  /\ Goto(p, "palloc")
  /\ UNCHANGED <<mode, locals, locks, frames, pagedir, spt, mmap_list, swap_map,
                 contents, panic>>

\* page_fault on an address that is neither known nor part of the stack.
BadAddress(p) ==
  /\ pc[p] = "fault"
  /\ cur[p] \notin spt
  /\ Kind[cur[p]] # "STACK"
  /\ Kill(p)
  /\ UNCHANGED <<mode, locals, locks, frames, pages, swap_map, contents>>

\* read_bytes != file_read_at(..): the load fails.
AfterAnyRead(short) == "install"  \* bug: a short read is accepted
AfterRead(short) == IF short THEN "undo" ELSE "install"

\* load_file: file_read_at under file_lock.  A short read gives the frame back.
ReadFile(p, short) ==
  /\ pc[p] = "read_file"
  /\ file_lock \in {None, p}
  /\ panic' = IF file_lock = p THEN "lock already held" ELSE panic
  /\ mem' = IF short THEN mem ELSE [mem EXCEPT ![frame[p]] = file[cur[p]]]
  /\ Goto(p, AfterRead(short))
  /\ UNCHANGED <<mode, locals, locks, frames, pages, swap_map, disk, file, want>>

\* install_page, and what its caller does next: load_swap reads the slot
\* through the new mapping, load_file marks the page loaded, stack_growth
\* enters it in the hash table and leaves it pinned (page_fault is not an
\* external interrupt, so intr_context() is false).
InstallPage(p) ==
  /\ pc[p] = "install"
  /\ LET pg == cur[p]
     IN IF Mapped(pg)
        THEN Goto(p, "undo") /\ UNCHANGED <<frame, pagedir, spte, spt, want>>
        ELSE /\ pagedir' = [pagedir EXCEPT ![pg] = [Unmapped EXCEPT !.frame = frame[p]]]
             /\ spt' = spt \cup {pg}
             /\ frame' = IF pg \in spt THEN frame ELSE [frame EXCEPT ![p] = None]
             /\ spte' = IF pg \in spt /\ spte[pg].type # "SWAP"
                        THEN [spte EXCEPT ![pg].is_loaded = TRUE] ELSE spte
             /\ want' = IF pg \in spt THEN want ELSE [want EXCEPT ![pg] = mem[frame[p]]]
             /\ IF pg \notin spt THEN Resume(p)
                ELSE Goto(p, IF spte[pg].type = "SWAP" THEN "swap_in" ELSE "unpin")
  /\ UNCHANGED <<mode, cur, hand, fte, locks, frames, mmap_list, swap_map, mem, disk,
                 file, panic>>

\* install_page fails: pagedir_set_page finds no memory for a page table.
InstallFails(p) ==
  /\ pc[p] = "install"
  /\ Goto(p, "undo")
  /\ UNCHANGED <<mode, locals, locks, frames, pages, swap_map, contents, panic>>

\* bitmap_flip of a slot that was in use
KeepSlot(slot) == swap_map  \* bug: the slot stays in use
FreedSlot(slot) == swap_map \ {slot}

\* load_swap: swap_in reads the slot to the user address, so the page comes
\* back accessed and dirty; it panics on a slot that is not in use.
SwapIn(p) ==
  /\ pc[p] = "swap_in"
  /\ LET pg == cur[p]
         slot == spte[pg].swap_index
     IN IF slot \notin swap_map
        THEN panic' = "swap slot free" /\ UNCHANGED <<pc, swap_map, mem, pagedir, spte>>
        ELSE /\ swap_map' = FreedSlot(slot)
             /\ mem' = [mem EXCEPT ![pagedir[pg].frame] = disk[slot]]
             /\ pagedir' = [pagedir EXCEPT ![pg].accessed = TRUE, ![pg].dirty = TRUE]
             /\ spte' = [spte EXCEPT ![pg].is_loaded = TRUE]
             /\ Goto(p, "unpin")
             /\ UNCHANGED panic
  /\ UNCHANGED <<mode, locals, locks, frames, spt, mmap_list, disk, file, want>>

\* page_fault after a successful load; the faulting instruction is retried.
Unpin(p) ==
  /\ pc[p] = "unpin"
  /\ spte' = [spte EXCEPT ![cur[p]].pinned = FALSE]
  /\ frame' = [frame EXCEPT ![p] = None]
  /\ Resume(p)
  /\ UNCHANGED <<mode, cur, hand, fte, locks, frames, pagedir, spt, mmap_list, swap_map,
                 contents, panic>>

\* A load that failed after frame_alloc: free_frame, then page_fault unpins the
\* page and kills.
Undo(p) ==
  /\ pc[p] = "undo"
  /\ FreeFrame(frame[p])
  /\ spte' = [spte EXCEPT ![cur[p]].pinned = FALSE]
  /\ frame' = [frame EXCEPT ![p] = None]
  /\ Kill(p)
  /\ UNCHANGED <<mode, cur, hand, fte, locks, pagedir, spt, mmap_list, swap_map, contents>>

PageStep(p) ==
  \/ LoadPage(p)    \/ StackGrowth(p) \/ BadAddress(p)
  \/ InstallPage(p) \/ SwapIn(p)      \/ Unpin(p) \/ Undo(p)
=============================================================================
